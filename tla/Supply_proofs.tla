---------------------------- MODULE Supply_proofs ----------------------------
(***************************************************************************)
(* Nothing is created but rewards, and nothing is lost: the sums of        *)
(* Runtime, for any keys, values, genesis list and bounds.                 *)
(***************************************************************************)
EXTENDS Runtime_proofs, SumTheorems

\* No outpoint is listed twice.  The code compares inputs with their signatures
\* (utxo.rs:161), so that a transaction that takes effect may list one twice.
UsedOnce(tx) ==
    \A i, j \in DOMAIN tx.inputs : tx.inputs[i].outpoint = tx.inputs[j].outpoint => i = j

NoneTwice == \A tx \in Applied : UsedOnce(tx)

\* A key makes one signature of a message; then none is listed twice.  The run
\* two_signatures shows what happens otherwise.
OneSignature == \A s, t \in Salts : s = t

\* No output is listed twice in the genesis configuration.
GenesisDistinct ==
    \A i, j \in DOMAIN GenesisUtxos : GenesisUtxos[i] = GenesisUtxos[j] => i = j

\* All that a chain can ever issue.
subsidy == [b \in 1 .. MaxBlock |-> issuance(b)]
Subsidies == SumFunction(subsidy)

\* What genesis gave and the blocks can issue fits a Value and a priority.  In
\* the source: 200 and 2^32 subsidies of at most 50, against 2^128 and 2^64.
SupplyFits ==
    /\ GenesisSupply + Subsidies <= MaxValue
    /\ GenesisSupply + Subsidies < PriorityModulus

-----------------------------------------------------------------------------
(* The sums of a transaction. *)

\* The coins of the store by their values.
worth == [k \in DOMAIN utxoStore |-> utxoStore[k].value]

LEMMA TransactionFinite ==
    ASSUME NEW K, NEW tx \in Transaction(K)
    PROVE  /\ IsFiniteSet(DOMAIN tx.inputs)
           /\ IsFiniteSet(DOMAIN tx.outputs)
           /\ \A i \in DOMAIN tx.outputs : tx.outputs[i].value \in Nat
<1>1. PICK m \in 0 .. MaxInputs : tx.inputs \in [1 .. m -> TransactionInput(K)]
  BY DEF Transaction, BoundedSeq, SeqOf
<1>2. PICK n \in 0 .. MaxOutputs :
          tx.outputs \in [1 .. n -> [value : SubmittedValues, pubkey : Pubkeys]]
  BY DEF Transaction, BoundedSeq, SeqOf
<1>3. m \in Int /\ n \in Int
  BY TransactionsAssumption
<1>4. IsFiniteSet(1 .. m) /\ IsFiniteSet(1 .. n)
  BY <1>3, FS_Interval
<1>5. \A i \in DOMAIN tx.outputs : tx.outputs[i].value \in Nat
  BY TransactionShape, TransactionsAssumption DEF TransactionOutput, Value
<1> QED
  BY <1>1, <1>2, <1>4, <1>5

LEMMA WorthNat ==
    ASSUME IInv
    PROVE  \A k \in DOMAIN utxoStore : worth[k] \in Nat /\ worth[k] = utxoStore[k].value
  BY TransactionsAssumption DEF IInv, TypeOK, worth, TransactionOutput, Value

\* With one signature for each key and message, inputs that differ differ in
\* their outpoints.
LEMMA OnceSigned ==
    ASSUME OneSignature, NEW tx \in Transaction(KnownKeys), Spend(tx)
    PROVE  UsedOnce(tx)
<1> SUFFICES ASSUME NEW i \in DOMAIN tx.inputs, NEW j \in DOMAIN tx.inputs,
                    tx.inputs[i].outpoint = tx.inputs[j].outpoint
             PROVE  i = j
  BY DEF UsedOnce
<1>1. /\ tx.inputs[i] \in TransactionInput(KnownKeys)
      /\ tx.inputs[j] \in TransactionInput(KnownKeys)
  BY TransactionShape
<1>2. i \in found_inputs(tx) /\ j \in found_inputs(tx)
  BY DEF Spend, spend, missing_utxos, found_inputs, outpoints
<1>3. tx.inputs[i].sigscript.signer = tx.inputs[j].sigscript.signer
  BY <1>2 DEF Spend, spend, validate_transaction, inputs_signed, sr25519_verify
<1>4. tx.inputs[i].sigscript = tx.inputs[j].sigscript
  BY <1>1, <1>3 DEF TransactionInput, Sigscript, OneSignature
<1>5. tx.inputs[i] = tx.inputs[j]
  BY <1>1, <1>4 DEF TransactionInput
<1>6. IsInjective(tx.inputs)
  BY DEF Spend, spend, validate_transaction, inputs_used_once
<1> QED
  BY <1>5, <1>6 DEF IsInjective

\* No coin is counted twice where none is listed twice: the inputs of a spend
\* are worth what the coins it consumes are.
LEMMA InputsCountOnce ==
    ASSUME IInv, NEW tx \in Transaction(KnownKeys), Spend(tx), UsedOnce(tx)
    PROVE  /\ IsFiniteSet(outpoints(tx))
           /\ outpoints(tx) \subseteq DOMAIN utxoStore
           /\ total_input(tx) = SumFunctionOnSet(worth, outpoints(tx))
           /\ total_input(tx) \in Nat
           /\ total_output(tx) \in Nat
           /\ total_output(tx) <= total_input(tx)
<1> DEFINE I == DOMAIN tx.inputs
           name == [i \in I |-> tx.inputs[i].outpoint]
           terms == [i \in found_inputs(tx) |-> utxoStore[tx.inputs[i].outpoint].value]
<1>1. outpoints(tx) \subseteq DOMAIN utxoStore /\ missing_utxos(tx) = {}
  BY DEF Spend, spend, missing_utxos
<1>2. found_inputs(tx) = I
  BY <1>1 DEF found_inputs, outpoints
<1>3. outpoints(tx) = {name[i] : i \in I}
  BY DEF outpoints
<1>4. IsFiniteSet(I)
  BY TransactionFinite
<1>5. \A i \in I : name[i] \in DOMAIN utxoStore /\ name[i] = tx.inputs[i].outpoint
  BY <1>1 DEF outpoints
<1>6. \A i \in I : terms[i] = worth[name[i]] /\ terms[i] \in Int
  <2> SUFFICES ASSUME NEW i \in I PROVE terms[i] = worth[name[i]] /\ terms[i] \in Int
    OBVIOUS
  <2>1. terms[i] = utxoStore[name[i]].value
    BY <1>2, <1>5
  <2>2. worth[name[i]] \in Nat /\ worth[name[i]] = utxoStore[name[i]].value
    BY <1>5, WorthNat
  <2> QED
    BY <2>1, <2>2
<1>7. \A i, j \in I : name[i] = name[j] => i = j
  BY DEF UsedOnce
<1>8. total_input(tx) = SumFunctionOnSet(terms, I)
  BY <1>2 DEF total_input, SumFunction
<1>9. total_input(tx) \in Value /\ total_output(tx) \in Value /\ total_input(tx) >= total_output(tx)
  BY <1>1 DEF Spend, spend, validate_transaction
<1> HIDE DEF terms, name, I
<1>10. /\ IsFiniteSet({name[i] : i \in I})
       /\ SumFunctionOnSet(terms, I) = SumFunctionOnSet(worth, {name[i] : i \in I})
  BY <1>4, <1>6, <1>7, SumRenamed
<1> QED
  BY <1>1, <1>3, <1>8, <1>9, <1>10, TransactionsAssumption DEF Value

\* The new coins of a spend are worth its outputs.
LEMMA OutputsCountOnce ==
    ASSUME IInv, NEW tx \in Transaction(KnownKeys), Spend(tx)
    PROVE  /\ IsFiniteSet(new_utxos(tx))
           /\ total_output(tx) = SumFunctionOnSet(worth', new_utxos(tx))
<1> DEFINE I == DOMAIN tx.outputs
           name == [i \in I |-> OutputKey(tx, i - 1)]
           terms == [i \in I |-> tx.outputs[i].value]
<1>1. new_utxos(tx) = {name[i] : i \in I}
  BY DEF new_utxos
<1>2. IsFiniteSet(I) /\ I \subseteq Int /\ \A i \in I : terms[i] \in Int
  BY TransactionFinite, TransactionShape
<1>3. \A i, j \in I : name[i] = name[j] => i = j
  <2> SUFFICES ASSUME NEW i \in I, NEW j \in I, name[i] = name[j] PROVE i = j
    OBVIOUS
  <2>1. i \in Int /\ j \in Int
    BY <1>2
  <2>2. i - 1 = j - 1
    BY DEF OutputKey
  <2> QED
    BY <2>1, <2>2
<1>4. \A i \in I : terms[i] = worth'[name[i]]
  <2> SUFFICES ASSUME NEW i \in I PROVE terms[i] = worth'[name[i]]
    OBVIOUS
  <2>1. name[i] \in new_utxos(tx)
    BY <1>1
  <2>2. name[i].index = i - 1 /\ i \in Int
    BY <1>2 DEF OutputKey
  <2> HIDE DEF name
  <2>3. Content(name[i]) = tx.outputs[name[i].index + 1]
    BY <2>1, NewKeys
  <2>4. name[i] \in DOMAIN utxoStore' /\ utxoStore'[name[i]] = Content(name[i])
    BY <2>1, SpendEffect
  <2>5. name[i].index + 1 = i
    BY <2>2
  <2> QED
    BY <2>3, <2>4, <2>5 DEF worth
<1>5. total_output(tx) = SumFunctionOnSet(terms, I)
  BY DEF total_output, SumFunction
<1> HIDE DEF terms, name, I
<1>6. /\ IsFiniteSet({name[i] : i \in I})
      /\ SumFunctionOnSet(terms, I) = SumFunctionOnSet(worth', {name[i] : i \in I})
  BY <1>2, <1>3, <1>4, SumRenamed
<1> QED
  BY <1>1, <1>5, <1>6

-----------------------------------------------------------------------------
(* A spend pays out no more than it takes in. *)

\* Transactions take effect by being spent, one at a time.
LEMMA AppliedStep ==
    ASSUME IInv, [Next]_vars
    PROVE  \/ Applied' = Applied
           \/ \E tx \in Transaction(KnownKeys) : Spend(tx) /\ Applied' = Applied \cup {tx}
<1>1. ASSUME NEW tx \in Transaction(KnownKeys), Spend(tx)
      PROVE  Applied' = Applied \cup {tx}
  <2>1. Coins' = Coins \cup new_utxos(tx) /\ new_utxos(tx) # {}
    BY <1>1, SpendEffect
  <2>2. \A k \in new_utxos(tx) : k.kind = "output" /\ k.tx = tx
    BY NewKeys
  <2> QED
    BY <2>1, <2>2 DEF Applied
<1>2. CASE FinalizeBlock
  <2>1. UNCHANGED spent /\ building
    BY <1>2 DEF FinalizeBlock
  <2>2. CASE \E a \in author : disperse_reward(a, blockNumber)
    <3>1. PICK r : r.kind = "reward" /\ Coins' = Coins \cup {r}
      BY <2>1, <2>2, RewardEffect
    <3> QED
      BY <3>1 DEF Applied
  <2>3. CASE UNCHANGED <<utxoStore, rewardTotal>>
    BY <2>1, <2>3 DEF Applied, Coins
  <2> QED
    BY <1>2, <2>2, <2>3 DEF FinalizeBlock, UtxoOnFinalize
<1>3. CASE UNCHANGED <<utxoStore, spent>>
  BY <1>3 DEF Applied, Coins
<1> QED
  BY <1>1, <1>2, <1>3 DEF Next, InitializeBlock, SetAuthor, vars

\* What a transaction paid out is covered by the coins it consumed.
Covered(tx) == total_output(tx) <= SumFunction([o \in outpoints(tx) |-> Content(o).value])

CoveredWhereUsedOnce == \A tx \in Applied : UsedOnce(tx) => Covered(tx)

LEMMA SpendCovered ==
    ASSUME IInv, NEW tx \in Transaction(KnownKeys), Spend(tx), UsedOnce(tx)
    PROVE  Covered(tx)
<1> DEFINE contents == [o \in outpoints(tx) |-> Content(o).value]
<1>1. /\ IsFiniteSet(outpoints(tx)) /\ outpoints(tx) \subseteq DOMAIN utxoStore
      /\ total_output(tx) <= SumFunctionOnSet(worth, outpoints(tx))
  BY InputsCountOnce
<1>2. \A o \in outpoints(tx) : worth[o] = contents[o]
  BY <1>1 DEF worth, IInv, AddressedByContent
<1>3. SumFunction(contents) = SumFunctionOnSet(contents, outpoints(tx))
  BY DEF SumFunction
<1> HIDE DEF contents
<1>4. SumFunctionOnSet(worth, outpoints(tx)) = SumFunctionOnSet(contents, outpoints(tx))
  BY <1>1, <1>2, SumOfEqual
<1> QED
  BY <1>1, <1>3, <1>4 DEF contents, Covered

LEMMA NothingAppliedYet == Init => Applied = {}
<1> SUFFICES ASSUME Init PROVE Applied = {}
  OBVIOUS
<1>1. \A k \in Coins : k.kind = "genesis"
  BY DEF Init, UtxoInit, Coins, GenesisKey
<1> QED
  BY <1>1 DEF Applied

LEMMA CoveredStep ==
    IInv /\ CoveredWhereUsedOnce /\ [Next]_vars => CoveredWhereUsedOnce'
  BY AppliedStep, SpendCovered DEF CoveredWhereUsedOnce, UsedOnce, Covered, total_output,
                                   outpoints, Content

LEMMA NoneTwiceStep == OneSignature /\ IInv /\ NoneTwice /\ [Next]_vars => NoneTwice'
  BY AppliedStep, OnceSigned DEF NoneTwice, UsedOnce

-----------------------------------------------------------------------------
(* Nothing is lost and nothing is created but subsidies. *)

LEMMA SupplyIsWorth == Supply = SumFunctionOnSet(worth, DOMAIN utxoStore)
<1>1. DOMAIN worth = DOMAIN utxoStore
  BY DEF worth
<1> QED
  BY <1>1 DEF Supply, SumFunction, worth

\* What was issued is part of what can be.
LEMMA IssuedWithin ==
    ASSUME TypeOK
    PROVE  /\ Rewarded \subseteq 1 .. MaxBlock
           /\ IsFiniteSet(Rewarded)
           /\ \A b \in 1 .. MaxBlock : subsidy[b] = issuance(b) /\ subsidy[b] \in Nat
           /\ Issued = SumFunctionOnSet(subsidy, Rewarded)
           /\ Issued \in Nat
           /\ Issued <= Subsidies
           /\ Subsidies \in Nat
<1>1. MaxBlock \in Nat /\ IsFiniteSet(1 .. MaxBlock)
  BY RuntimeAssumption, FS_Interval
<1>2. \A b \in 1 .. MaxBlock : subsidy[b] = issuance(b) /\ subsidy[b] \in Nat
  BY RuntimeAssumption, TransactionsAssumption DEF subsidy, Value
<1>3. Rewarded \subseteq 1 .. MaxBlock
  BY <1>1 DEF TypeOK, Rewarded
<1>4. IsFiniteSet(Rewarded)
  BY <1>1, <1>3, FS_Subset
<1>5. Issued = SumFunctionOnSet(subsidy, Rewarded)
  <2> DEFINE paid == [b \in Rewarded |-> issuance(b)]
  <2>1. \A b \in Rewarded : paid[b] = subsidy[b]
    BY <1>2, <1>3
  <2>2. Issued = SumFunctionOnSet(paid, Rewarded)
    BY DEF Issued, SumFunction
  <2> HIDE DEF paid
  <2> QED
    BY <1>4, <2>1, <2>2, SumOfEqual
<1>6. Subsidies = SumFunctionOnSet(subsidy, 1 .. MaxBlock)
  BY DEF Subsidies, SumFunction, subsidy
<1>7. Issued \in Nat
  BY <1>2, <1>3, <1>4, <1>5, SumIsNat
<1>8. Subsidies \in Nat
  BY <1>1, <1>2, <1>6, SumIsNat
<1>9. Issued <= Subsidies
  BY <1>1, <1>2, <1>3, <1>5, <1>6, SumOfPart
<1> QED
  BY <1>2, <1>3, <1>4, <1>5, <1>7, <1>8, <1>9

LEMMA GenesisIsNat ==
    /\ IsFiniteSet(DOMAIN GenesisUtxos)
    /\ \A i \in DOMAIN GenesisUtxos : GenesisUtxos[i].value \in Nat
    /\ GenesisSupply \in Nat
<1>1. DOMAIN GenesisUtxos = 1 .. Len(GenesisUtxos) /\ Len(GenesisUtxos) \in Nat
  BY GenesisAssumption
<1>2. IsFiniteSet(DOMAIN GenesisUtxos)
  BY <1>1, FS_Interval
<1>3. \A i \in DOMAIN GenesisUtxos : GenesisUtxos[i].value \in Nat
  <2>1. \A i \in DOMAIN GenesisUtxos : GenesisUtxos[i] \in TransactionOutput
    BY GenesisAssumption
  <2> QED
    BY <2>1, TransactionsAssumption DEF TransactionOutput, Value
<1> DEFINE given == [i \in DOMAIN GenesisUtxos |-> GenesisUtxos[i].value]
<1>4. \A i \in DOMAIN GenesisUtxos : given[i] \in Nat
  BY <1>3
<1>5. GenesisSupply = SumFunctionOnSet(given, DOMAIN GenesisUtxos)
  BY DEF GenesisSupply, SumFunction
<1> HIDE DEF given
<1> QED
  BY <1>2, <1>3, <1>4, <1>5, SumIsNat

\* The inductive invariant: the store is finite and the books balance, as long
\* as no outpoint was listed twice.
SInv ==
    /\ IInv
    /\ IsFiniteSet(DOMAIN utxoStore)
    /\ NoneTwice => SupplyConserved

\* Every genesis output is a coin of its own.
LEMMA InitSInv == GenesisDistinct /\ Init => SInv
<1> SUFFICES ASSUME GenesisDistinct, Init PROVE SInv
  OBVIOUS
<1> DEFINE I == DOMAIN GenesisUtxos
           name == [i \in I |-> GenesisKey(GenesisUtxos[i])]
           given == [i \in I |-> GenesisUtxos[i].value]
<1>1. IInv
  BY InitIInv
<1>2. DOMAIN utxoStore = {name[i] : i \in I} /\ \A k \in DOMAIN utxoStore : utxoStore[k] = k.utxo
  BY DEF Init, UtxoInit
<1>3. \A i \in I : name[i].utxo = GenesisUtxos[i]
  BY DEF GenesisKey
<1>4. \A i, j \in I : name[i] = name[j] => i = j
  <2> SUFFICES ASSUME NEW i \in I, NEW j \in I, name[i] = name[j] PROVE i = j
    OBVIOUS
  <2> HIDE DEF name
  <2>1. GenesisUtxos[i] = GenesisUtxos[j]
    BY <1>3
  <2> QED
    BY <2>1 DEF GenesisDistinct
<1>5. \A i \in I : given[i] = GenesisUtxos[i].value /\ given[i] \in Int
  BY GenesisIsNat
<1>6. GenesisSupply = SumFunctionOnSet(given, I)
  BY DEF GenesisSupply, SumFunction
<1>7. IsFiniteSet(I)
  BY GenesisIsNat
<1> HIDE DEF I, name, given
<1>8. \A i \in I : given[i] = worth[name[i]]
  <2> SUFFICES ASSUME NEW i \in I PROVE given[i] = worth[name[i]]
    OBVIOUS
  <2>1. name[i] \in DOMAIN utxoStore
    BY <1>2
  <2>2. worth[name[i]] = utxoStore[name[i]].value
    BY <2>1 DEF worth
  <2>3. utxoStore[name[i]] = GenesisUtxos[i]
    BY <1>2, <1>3, <2>1
  <2> QED
    BY <1>5, <2>2, <2>3
<1>9. /\ IsFiniteSet({name[i] : i \in I})
      /\ SumFunctionOnSet(given, I) = SumFunctionOnSet(worth, {name[i] : i \in I})
  BY <1>4, <1>5, <1>7, <1>8, SumRenamed
<1>10. Supply = GenesisSupply
  BY <1>2, <1>6, <1>9, SupplyIsWorth
<1>11. Issued = 0
  <2>1. Rewarded = {}
    BY DEF Init, Rewarded
  <2>2. Issued = SumFunctionOnSet(subsidy, {})
    BY <1>1, <2>1, IssuedWithin DEF IInv
  <2> QED
    BY <2>2, SumOverNothing
<1>12. rewardTotal = 0
  BY DEF Init, UtxoInit
<1>13. SupplyConserved
  BY <1>10, <1>11, <1>12, GenesisIsNat DEF SupplyConserved
<1> QED
  BY <1>1, <1>2, <1>9, <1>13 DEF SInv

\* What is in the books bounds every sum in the code.
LEMMA SupplyBounded ==
    ASSUME SInv, NoneTwice
    PROVE  /\ \A k \in DOMAIN utxoStore : worth[k] \in Nat
           /\ Supply \in Nat /\ rewardTotal \in Nat
           /\ Supply + rewardTotal <= GenesisSupply + Subsidies
<1>1. \A k \in DOMAIN utxoStore : worth[k] \in Nat
  BY WorthNat DEF SInv
<1>2. Supply \in Nat
  BY <1>1, SupplyIsWorth, SumIsNat DEF SInv
<1>3. rewardTotal \in Nat
  BY TransactionsAssumption DEF SInv, IInv, TypeOK, Value
<1>4. /\ Issued \in Nat /\ Subsidies \in Nat /\ Issued <= Subsidies
      /\ GenesisSupply \in Nat
  BY IssuedWithin, GenesisIsNat DEF SInv, IInv
<1> QED
  BY <1>1, <1>2, <1>3, <1>4 DEF SInv, SupplyConserved

\* A spend moves value from coins to coins and to the fees: the fee is below
\* 2^64, so none of it is cut off.
LEMMA SpendSInv ==
    ASSUME SupplyFits, SInv, NEW tx \in Transaction(KnownKeys), Spend(tx)
    PROVE  SInv'
<1> DEFINE O == outpoints(tx)
           N == new_utxos(tx)
           R == DOMAIN utxoStore \ O
<1>1. IInv /\ IInv' /\ IsFiniteSet(DOMAIN utxoStore)
  BY SpendIInv DEF SInv
<1>2. IsFiniteSet(N) /\ total_output(tx) = SumFunctionOnSet(worth', N)
  BY <1>1, OutputsCountOnce
<1>3. /\ O \subseteq DOMAIN utxoStore
      /\ DOMAIN utxoStore' = R \cup N
      /\ N # {} /\ N \cap Coins = {} /\ Coins' = Coins \cup N
      /\ \A k \in R : utxoStore'[k] = utxoStore[k]
  BY <1>1, SpendEffect
<1>4. N \cap R = {} /\ O \cap R = {} /\ O \cup R = DOMAIN utxoStore /\ IsFiniteSet(R)
  BY <1>1, <1>3, FS_Subset DEF Coins
<1>5. IsFiniteSet(DOMAIN utxoStore')
  <2> HIDE DEF N, R
  <2>1. IsFiniteSet(R \cup N)
    BY <1>2, <1>4, FS_Union
  <2> QED
    BY <1>3, <2>1
<1>6. ASSUME NoneTwice' PROVE NoneTwice /\ UsedOnce(tx)
  <2>1. \A k \in N : k.kind = "output" /\ k.tx = tx
    BY NewKeys
  <2>2. Applied' = Applied \cup {tx}
    BY <1>3, <2>1 DEF Applied
  <2> QED
    BY <1>6, <2>2 DEF NoneTwice, UsedOnce
<1>7. ASSUME NoneTwice' PROVE SupplyConserved'
  <2>1. NoneTwice /\ SupplyConserved
    BY <1>6, <1>7 DEF SInv
  <2>2. /\ IsFiniteSet(O)
        /\ total_input(tx) = SumFunctionOnSet(worth, O)
        /\ total_input(tx) \in Nat /\ total_output(tx) \in Nat
        /\ total_output(tx) <= total_input(tx)
    BY <1>1, <1>6, <1>7, InputsCountOnce
  <2>3. missing_utxos(tx) = {} /\ rewardTotal' = rewardTotal + priority(tx)
    BY DEF Spend, spend, update_storage
  <2>4. UNCHANGED <<claims, blockNumber, building>>
    BY DEF Spend
  <2>5. /\ Supply \in Nat /\ rewardTotal \in Nat
        /\ Supply + rewardTotal <= GenesisSupply + Subsidies
    BY <2>1, SupplyBounded
  <2> HIDE DEF O, N, R
  <2>6. \A k \in O \cup R : worth[k] \in Nat
    BY <1>1, <1>4, WorthNat
  <2>7. \A k \in R : worth'[k] = worth[k]
    BY <1>3, <1>4 DEF worth
  <2>8. \A k \in R \cup N : worth'[k] \in Int
    <3>1. \A k \in DOMAIN utxoStore' : utxoStore'[k].value \in Nat
      BY <1>1, TransactionsAssumption DEF IInv, TypeOK, TransactionOutput, Value
    <3> QED
      BY <1>3, <3>1 DEF worth
  <2>9. Supply = SumFunctionOnSet(worth, O) + SumFunctionOnSet(worth, R)
    BY <1>4, <2>2, <2>6, SumOfDisjoint, SupplyIsWorth
  <2>10. Supply' = SumFunctionOnSet(worth', R \cup N)
    <3>1. DOMAIN worth' = R \cup N
      BY <1>3 DEF worth
    <3> QED
      BY <1>3, <3>1 DEF Supply, SumFunction, worth
  <2>11. SumFunctionOnSet(worth', R \cup N)
            = SumFunctionOnSet(worth', R) + SumFunctionOnSet(worth', N)
    BY <1>2, <1>4, <2>8, SumOfDisjoint
  <2>12. SumFunctionOnSet(worth', R) = SumFunctionOnSet(worth, R)
    BY <1>4, <2>7, SumOfEqual
  <2>13. SumFunctionOnSet(worth, R) \in Nat
    BY <1>4, <2>6, SumIsNat
  <2>14. priority(tx) = total_input(tx) - total_output(tx)
    <3>1. GenesisSupply + Subsidies < PriorityModulus
          /\ GenesisSupply \in Nat /\ Subsidies \in Nat /\ PriorityModulus \in Nat \ {0}
      BY <1>1, GenesisIsNat, IssuedWithin, TransactionsAssumption DEF SupplyFits, IInv
    <3>2. total_input(tx) - total_output(tx) \in 0 .. PriorityModulus - 1
      BY <2>2, <2>5, <2>9, <2>13, <3>1
    <3>3. \A m \in Nat \ {0} : \A x \in 0 .. m - 1 : x % m = x
      OBVIOUS
    <3> QED
      BY <2>3, <3>1, <3>2, <3>3 DEF priority
  <2>15. Supply' + rewardTotal' = Supply + rewardTotal
    BY <1>2, <2>2, <2>3, <2>5, <2>9, <2>10, <2>11, <2>12, <2>13, <2>14
  <2>16. Issued' = Issued
    BY <2>4 DEF Issued, Rewarded
  <2> QED
    BY <2>1, <2>15, <2>16 DEF SupplyConserved
<1> QED
  BY <1>1, <1>5, <1>7 DEF SInv

\* The reward of a block is never cut off.
LEMMA RewardWhole ==
    ASSUME SupplyFits, SInv, NoneTwice, building
    PROVE  /\ blockNumber \in 1 .. MaxBlock
           /\ issuance(blockNumber) \in Nat
           /\ blockNumber \notin Rewarded
           /\ rewardTotal + issuance(blockNumber) \in 0 .. MaxValue
<1>1. blockNumber \in 1 .. MaxBlock /\ blockNumber \notin Rewarded
  BY RuntimeAssumption DEF SInv, IInv, TypeOK, Rewarded
<1> DEFINE more == Rewarded \cup {blockNumber}
<1>2. /\ Rewarded \subseteq 1 .. MaxBlock /\ IsFiniteSet(Rewarded)
      /\ \A b \in 1 .. MaxBlock : subsidy[b] = issuance(b) /\ subsidy[b] \in Nat
      /\ Issued = SumFunctionOnSet(subsidy, Rewarded)
      /\ Issued \in Nat /\ Subsidies \in Nat
  BY IssuedWithin DEF SInv, IInv
<1>3. SumFunctionOnSet(subsidy, more) = issuance(blockNumber) + Issued
  <2>1. \A b \in more : subsidy[b] \in Int
    BY <1>1, <1>2
  <2> QED
    BY <1>1, <1>2, <2>1, SumWith
<1>4. SumFunctionOnSet(subsidy, more) <= Subsidies
  <2>1. more \subseteq 1 .. MaxBlock
    BY <1>1, <1>2
  <2>2. Subsidies = SumFunctionOnSet(subsidy, 1 .. MaxBlock)
    BY DEF Subsidies, SumFunction, subsidy
  <2>3. IsFiniteSet(1 .. MaxBlock)
    BY RuntimeAssumption, FS_Interval
  <2> HIDE DEF more
  <2> QED
    BY <1>2, <2>1, <2>2, <2>3, SumOfPart
<1> HIDE DEF more
<1>5. issuance(blockNumber) \in Nat
  BY <1>1, <1>2
<1>6. Supply \in Nat /\ rewardTotal \in Nat /\ Supply + rewardTotal = GenesisSupply + Issued
  BY SupplyBounded DEF SInv, SupplyConserved
<1>7. GenesisSupply + Subsidies <= MaxValue /\ GenesisSupply \in Nat /\ MaxValue \in Nat
  BY GenesisIsNat, TransactionsAssumption DEF SupplyFits
<1> QED
  BY <1>1, <1>2, <1>3, <1>4, <1>5, <1>6, <1>7

\* A finalised block pays out the fees and its subsidy, or leaves the fees.
LEMMA FinalizeSInv == SupplyFits /\ SInv /\ FinalizeBlock => SInv'
<1> SUFFICES ASSUME SupplyFits, SInv, FinalizeBlock PROVE SInv'
  OBVIOUS
<1>1. /\ building /\ building' = FALSE
      /\ UNCHANGED <<author, blockNumber, spent, claims>>
      /\ IInv /\ IInv' /\ IsFiniteSet(DOMAIN utxoStore)
  BY FinalizeBlockIInv DEF FinalizeBlock, SInv
<1>2. NoneTwice' = NoneTwice /\ IsFiniteSet(DOMAIN utxoStore')
  <2>1. CASE \E a \in author : disperse_reward(a, blockNumber)
    <3>1. PICK r : /\ r.kind = "reward"
                   /\ DOMAIN utxoStore' = DOMAIN utxoStore \cup {r}
                   /\ Coins' = Coins \cup {r}
      BY <1>1, <2>1, RewardEffect
    <3>2. Applied' = Applied
      BY <3>1 DEF Applied
    <3> QED
      BY <1>1, <3>1, <3>2, FS_AddElement DEF NoneTwice, UsedOnce
  <2>2. CASE UNCHANGED <<utxoStore, rewardTotal>>
    BY <1>1, <2>2 DEF NoneTwice, UsedOnce, Applied, Coins
  <2> QED
    BY <2>1, <2>2 DEF FinalizeBlock, UtxoOnFinalize
<1> SUFFICES ASSUME NoneTwice PROVE SupplyConserved'
  BY <1>1, <1>2 DEF SInv
<1>3. /\ blockNumber \in 1 .. MaxBlock
      /\ issuance(blockNumber) \in Nat
      /\ blockNumber \notin Rewarded
      /\ rewardTotal + issuance(blockNumber) \in 0 .. MaxValue
  BY <1>1, RewardWhole
<1>4. Rewarded' = DOMAIN claims /\ Rewarded = DOMAIN claims \ {blockNumber}
  <2>1. \A b \in DOMAIN claims : b \in Int /\ b <= blockNumber
    BY <1>1, <1>3 DEF IInv, TypeOK
  <2> QED
    BY <1>1, <1>3, <2>1 DEF Rewarded
<1>5. CASE \E a \in author : disperse_reward(a, blockNumber)
  <2>1. PICK a \in author : disperse_reward(a, blockNumber)
    BY <1>5
  <2>2. PICK r : /\ Content(r).value = (rewardTotal + issuance(blockNumber)) % (MaxValue + 1)
                 /\ r \notin Coins
                 /\ DOMAIN utxoStore' = DOMAIN utxoStore \cup {r}
                 /\ utxoStore'[r] = Content(r)
                 /\ \A k \in DOMAIN utxoStore : utxoStore'[k] = utxoStore[k]
    BY <1>1, <2>1, RewardEffect
  <2>3. rewardTotal' = 0
    BY <2>1 DEF disperse_reward
  <2>4. Content(r).value = rewardTotal + issuance(blockNumber)
    <3>1. \A m \in Nat : \A x \in 0 .. m : x % (m + 1) = x
      OBVIOUS
    <3> QED
      BY <1>3, <2>2, <3>1, TransactionsAssumption
  <2>5. r \notin DOMAIN utxoStore
    BY <2>2 DEF Coins
  <2>6. worth'[r] = rewardTotal + issuance(blockNumber)
    BY <2>2, <2>4 DEF worth
  <2>7. \A k \in DOMAIN utxoStore : worth'[k] = worth[k] /\ worth[k] \in Nat
    BY <1>1, <2>2, WorthNat DEF worth
  <2>8. \A k \in DOMAIN utxoStore \cup {r} : worth'[k] \in Int
    BY <1>3, <2>6, <2>7
  <2>9. Supply' = SumFunctionOnSet(worth', DOMAIN utxoStore \cup {r})
    <3>1. DOMAIN worth' = DOMAIN utxoStore \cup {r}
      BY <2>2 DEF worth
    <3> QED
      BY <2>2, <3>1 DEF Supply, SumFunction, worth
  <2>10. Supply' = worth'[r] + SumFunctionOnSet(worth', DOMAIN utxoStore)
    BY <1>1, <2>5, <2>8, <2>9, SumWith
  <2>11. SumFunctionOnSet(worth', DOMAIN utxoStore) = Supply
    BY <1>1, <2>7, SumOfEqual, SupplyIsWorth
  <2>12. Issued' = issuance(blockNumber) + Issued
    <3>1. blockNumber \in DOMAIN claims
      BY <1>1, <2>1 DEF IInv, AuthorIsClaim
    <3>2. Rewarded' = Rewarded \cup {blockNumber}
      BY <1>4, <3>1
    <3>3. /\ Rewarded \subseteq 1 .. MaxBlock /\ IsFiniteSet(Rewarded)
          /\ \A b \in 1 .. MaxBlock : subsidy[b] = issuance(b) /\ subsidy[b] \in Nat
          /\ Issued = SumFunctionOnSet(subsidy, Rewarded)
      BY <1>1, IssuedWithin DEF IInv
    <3>4. SumFunctionOnSet(subsidy, Rewarded \cup {blockNumber}) = subsidy[blockNumber] + Issued
      <4>1. \A b \in Rewarded \cup {blockNumber} : subsidy[b] \in Int
        BY <1>3, <3>3
      <4> QED
        BY <1>3, <3>3, <4>1, SumWith
    <3>5. Issued' = SumFunctionOnSet(subsidy, Rewarded')
      <4> DEFINE paid == [b \in Rewarded' |-> issuance(b)]
      <4>1. Issued' = SumFunctionOnSet(paid, Rewarded')
        BY DEF Issued, SumFunction
      <4>2. IsFiniteSet(Rewarded')
        BY <3>2, <3>3, FS_AddElement
      <4>3. \A b \in Rewarded' : paid[b] = subsidy[b]
        BY <1>3, <3>2, <3>3
      <4> HIDE DEF paid
      <4> QED
        BY <4>1, <4>2, <4>3, SumOfEqual
    <3> QED
      BY <1>3, <3>2, <3>3, <3>4, <3>5
  <2>13. Supply + rewardTotal = GenesisSupply + Issued /\ Supply \in Nat /\ rewardTotal \in Nat
    BY SupplyBounded DEF SInv, SupplyConserved
  <2>14. GenesisSupply \in Nat /\ Issued \in Nat
    BY <1>1, GenesisIsNat, IssuedWithin DEF IInv
  <2>15. Supply' + rewardTotal' = GenesisSupply + Issued'
    BY <1>3, <2>3, <2>6, <2>10, <2>11, <2>12, <2>13, <2>14
  <2>16. GenesisSupply' = GenesisSupply
    BY DEF GenesisSupply
  <2> QED
    BY <2>15, <2>16 DEF SupplyConserved
<1>6. CASE author = {} /\ UNCHANGED <<utxoStore, rewardTotal>>
  <2>1. Rewarded' = Rewarded
    BY <1>1, <1>4, <1>6 DEF IInv, AuthorIsClaim
  <2>2. Supply' = Supply /\ Issued' = Issued /\ GenesisSupply' = GenesisSupply
    BY <1>6, <2>1 DEF Supply, Issued, GenesisSupply
  <2> QED
    BY <1>6, <2>2 DEF SInv, SupplyConserved
<1> QED
  BY <1>5, <1>6 DEF FinalizeBlock, UtxoOnFinalize

\* The other steps touch neither coins nor fees nor what was rewarded.
LEMMA OtherSInv ==
    ASSUME SInv, IInv', UNCHANGED <<utxoStore, rewardTotal, spent>>, Rewarded' = Rewarded
    PROVE  SInv'
<1>1. Supply' = Supply /\ Issued' = Issued /\ GenesisSupply' = GenesisSupply
  BY DEF Supply, Issued, GenesisSupply
<1>2. NoneTwice' = NoneTwice
  BY DEF NoneTwice, UsedOnce, Applied, Coins
<1> QED
  BY <1>1, <1>2 DEF SInv, SupplyConserved

LEMMA NextSInv == SupplyFits /\ SInv /\ [Next]_vars => SInv'
<1> SUFFICES ASSUME SupplyFits, SInv, [Next]_vars PROVE SInv'
  OBVIOUS
<1>1. IInv /\ IInv'
  BY NextIInv DEF SInv
<1>2. CASE InitializeBlock
  <2>1. /\ blockNumber \in Nat /\ blockNumber' = blockNumber + 1 /\ building' /\ ~building
        /\ DOMAIN claims \subseteq 1 .. blockNumber
        /\ UNCHANGED <<utxoStore, rewardTotal, spent, claims>>
    BY <1>1, <1>2, RuntimeAssumption DEF InitializeBlock, IInv, TypeOK
  <2>2. Rewarded' = Rewarded
    BY <2>1 DEF Rewarded
  <2> QED
    BY <1>1, <2>1, <2>2, OtherSInv
<1>3. ASSUME NEW origin \in Origin, NEW key \in Pubkeys, SetAuthor(origin, key)
      PROVE  SInv'
  <2>1. /\ building
        /\ DOMAIN claims' = DOMAIN claims \cup {blockNumber}
        /\ UNCHANGED <<utxoStore, rewardTotal, spent, blockNumber, building>>
    BY <1>3 DEF SetAuthor
  <2>2. blockNumber \in Int
    BY <1>1, RuntimeAssumption DEF IInv, TypeOK
  <2>3. Rewarded' = Rewarded
    BY <2>1, <2>2 DEF Rewarded
  <2> QED
    BY <1>1, <2>1, <2>3, OtherSInv
<1>4. ASSUME NEW tx \in Transaction(KnownKeys), Spend(tx)
      PROVE  SInv'
  BY <1>4, SpendSInv
<1>5. CASE FinalizeBlock
  BY <1>5, FinalizeSInv
<1>6. CASE UNCHANGED vars
  BY <1>1, <1>6, OtherSInv DEF vars, Rewarded
<1> QED
  BY <1>2, <1>3, <1>4, <1>5, <1>6 DEF Next

-----------------------------------------------------------------------------
(* The theorems. *)

\* What a transaction paid out is covered by the coins it consumed, whatever
\* sums the code has added up, unless it listed one of them twice.
THEOREM ValueOnlyMadeByListingTwice == Spec => []CoveredWhereUsedOnce
<1>1. Init => CoveredWhereUsedOnce
  BY NothingAppliedYet DEF CoveredWhereUsedOnce
<1>2. IInv /\ CoveredWhereUsedOnce /\ [Next]_vars => CoveredWhereUsedOnce'
  BY CoveredStep
<1> QED
  BY <1>1, <1>2, Invariance, PTL DEF Spec

\* No transaction lists an outpoint twice where a key makes one signature of a
\* message; then the check of utxo.rs:151 means what it says.
THEOREM PaymentsAreCovered == OneSignature => (Spec => []SpendCreatesNoValue)
<1> SUFFICES ASSUME OneSignature PROVE Spec => []SpendCreatesNoValue
  OBVIOUS
<1>1. Init => NoneTwice
  BY NothingAppliedYet DEF NoneTwice
<1>2. IInv /\ NoneTwice /\ [Next]_vars => NoneTwice'
  BY NoneTwiceStep
<1>3. NoneTwice /\ CoveredWhereUsedOnce => SpendCreatesNoValue
  BY DEF NoneTwice, CoveredWhereUsedOnce, Covered, SpendCreatesNoValue
<1> QED
  BY <1>1, <1>2, <1>3, Invariance, ValueOnlyMadeByListingTwice, PTL DEF Spec

\* Coins and fees together are always what genesis gave and the blocks issued,
\* wherever that fits the widths of the code, until an outpoint is listed twice.
THEOREM ValueIsConserved ==
    GenesisDistinct /\ SupplyFits => (Spec => [](NoneTwice => SupplyConserved))
<1> SUFFICES ASSUME GenesisDistinct, SupplyFits PROVE Spec => [](NoneTwice => SupplyConserved)
  OBVIOUS
<1>1. Init => SInv
  BY InitSInv
<1>2. SInv /\ [Next]_vars => SInv'
  BY NextSInv
<1>3. SInv => (NoneTwice => SupplyConserved)
  BY DEF SInv
<1> QED
  BY <1>1, <1>2, <1>3, PTL DEF Spec

\* With one signature for each key and message that is always.
THEOREM SupplyIsConserved ==
    OneSignature /\ GenesisDistinct /\ SupplyFits => (Spec => []SupplyConserved)
<1> SUFFICES ASSUME OneSignature, GenesisDistinct, SupplyFits PROVE Spec => []SupplyConserved
  OBVIOUS
<1>1. Init => NoneTwice
  BY NothingAppliedYet DEF NoneTwice
<1>2. IInv /\ NoneTwice /\ [Next]_vars => NoneTwice'
  BY NoneTwiceStep
<1>3. Spec => [](NoneTwice => SupplyConserved)
  BY ValueIsConserved
<1> QED
  BY <1>1, <1>2, <1>3, Invariance, PTL DEF Spec

\* Where all coins together fit a Value, so does every reward: no bound on the
\* number of spends is needed.
THEOREM RewardsAreWhole ==
    GenesisDistinct /\ SupplyFits => (Spec => [](NoneTwice => RewardNeverOverflows))
<1> SUFFICES ASSUME GenesisDistinct, SupplyFits
             PROVE  Spec => [](NoneTwice => RewardNeverOverflows)
  OBVIOUS
<1>1. Init => SInv
  BY InitSInv
<1>2. SInv /\ [Next]_vars => SInv'
  BY NextSInv
<1>3. SInv => (NoneTwice => RewardNeverOverflows)
  BY RewardWhole DEF RewardNeverOverflows, Value
<1> QED
  BY <1>1, <1>2, <1>3, PTL DEF Spec

=============================================================================
