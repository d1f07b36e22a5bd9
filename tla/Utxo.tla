-------------------------------- MODULE Utxo --------------------------------
(***************************************************************************)
(* The UTXO pallet, src/runtime/src/utxo.rs: its storage, the validity of  *)
(* a transaction, the call `spend` and the hook `on_finalize`.             *)
(***************************************************************************)
EXTENDS Transactions

CONSTANTS
    issuance(_),  \* T::Issuance, the subsidy of a block
    GenesisUtxos  \* genesis_utxos, the list of outputs in the chain spec

VARIABLES
    utxoStore,    \* UtxoStore: key -> TransactionOutput
    rewardTotal   \* RewardTotal: fees collected and not yet dispersed

ASSUME GenesisAssumption == GenesisUtxos \in Seq(TransactionOutput)

\* The storage build of the genesis configuration.
UtxoInit ==
    /\ utxoStore = [k \in {GenesisKey(GenesisUtxos[i]) : i \in DOMAIN GenesisUtxos}
                      |-> k.utxo]
    /\ rewardTotal = 0

-----------------------------------------------------------------------------
found_inputs(tx) ==
    {i \in DOMAIN tx.inputs : tx.inputs[i].outpoint \in DOMAIN utxoStore}

\* `requires` of a ValidTransaction.
missing_utxos(tx) == outpoints(tx) \ DOMAIN utxoStore

\* Summed input by input: two inputs with one outpoint count it twice.
total_input(tx) ==
    SumFunction([i \in found_inputs(tx) |-> utxoStore[tx.inputs[i].outpoint].value])

\* Mutant: an input may be listed twice.
any_inputs(tx) == TRUE

\* Inputs are compared with their sigscripts.
inputs_used_once(tx) == IsInjective(tx.inputs)

\* Mutant: one valid signature is taken for all.
first_input_signed(tx) ==
    \A i \in found_inputs(tx) \cap {1} :
        sr25519_verify(tx.inputs[i].sigscript, utxoStore[tx.inputs[i].outpoint].pubkey)

inputs_signed(tx) ==
    \A i \in found_inputs(tx) :
        sr25519_verify(tx.inputs[i].sigscript, utxoStore[tx.inputs[i].outpoint].pubkey)

(***************************************************************************)
(* The call answers Ok.  The sums are of naturals, so that some checked    *)
(* addition overflows exactly when the whole sum is no Value.              *)
(***************************************************************************)
validate_transaction(tx) ==
    /\ tx.inputs # <<>> /\ tx.outputs # <<>>
    /\ inputs_used_once(tx)
    /\ IsInjective(tx.outputs)
    /\ inputs_signed(tx)
    /\ total_input(tx) \in Value
    /\ \A i \in DOMAIN tx.outputs : tx.outputs[i].value > 0
    /\ provides(tx) \cap DOMAIN utxoStore = {}
    /\ total_output(tx) \in Value
    /\ missing_utxos(tx) = {} => total_input(tx) >= total_output(tx)

\* Mutant: the fee is not narrowed.
whole_fee(tx) ==
    IF missing_utxos(tx) = {} THEN total_input(tx) - total_output(tx) ELSE 0

\* `reward as u64`: only the low 64 bits of the fee reach the ValidTransaction.
priority(tx) ==
    IF missing_utxos(tx) = {}
    THEN (total_input(tx) - total_output(tx)) % PriorityModulus
    ELSE 0

-----------------------------------------------------------------------------
update_storage(tx, reward) ==
    /\ rewardTotal + reward \in Value
    /\ rewardTotal' = rewardTotal + reward
    /\ utxoStore' =
          [k \in (DOMAIN utxoStore \ outpoints(tx)) \cup new_utxos(tx) |->
             IF k \in new_utxos(tx) THEN tx.outputs[k.index + 1] ELSE utxoStore[k]]

\* Mutant: spend trusts that the pool has validated the transaction.
spend_unvalidated(tx) ==
    /\ missing_utxos(tx) = {}
    /\ update_storage(tx, priority(tx))

\* The call `spend`, when it succeeds; a call that fails changes nothing.
spend(tx) ==
    /\ validate_transaction(tx)
    /\ missing_utxos(tx) = {}
    /\ update_storage(tx, priority(tx))

insert(key, utxo) ==
    utxoStore' = [k \in DOMAIN utxoStore \cup {key} |->
                    IF k = key THEN utxo ELSE utxoStore[k]]

\* Mutant: the fees are read and not taken.
disperse_and_keep(author, block) ==
    LET utxo == [value |-> rewardTotal + issuance(block), pubkey |-> author]
    IN  /\ insert(RewardKey(utxo, block), utxo)
        /\ UNCHANGED rewardTotal

\* The addition is not checked: a release build wraps it.
disperse_reward(author, block) ==
    LET reward == (rewardTotal + issuance(block)) % (MaxValue + 1)
        utxo   == [value |-> reward, pubkey |-> author]
    IN  /\ rewardTotal' = 0
        /\ insert(RewardKey(utxo, block), utxo)

\* The reward is dispersed to the author; without one it is left where it is.
UtxoOnFinalize(blockAuthor, block) ==
    \/ \E a \in blockAuthor : disperse_reward(a, block)
    \/ blockAuthor = {} /\ UNCHANGED <<utxoStore, rewardTotal>>

=============================================================================
