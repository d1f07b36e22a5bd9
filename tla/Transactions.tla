---------------------------- MODULE Transactions ----------------------------
(***************************************************************************)
(* The data of the UTXO pallet (src/runtime/src/utxo.rs): values,          *)
(* transaction outputs, transactions and the keys of the UTXO store.       *)
(*                                                                         *)
(* The program keys its store by Blake2-256 hashes.  The three hashed      *)
(* encodings have different lengths (48 bytes for a genesis output, 56 for *)
(* an output with a block number, at least 156 for a transaction with an   *)
(* output index), so a hash is modelled as the record of what is hashed:   *)
(* equal keys mean equal contents and the three kinds never meet.          *)
(***************************************************************************)
EXTENDS Integers, SequencesExt

CONSTANTS
    Pubkeys,         \* sr25519 public keys
    Salts,           \* the different signatures a key can make of one message
    MaxValue,        \* u128::MAX, the largest Value
    PriorityModulus, \* 2^64, the width of TransactionPriority
    SubmittedValues, \* the output values users put into transactions
    MaxInputs,       \* bound on the inputs of a submitted transaction
    MaxOutputs       \* bound on the outputs of a submitted transaction

Value == 0 .. MaxValue

ASSUME TransactionsAssumption ==
    /\ MaxValue \in Nat
    /\ PriorityModulus \in Nat \ {0}
    /\ SubmittedValues \subseteq Value
    /\ MaxInputs \in Nat
    /\ MaxOutputs \in Nat

TransactionOutput == [value : Value, pubkey : Pubkeys]

(***************************************************************************)
(* A sigscript is a signature of the transaction stripped of its sigscripts*)
(* (get_simple_transaction), made with signer's key.  sr25519 signing is   *)
(* randomised: salt tells apart two signatures of the same message.  A     *)
(* signature of another message verifies under no key of the store, like   *)
(* one made with the wrong key.                                            *)
(***************************************************************************)
Sigscript == [signer : Pubkeys, salt : Salts]

sr25519_verify(sigscript, pubkey) == sigscript.signer = pubkey

TransactionInput(K) == [outpoint : K, sigscript : Sigscript]

\* Every transaction a user can submit with outpoints taken from K.
Transaction(K) ==
    [inputs  : BoundedSeq(TransactionInput(K), MaxInputs),
     outputs : BoundedSeq([value : SubmittedValues, pubkey : Pubkeys], MaxOutputs)]

-----------------------------------------------------------------------------
(***************************************************************************)
(* The keys of the UTXO store.                                             *)
(***************************************************************************)
GenesisKey(utxo) == [kind |-> "genesis", utxo |-> utxo]

\* Mutant: the block number is not part of the hash.
RewardKeyOfOutput(utxo, block) == [kind |-> "reward", utxo |-> utxo, block |-> 0]

RewardKey(utxo, block) == [kind |-> "reward", utxo |-> utxo, block |-> block]

\* Mutant: the hash is of the outputs alone, not of the whole transaction.
OutputKeyOfOutputs(tx, index) ==
    [kind |-> "output", tx |-> [tx EXCEPT !.inputs = <<>>], index |-> index]

OutputKey(tx, index) == [kind |-> "output", tx |-> tx, index |-> index]

\* A hash under which nothing is ever stored, H256::zero() in the tests.
UnknownKey == [kind |-> "unknown"]

outpoints(tx) == {tx.inputs[i].outpoint : i \in DOMAIN tx.inputs}

\* The keys under which tx's outputs are stored, counted from 0.
new_utxos(tx) == {OutputKey(tx, i - 1) : i \in DOMAIN tx.outputs}

\* Mutant: the outputs are counted from 1.
provides_from_one(tx) == {OutputKey(tx, i) : i \in DOMAIN tx.outputs}

\* The tags of a ValidTransaction, hashed in a loop with a counter of its own.
provides(tx) == {OutputKey(tx, i - 1) : i \in DOMAIN tx.outputs}

total_output(tx) == SumFunction([i \in DOMAIN tx.outputs |-> tx.outputs[i].value])

(***************************************************************************)
(* What a key says of the coin stored under it; only properties use it.    *)
(***************************************************************************)
Content(key) ==
    IF key.kind = "output" THEN key.tx.outputs[key.index + 1] ELSE key.utxo

=============================================================================
