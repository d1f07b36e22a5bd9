------------------------------- MODULE Runtime -------------------------------
(***************************************************************************)
(* The runtime of src/runtime/src/lib.rs as far as coins go: blocks are    *)
(* initialised, filled with extrinsics and finalised by frame_executive,   *)
(* which calls the hooks and the calls of the UTXO and block author        *)
(* pallets on one shared state.                                            *)
(*                                                                         *)
(* Extrinsics whose dispatch fails change nothing but the weight of the    *)
(* block; they are steps of Node.  Two history variables, spent and        *)
(* claims, record what happened so that properties can speak of it; no     *)
(* guard reads them.                                                       *)
(***************************************************************************)
EXTENDS Utxo, BlockAuthor

CONSTANTS
    MaxBlock,   \* bound on the block number, a u32
    MaxSpends   \* spends that fit into the weight of one block

VARIABLES
    blockNumber,    \* System: the block being built, or the last one built
    building,       \* between initialize_block and finalize_block
    spendsInBlock,  \* weight used by the block, in spends
    spent,          \* history: the outpoints that were spent
    claims          \* history: block -> first key that claimed its reward

vars == <<utxoStore, rewardTotal, author, blockNumber, building, spendsInBlock,
          spent, claims>>

ASSUME RuntimeAssumption ==
    /\ MaxBlock \in Nat
    /\ MaxSpends \in Nat
    /\ \A b \in 1 .. MaxBlock : issuance(b) \in Value

Init ==
    /\ UtxoInit
    /\ BlockAuthorInit
    /\ blockNumber = 0
    /\ building = FALSE
    /\ spendsInBlock = 0
    /\ spent = {}
    /\ claims = <<>>

InitializeBlock ==
    /\ ~building
    /\ blockNumber < MaxBlock
    /\ blockNumber' = blockNumber + 1
    /\ building' = TRUE
    /\ spendsInBlock' = 0
    /\ BlockAuthorOnInitialize
    /\ UNCHANGED <<utxoStore, rewardTotal, spent, claims>>

SetAuthor(origin, key) ==
    /\ building
    /\ set_author(origin, key)
    /\ claims' = [b \in DOMAIN claims \cup {blockNumber} |->
                    IF b \in DOMAIN claims THEN claims[b] ELSE key]
    /\ UNCHANGED <<utxoStore, rewardTotal, blockNumber, building, spendsInBlock, spent>>

\* Mutant: the weight of a block has no limit.
SpendAnyWeight(tx) ==
    /\ building
    /\ spend(tx)
    /\ spendsInBlock' = spendsInBlock + 1
    /\ spent' = spent \cup outpoints(tx)
    /\ UNCHANGED <<author, blockNumber, building, claims>>

\* A spend comes with any origin, before or after the inherents.
Spend(tx) ==
    /\ building
    /\ spendsInBlock < MaxSpends
    /\ spend(tx)
    /\ spendsInBlock' = spendsInBlock + 1
    /\ spent' = spent \cup outpoints(tx)
    /\ UNCHANGED <<author, blockNumber, building, claims>>

FinalizeBlock ==
    /\ building
    /\ UtxoOnFinalize(author, blockNumber)
    /\ building' = FALSE
    /\ UNCHANGED <<author, blockNumber, spendsInBlock, spent, claims>>

\* What users may refer to: live coins, spent ones, and keys of no coin at all.
KnownKeys == DOMAIN utxoStore \cup spent \cup {UnknownKey}

Next ==
    \/ InitializeBlock
    \/ \E origin \in Origin, key \in Pubkeys : SetAuthor(origin, key)
    \/ \E tx \in Transaction(KnownKeys) : Spend(tx)
    \/ FinalizeBlock

Spec == Init /\ [][Next]_vars

-----------------------------------------------------------------------------
\* Every coin the chain ever had under a key that is still to be seen.
Coins == DOMAIN utxoStore \cup spent

\* The transactions that took effect: their outputs are coins.
Applied == {k.tx : k \in {c \in Coins : c.kind = "output"}}

\* The rewards that were paid.
Rewards == {c \in Coins : c.kind = "reward"}

\* The blocks that were finalised with an author.
Rewarded == {b \in DOMAIN claims : b < blockNumber \/ ~building}

Supply == SumFunction([k \in DOMAIN utxoStore |-> utxoStore[k].value])

GenesisSupply == SumFunction([i \in DOMAIN GenesisUtxos |-> GenesisUtxos[i].value])

Issued == SumFunction([b \in Rewarded |-> issuance(b)])

-----------------------------------------------------------------------------
\* The type of the state.  A spend fits the weight of its block, and rewards
\* are only claimed in blocks that have begun.
TypeOK ==
    /\ utxoStore \in [DOMAIN utxoStore -> TransactionOutput]
    /\ rewardTotal \in Value
    /\ author \subseteq Pubkeys
    /\ blockNumber \in 0 .. MaxBlock
    /\ building \in BOOLEAN
    /\ building => blockNumber > 0
    /\ spendsInBlock \in 0 .. MaxSpends
    /\ claims \in [DOMAIN claims -> Pubkeys]
    /\ DOMAIN claims \subseteq 1 .. blockNumber

\* A spent outpoint never becomes a coin again, although the store keeps no
\* record of what was spent: keys are hashes and none is ever made twice.
NoDoubleSpend == DOMAIN utxoStore \cap spent = {}

\* The coin under a key is the one the key is the hash of.
AddressedByContent == \A k \in DOMAIN utxoStore : utxoStore[k] = Content(k)

\* Whoever could spend an outpoint signed for it: in a transaction that took
\* effect every input carries a signature of the owner of the coin it consumed.
EveryInputSigned ==
    \A tx \in Applied : \A i \in DOMAIN tx.inputs :
        tx.inputs[i].sigscript.signer = Content(tx.inputs[i].outpoint).pubkey

\* "Total output value must not exceed total input value" (utxo.rs:151): what a
\* transaction paid out is covered by the coins, each taken once, it consumed.
SpendCreatesNoValue ==
    \A tx \in Applied :
        total_output(tx) <= SumFunction([o \in outpoints(tx) |-> Content(o).value])

\* Fees and coins together are what genesis gave and the blocks issued.
SupplyConserved == Supply + rewardTotal = GenesisSupply + Issued

\* Every block finalised with an author pays one reward, to the first key that
\* claimed it, and no other block pays any.
RewardsMatchClaims ==
    /\ Rewarded = {r.block : r \in Rewards}
    /\ \A r \in Rewards : r.utxo.pubkey = claims[r.block]
    /\ \A r, s \in Rewards : r.block = s.block => r = s

\* Fees and subsidy fit a Value: the addition nobody checks in disperse_reward
\* (utxo.rs:246) never wraps.
RewardNeverOverflows ==
    building => rewardTotal + issuance(blockNumber) \in Value

\* "Force block reward to zero when right shift is undefined" (issuance.rs:35):
\* the subsidy is halved now and then and never grows.
IssuanceNeverIncreases ==
    building /\ blockNumber > 1 => issuance(blockNumber) <= issuance(blockNumber - 1)

\* The ancestors of a coin are spent: a transaction whose output is or was a
\* coin has consumed all its outpoints.
Lineage == \A k \in Coins : k.kind = "output" => outpoints(k.tx) \subseteq spent

\* A reward is of a block that has been finalised.
RewardBlocks ==
    \A k \in Coins : k.kind = "reward" =>
        k.block \in 1 .. blockNumber /\ (building => k.block # blockNumber)

\* While a block is built its author is the first key that claimed it.
AuthorIsClaim ==
    building => author = {claims[b] : b \in DOMAIN claims \cap {blockNumber}}

\* The inductive invariant of the proofs: all that a spend can rely on when it
\* consumes coins and makes new ones, and a finalisation when it pays.
IInv ==
    /\ TypeOK
    /\ NoDoubleSpend
    /\ AddressedByContent
    /\ Lineage
    /\ EveryInputSigned
    /\ RewardBlocks
    /\ AuthorIsClaim
    /\ RewardsMatchClaims

\* The store and the outpoints spent are a ledger of coins.
Ledger == INSTANCE CoinLedger WITH live <- DOMAIN utxoStore, spent <- spent

\* Every step of the runtime is a step of the ledger or leaves the coins alone:
\* `spend` is a Transfer, a reward a Mint (utxo.rs:220-258).
ImplementsCoinLedger == Ledger!Spec

=============================================================================
