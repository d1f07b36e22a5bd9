-------------------------------- MODULE Node --------------------------------
(***************************************************************************)
(* A node that mines, src/node/src/service.rs: the runtime builds its      *)
(* blocks and those of its peers on the state of the best block, while     *)
(* payments enter the pool, validated against that state through the       *)
(* runtime API (src/runtime/src/lib.rs).                                   *)
(*                                                                         *)
(* A block is built on a copy of the best block's state: head keeps the    *)
(* state itself, the variables of Runtime are the copy.  PowChain has the  *)
(* forks; here every new best block is a child of the last one, and a      *)
(* block of a peer, imported in one call, is executed step by step.        *)
(***************************************************************************)
EXTENDS Runtime, TxPool, ChainSpec

CONSTANTS
    Payments,                   \* the transactions that users submit
    PeerKeys,                   \* bound: the keys that peers claim blocks with
    role,                       \* the role of the node
    sr25519_public_key,         \* the option: the set of no or one key
    default_sr25519_public_key  \* the key of all zeros

VARIABLES
    head,       \* the state of the best block
    stage,      \* what is built: nothing, an own block or a block of a peer
    included,   \* the transactions in the block that is built
    failed,     \* history: in blocks, but refused by their dispatch
    strangers,  \* history: in blocks, but not in the pool at that time
    ownBlocks   \* history: the numbers of the blocks this node has made

nodeVars == <<vars, pool, proposal, head, stage, included, failed, strangers, ownBlocks>>

ASSUME NodeAssumption ==
    /\ \A tx \in Payments : tx \in Transaction(outpoints(tx))
    /\ PeerKeys \cup sr25519_public_key \cup {default_sr25519_public_key} \subseteq Pubkeys

command == run(FALSE, role, sr25519_public_key, default_sr25519_public_key)

State ==
    [utxoStore |-> utxoStore, rewardTotal |-> rewardTotal, author |-> author,
     blockNumber |-> blockNumber, spendsInBlock |-> spendsInBlock, spent |-> spent,
     claims |-> claims]

\* The runtime, called on the best block.
AtHead == INSTANCE Runtime WITH
    utxoStore <- head.utxoStore, rewardTotal <- head.rewardTotal, author <- head.author,
    blockNumber <- head.blockNumber, building <- FALSE,
    spendsInBlock <- head.spendsInBlock, spent <- head.spent, claims <- head.claims

\* new_partial: a client with the genesis state, an empty pool, the import queue.
NodeInit ==
    /\ Init
    /\ TxPoolInit
    /\ head = State
    /\ stage = "idle"
    /\ included = {} /\ failed = {} /\ strangers = {} /\ ownBlocks = {}

-----------------------------------------------------------------------------
(* The pool, TaggedTransactionQueue::validate_transaction. *)

\* Mutant: what a transaction waits for is not reported.
ready_at_once(tx) == [requires |-> {}, priority |-> AtHead!priority(tx)]

ValidTransaction(tx) ==
    [requires |-> AtHead!missing_utxos(tx), priority |-> AtHead!priority(tx)]

Submit(tx) ==
    /\ stage # "peer"
    /\ tx \notin DOMAIN pool
    /\ AtHead!validate_transaction(tx)
    /\ admit(tx, ValidTransaction(tx))
    /\ UNCHANGED <<vars, proposal, head, stage, included, failed, strangers, ownBlocks>>

\* After a new block the ready entries are validated again.
Revalidate(tx) ==
    /\ stage # "peer"
    /\ tx \in Ready
    /\ AtHead!validate_transaction(tx)
    /\ admit(tx, ValidTransaction(tx))
    /\ UNCHANGED <<vars, proposal, head, stage, included, failed, strangers, ownBlocks>>

\* An entry is invalid by now, waits for one that is, or the pool is full.
Drop(tx) ==
    /\ stage # "peer"
    /\ tx \in DOMAIN pool
    /\ drop(tx)
    /\ UNCHANGED <<vars, proposal, head, stage, included, failed, strangers, ownBlocks>>

-----------------------------------------------------------------------------
(* Blocks. *)

\* Mutant: an extrinsic that fails weighs nothing.
RefuseForFree(tx) ==
    /\ building
    /\ UNCHANGED vars

\* apply_extrinsic of a spend whose dispatch fails: it has its place and its
\* weight in the block, and changes nothing else.
Refuse(tx) ==
    /\ building
    /\ spendsInBlock < MaxSpends
    /\ ~ (/\ validate_transaction(tx)
          /\ missing_utxos(tx) = {}
          /\ rewardTotal + priority(tx) \in Value)
    /\ spendsInBlock' = spendsInBlock + 1
    /\ UNCHANGED <<utxoStore, rewardTotal, author, blockNumber, building, spent, claims>>

ApplyExtrinsic(tx) ==
    /\ Spend(tx) \/ Refuse(tx)
    /\ included' = included \cup {tx}

\* The best block changes and the pool follows; of the transactions that were
\* not in the pool it may know the tags or not.
Import ==
    /\ FinalizeBlock
    /\ head' = State'
    /\ \E known \in {included, included \cap DOMAIN pool} : prune(included, known)
    /\ failed' = failed \cup (included \ Applied')
    /\ strangers' = strangers \cup (included \ DOMAIN pool)
    /\ stage' = "idle"
    /\ included' = {}
    /\ proposal' = <<>>

\* An authority begins a block with what is ready.
Propose ==
    /\ role = "authority" /\ command.service = "full"
    /\ stage = "idle"
    /\ InitializeBlock
    /\ stage' = "inherents"
    /\ proposal' = Restrict(pool, Ready)
    /\ UNCHANGED <<pool, head, included, failed, strangers, ownBlocks>>

\* inherent_extrinsics of what build_inherent_data_providers was given come
\* before all else.
PushInherents ==
    /\ stage = "inherents"
    /\ LET keys == create_inherent(provide_inherent_data(command.key))
       IN  \/ \E key \in keys : SetAuthor("none", key)
           \/ keys = {} /\ UNCHANGED vars
    /\ stage' = "filling"
    /\ UNCHANGED <<pool, proposal, head, included, failed, strangers, ownBlocks>>

Push(tx) ==
    /\ stage = "filling"
    /\ tx \in Candidates
    /\ ApplyExtrinsic(tx)
    /\ take(tx)
    /\ UNCHANGED <<pool, head, stage, failed, strangers, ownBlocks>>

\* After its two seconds, or when nothing is left, the proposer has its block,
\* and a seal is found for it.
ImportOwn ==
    /\ stage = "filling"
    /\ Import
    /\ ownBlocks' = ownBlocks \cup {blockNumber}

\* No seal was found, or the best block has changed: the copy is forgotten.
Abandon ==
    /\ stage \in {"inherents", "filling"}
    /\ utxoStore' = head.utxoStore /\ rewardTotal' = head.rewardTotal
    /\ author' = head.author /\ blockNumber' = head.blockNumber
    /\ building' = FALSE
    /\ spendsInBlock' = head.spendsInBlock
    /\ spent' = head.spent /\ claims' = head.claims
    /\ stage' = "idle" /\ included' = {} /\ proposal' = <<>>
    /\ UNCHANGED <<pool, head, failed, strangers, ownBlocks>>

PeerBegins ==
    /\ stage = "idle"
    /\ InitializeBlock
    /\ stage' = "peer"
    /\ UNCHANGED <<pool, proposal, head, included, failed, strangers, ownBlocks>>

\* A peer claims its block with any key, at any place, or not at all.
PeerClaims(key) ==
    /\ stage = "peer"
    /\ SetAuthor("none", key)
    /\ UNCHANGED <<pool, proposal, head, stage, included, failed, strangers, ownBlocks>>

PeerApplies(tx) ==
    /\ stage = "peer"
    /\ ApplyExtrinsic(tx)
    /\ UNCHANGED <<pool, proposal, head, stage, failed, strangers, ownBlocks>>

ImportPeer ==
    /\ stage = "peer"
    /\ Import
    /\ UNCHANGED ownBlocks

NodeNext ==
    \/ \E tx \in Payments :
          \/ Submit(tx)
          \/ Revalidate(tx)
          \/ Drop(tx)
          \/ Push(tx)
          \/ PeerApplies(tx)
    \/ Propose
    \/ PushInherents
    \/ ImportOwn
    \/ Abandon
    \/ PeerBegins
    \/ \E key \in PeerKeys : PeerClaims(key)
    \/ ImportPeer

NodeSpec == NodeInit /\ [][NodeNext]_nodeVars

-----------------------------------------------------------------------------
\* The type of a node's state, with what its parts say of each other: only what
\* is being built differs from the best block, and a block never holds more
\* extrinsics than fit, whether they took effect or not.
NodeTypeOK ==
    /\ TypeOK
    /\ AtHead!TypeOK
    /\ DOMAIN pool \subseteq Payments
    /\ DOMAIN proposal \subseteq Payments
    /\ \A tx \in DOMAIN pool : pool[tx].requires \subseteq outpoints(tx)
    /\ stage \in {"idle", "inherents", "filling", "peer"}
    /\ building <=> stage # "idle"
    /\ ~building => head = State
    /\ included \cup failed \cup strangers \subseteq Payments
    /\ building => Cardinality(included) <= spendsInBlock
    /\ ownBlocks \subseteq 1 .. head.blockNumber

\* "Check transaction for validity, errors, & race conditions" (utxo.rs:143): no
\* payment is taken from the pool, and then refused, while one that it spends
\* from has still to be taken and would go through.  What a transaction was said
\* to require when it entered the pool is all the proposer has to go by.  Those
\* that an earlier block held and refused were counted as provided then.
NoneTooEarly ==
    stage = "filling" =>
        \A tx \in Candidates : \A p \in DOMAIN proposal \ failed :
            missing_utxos(tx) \cap new_utxos(p) # {} =>
                ~ (validate_transaction(p) /\ missing_utxos(p) = {})

\* The tags of a transaction are the keys of its outputs, hashed elsewhere
\* (utxo.rs:197, utxo.rs:236): nothing in the pool waits for a coin that is
\* there, unless it is a reward, which has no tag, or came from a transaction
\* that the pool had not seen.
WaitsForMissing ==
    \A tx \in DOMAIN pool : \A k \in pool[tx].requires \cap DOMAIN head.utxoStore :
        k.kind = "reward" \/ k.tx \in strangers

\* A node's own blocks pay its key, and leave no fees behind: the inherent comes
\* before any extrinsic that might claim the block, and is not refused.
OwnBlocksPay ==
    /\ \A b \in ownBlocks : \E r \in AtHead!Rewards :
          r.block = b /\ r.utxo.pubkey = command.key
    /\ head.blockNumber \in ownBlocks => head.rewardTotal = 0

=============================================================================
