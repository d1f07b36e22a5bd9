------------------------------- MODULE TxPool -------------------------------
(***************************************************************************)
(* The transaction pool of a node (sc_transaction_pool::BasicPool) and     *)
(* what its proposer takes from it.  Both are libraries, modelled from     *)
(* what src/node/src/service.rs makes of them and what the runtime hands   *)
(* them: the tags and the priority of a ValidTransaction.                  *)
(***************************************************************************)
EXTENDS Transactions

VARIABLES
    pool,      \* transaction -> what the runtime said of it when it was validated
    proposal   \* what the proposer has still to take: the ready part of the pool
               \* as it was when the block was begun

TxPoolInit == pool = <<>> /\ proposal = <<>>

Tags(txs) == UNION {provides(tx) : tx \in txs}

\* Ready are the entries that wait for nothing but tags of each other.
Ready ==
    UNION {txs \in SUBSET DOMAIN pool :
             \A tx \in txs : pool[tx].requires \subseteq Tags(txs)}

admit(tx, valid) ==
    pool' = [t \in DOMAIN pool \cup {tx} |-> IF t = tx THEN valid ELSE pool[t]]

drop(tx) == pool' = Restrict(pool, DOMAIN pool \ {tx})

\* A block was imported: its transactions leave the pool, and the tags of those
\* that are known have been provided.
prune(block, known) ==
    pool' = [tx \in DOMAIN pool \ block |->
               [requires |-> pool[tx].requires \ Tags(known),
                priority |-> pool[tx].priority]]

\* Nothing that is still to be taken provides a tag they require.
Unlocked ==
    {tx \in DOMAIN proposal : proposal[tx].requires \cap Tags(DOMAIN proposal) = {}}

\* The highest priority first.
Candidates ==
    {tx \in Unlocked : \A t \in Unlocked : proposal[t].priority <= proposal[tx].priority}

take(tx) == proposal' = Restrict(proposal, DOMAIN proposal \ {tx})

=============================================================================
