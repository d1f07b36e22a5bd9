----------------------------- MODULE ChainSpec -----------------------------
(***************************************************************************)
(* The chain specifications of src/node/src/chain_spec.rs and the command  *)
(* line that chooses one of them and the key that a node's blocks pay,     *)
(* src/node/src/command.rs and cli.rs.                                     *)
(***************************************************************************)
EXTENDS Naturals, Sequences

CONSTANTS
    get_from_seed(_),  \* the sr25519 public key that a seed derives
    from_json_file(_)  \* the set of no or one specification that a file holds

Stash(names) == {name \o "//stash" : name \in names}

\* Mutant: one owner is endowed with every output.
genesis_of_one_owner(root_key, endowed_accounts, endowed_utxos) ==
    [sudo |-> root_key, balances |-> endowed_accounts, initial_difficulty |-> 4000000,
     genesis_utxos |-> [i \in DOMAIN endowed_utxos |->
                          [value |-> 100, pubkey |-> endowed_utxos[1]]]]

\* One output of 100 for each key; accounts all have the same balance.
testnet_genesis(root_key, endowed_accounts, endowed_utxos) ==
    [sudo |-> root_key, balances |-> endowed_accounts, initial_difficulty |-> 4000000,
     genesis_utxos |-> [i \in DOMAIN endowed_utxos |->
                          [value |-> 100, pubkey |-> endowed_utxos[i]]]]

development_config ==
    [id |-> "dev",
     genesis |-> LET names == {"Alice", "Bob"}
                 IN  testnet_genesis(get_from_seed("Alice"),
                                     {get_from_seed(s) : s \in names \cup Stash(names)},
                                     <<get_from_seed("Alice"), get_from_seed("Bob")>>)]

local_testnet_config ==
    [id |-> "local_testnet",
     genesis |-> LET names == {"Alice", "Bob", "Charlie", "Dave", "Eve", "Ferdie"}
                 IN  testnet_genesis(get_from_seed("Alice"),
                                     {get_from_seed(s) : s \in names \cup Stash(names)},
                                     <<get_from_seed("Alice"), get_from_seed("Bob")>>)]

\* The specification that the option --chain names, if there is one.
load_spec(id) ==
    CASE id = "dev"           -> {development_config}
      [] id \in {"", "local"} -> {local_testnet_config}
      [] OTHER                -> from_json_file(id)

\* `run`: which service starts, and the key it is given for rewards.  Subcommands
\* and nodes without the option --sr25519-public-key have the key of all zeros.
run(subcommand, role, option, default_sr25519_public_key) ==
    [service |-> IF subcommand THEN "partial" ELSE IF role = "light" THEN "light" ELSE "full",
     key     |-> IF subcommand \/ option = {} THEN default_sr25519_public_key
                 ELSE CHOOSE key \in option : TRUE]

=============================================================================
