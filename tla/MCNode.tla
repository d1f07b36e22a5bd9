------------------------------- MODULE MCNode -------------------------------
(***************************************************************************)
(* A small instance of Node on the chain `--dev`.                          *)
(***************************************************************************)
EXTENDS Node, Issuance

CONSTANTS alice, bob, aliceStash, bobStash, signature

MCKey(seed) ==
    CASE seed = "Alice" -> alice
      [] seed = "Bob" -> bob
      [] seed = "Alice//stash" -> aliceStash
      [] OTHER -> bobStash

NoFile(path) == {}

DevelopmentUtxos == (CHOOSE spec \in load_spec("dev") : TRUE).genesis.genesis_utxos

Input(outpoint, signer) ==
    [outpoint |-> outpoint, sigscript |-> [signer |-> signer, salt |-> signature]]

Output(value, owner) == [value |-> value, pubkey |-> owner]

AlicesCoin == GenesisKey(Output(100, alice))
BobsCoin == GenesisKey(Output(100, bob))

\* All of Alice's coin to Bob; half of it, which is spent once only.
ToBob == [inputs |-> <<Input(AlicesCoin, alice)>>, outputs |-> <<Output(100, bob)>>]
HalfToBob == [inputs |-> <<Input(AlicesCoin, alice)>>, outputs |-> <<Output(50, bob)>>]

\* What Bob got and what he had, to Alice; more than what he got.
Back == [inputs |-> <<Input(OutputKey(ToBob, 0), bob), Input(BobsCoin, bob)>>,
         outputs |-> <<Output(150, alice)>>]
TooMuch == [inputs |-> <<Input(OutputKey(ToBob, 0), bob)>>,
            outputs |-> <<Output(150, alice)>>]

\* The reward of the first block, before it is paid.
InAdvance == [inputs |-> <<Input(RewardKey(Output(50, bob), 1), bob)>>,
              outputs |-> <<Output(50, alice)>>]

MCPayments == {ToBob, HalfToBob, Back, TooMuch, InAdvance}

=============================================================================
