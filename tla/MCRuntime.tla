------------------------------ MODULE MCRuntime ------------------------------
(***************************************************************************)
(* Small instances of Runtime, with the issuance the runtime configures.   *)
(***************************************************************************)
EXTENDS Runtime, Issuance

CONSTANTS alice, bob, firstSignature, secondSignature

Owns(owner, value) == [value |-> value, pubkey |-> owner]

\* No coin.
Nothing == <<>>

\* One coin.
OneCoin == <<Owns(alice, 6)>>

\* Coins of two owners.
TwoCoins == <<Owns(alice, 2), Owns(bob, 1)>>

\* Coins so large that what is not paid out of them exceeds PriorityModulus,
\* and together exceeds MaxValue.
LargeCoins == <<Owns(alice, 13), Owns(bob, 8)>>

=============================================================================
