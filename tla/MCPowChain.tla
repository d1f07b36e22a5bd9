----------------------------- MODULE MCPowChain -----------------------------
(***************************************************************************)
(* A small instance of the nodes of the chain.                             *)
(***************************************************************************)
EXTENDS PowChain

CONSTANTS m1, m2

\* A digest that depends on all that is digested and spreads over 0..7.
MCSha3(c) ==
    (5 * c.nonce + 3 * c.difficulty + 2 * c.pre_hash.number + c.pre_hash.difficulty
       + IF c.pre_hash.author = m1 THEN 0 ELSE 1) % 8

=============================================================================
