------------------------------ MODULE Issuance ------------------------------
(***************************************************************************)
(* The block subsidy BitcoinHalving, src/runtime/src/issuance.rs.          *)
(***************************************************************************)
EXTENDS Integers

CONSTANTS
    HALVING_INTERVAL,  \* the number of blocks between each halving
    INITIAL_ISSUANCE   \* the subsidy before any halving, a u32

ASSUME IssuanceAssumption ==
    /\ HALVING_INTERVAL \in Nat \ {0}
    /\ INITIAL_ISSUANCE \in Nat

(***************************************************************************)
(* `x >> n` of a u32 in a release build: the hardware uses the low five    *)
(* bits of n.  (A debug build panics when n >= 32.)                        *)
(***************************************************************************)
ShiftRight32(x, n) ==
    LET bits == n % 32 IN IF bits = 31 THEN 0 ELSE x \div (2 ^ bits)

BitcoinHalving(block) ==
    LET halvings == block \div HALVING_INTERVAL
    IN  IF halvings >= 64 THEN 0 ELSE ShiftRight32(INITIAL_ISSUANCE, halvings)

=============================================================================
