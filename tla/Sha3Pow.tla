------------------------------ MODULE Sha3Pow ------------------------------
(***************************************************************************)
(* The proof of work, src/node/sha3pow/src/lib.rs: seals, how they are     *)
(* mined and how they are verified.                                        *)
(***************************************************************************)
EXTENDS Integers

CONSTANTS
    Sha3_256(_),  \* the digest of a Compute, as a number
    HashSpace,    \* how many digests there are; the program has 2^256
    Nonces        \* the nonces that are drawn

ASSUME Sha3Assumption == HashSpace \in Nat \ {0}

\* What mine returns when it finds nothing.
NoSeal == [none |-> TRUE]

\* Bytes that Seal::decode refuses.
Undecodable == [garbage |-> TRUE]

\* The product of the two has to fit 256 bits.
hash_meets_difficulty(hash, difficulty) == hash * difficulty < HashSpace

Compute(difficulty, pre_hash, nonce) ==
    [difficulty |-> difficulty, pre_hash |-> pre_hash, nonce |-> nonce]

compute(c) == [difficulty |-> c.difficulty, work |-> Sha3_256(c), nonce |-> c.nonce]

\* Mutant: the seal is not computed again from the header.
verify_work_only(pre_hash, seal, difficulty) ==
    /\ seal # Undecodable
    /\ hash_meets_difficulty(seal.work, difficulty)

verify(pre_hash, seal, difficulty) ==
    /\ seal # Undecodable
    /\ hash_meets_difficulty(seal.work, difficulty)
    /\ compute(Compute(difficulty, pre_hash, seal.nonce)) = seal

\* The seals that a call may try, each from a random nonce.
attempts(pre_hash, difficulty) ==
    {compute(Compute(difficulty, pre_hash, nonce)) : nonce \in Nonces}

\* Mutant: an attempt counts that meets half the difficulty.
mine_halfway(pre_hash, difficulty) ==
    {seal \in attempts(pre_hash, difficulty) :
        hash_meets_difficulty(seal.work, difficulty \div 2)}

\* What a call may return: a seal that meets the difficulty, or nothing after
\* as many attempts as it is given, none of which did.
mine(pre_hash, difficulty) ==
    LET solved == {seal \in attempts(pre_hash, difficulty) :
                      hash_meets_difficulty(seal.work, difficulty)}
    IN  solved \cup IF solved = attempts(pre_hash, difficulty) THEN {} ELSE {NoSeal}

=============================================================================
