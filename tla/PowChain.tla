------------------------------ MODULE PowChain ------------------------------
(***************************************************************************)
(* The nodes of the chain, src/node/src/service.rs: each keeps the blocks  *)
(* it has imported, some mine (sc_consensus_pow::start_mine), and blocks   *)
(* of peers arrive in any order in which parents come first.  The mining   *)
(* loop, the block import and the network are libraries, modelled from     *)
(* how they are wired and what they ask of Sha3Algorithm.                  *)
(***************************************************************************)
EXTENDS Sha3Pow

CONSTANTS
    Nodes,
    Authorities,        \* the nodes that mine
    Difficulties,       \* the difficulties a block may leave in its state
    InitialDifficulty,  \* that of the genesis state
    MaxNumber           \* bound: no block above this number is proposed

VARIABLES
    aux,   \* node -> the blocks it has imported -> total_difficulty (PowAux)
    best,  \* node -> its best block
    job    \* node -> what its mining loop works on

vars == <<aux, best, job>>

ASSUME PowChainAssumption ==
    /\ Authorities \subseteq Nodes
    /\ Difficulties \cup {InitialDifficulty} \subseteq Nat \ {0}
    /\ MaxNumber \in Nat

\* A header stands for its pre-hash, a block with its seal for its hash.  The
\* state root of a header is reduced to the difficulty in the block's state.
Header(parent, author, next) ==
    [parent |-> parent, number |-> parent.header.number + 1,
     author |-> author, difficulty |-> next]

Genesis == [header |-> [number |-> 0, difficulty |-> InitialDifficulty], seal |-> NoSeal]

NoJob == [header |-> Genesis.header, difficulty |-> 0, seal |-> NoSeal]

Init ==
    /\ aux = [n \in Nodes |-> [b \in {Genesis} |-> 0]]
    /\ best = [n \in Nodes |-> Genesis]
    /\ job = [n \in Nodes |-> NoJob]

-----------------------------------------------------------------------------
\* The runtime's difficulty after a block; it is asked for a block's parent.
difficulty(block) == block.header.difficulty

\* Mutant: the longer chain is better, whatever work it took.
longer(n, block, total) == block.header.number > best[n].header.number

\* Mutant: whatever comes last is better.
latest(n, block, total) == TRUE

better(n, block, total) == total > aux[n][best[n]]

\* PowBlockImport, with Sha3Algorithm and the select chain.
import_block(n, block) ==
    LET parent == block.header.parent
        total  == aux[n][parent] + difficulty(parent)
    IN  IF verify(block.header, block.seal, difficulty(parent))
        THEN /\ aux' = [aux EXCEPT ![n] = [b \in DOMAIN @ \cup {block} |->
                                              IF b = block THEN total ELSE @[b]]]
             /\ best' = [best EXCEPT ![n] = IF better(n, block, total) THEN block ELSE @]
        ELSE UNCHANGED <<aux, best>>

\* An authority proposes a block on its best one.
Propose(n) ==
    /\ n \in Authorities
    /\ job[n] = NoJob
    /\ best[n].header.number < MaxNumber
    /\ \E next \in Difficulties :
          job' = [job EXCEPT ![n] = [header |-> Header(best[n], n, next),
                                     difficulty |-> difficulty(best[n]), seal |-> NoSeal]]
    /\ UNCHANGED <<aux, best>>

\* One call of mine.  Without a seal the loop starts anew if the best block has
\* changed, and calls again if not; with one it imports whatever happened.
Mine(n) ==
    /\ job[n] # NoJob /\ job[n].seal = NoSeal
    /\ \E seal \in mine(job[n].header, job[n].difficulty) :
          \/ /\ seal # NoSeal
             /\ job' = [job EXCEPT ![n].seal = seal]
          \/ /\ seal = NoSeal /\ best[n] # job[n].header.parent
             /\ job' = [job EXCEPT ![n] = NoJob]
    /\ UNCHANGED <<aux, best>>

ImportOwn(n) ==
    /\ job[n].seal # NoSeal
    /\ import_block(n, [header |-> job[n].header, seal |-> job[n].seal])
    /\ job' = [job EXCEPT ![n] = NoJob]

\* The network brings every block that some node has to all the others.
Deliver(n) ==
    /\ \E m \in Nodes : \E block \in DOMAIN aux[m] \ DOMAIN aux[n] :
          /\ block.header.parent \in DOMAIN aux[n]
          /\ import_block(n, block)
    /\ UNCHANGED job

\* The import queue may be given a header with a seal that was not made for it.
DeliverMismatch(n) ==
    /\ \E m \in Nodes : \E b, c \in DOMAIN aux[m] \ {Genesis} :
          \E seal \in {c.seal, Undecodable} :
             LET block == [header |-> b.header, seal |-> seal]
             IN  /\ block \notin DOMAIN aux[n]
                 /\ b.header.parent \in DOMAIN aux[n]
                 /\ import_block(n, block)
    /\ UNCHANGED job

Next == \E n \in Nodes : Propose(n) \/ Mine(n) \/ ImportOwn(n) \/ Deliver(n) \/ DeliverMismatch(n)

Spec == Init /\ [][Next]_vars

\* Blocks that one node has reach every other.
FairSpec == Spec /\ \A n \in Nodes : WF_vars(Deliver(n))

-----------------------------------------------------------------------------
\* A block that a node has sealed on a head that may since have moved is valid
\* wherever its parent is known: mine and verify mean the same difficulty.
SealsAreGood ==
    \A n \in Nodes :
        job[n].seal # NoSeal =>
            verify(job[n].header, job[n].seal, difficulty(job[n].header.parent))

\* Total difficulty is work that was done: every block of a node was sealed for
\* this very header, at the difficulty that its parent's state asks for.
WorkIsReal ==
    \A n \in Nodes : \A b \in DOMAIN aux[n] \ {Genesis} :
        LET parent == b.header.parent
            work   == Sha3_256([difficulty |-> parent.header.difficulty,
                                pre_hash |-> b.header, nonce |-> b.seal.nonce])
        IN  /\ parent \in DOMAIN aux[n]
            /\ aux[n][b] = aux[n][parent] + parent.header.difficulty
            /\ work * parent.header.difficulty < HashSpace

\* Forks never cost work: no block that a node has is heavier than its best.
BestIsHeaviest == \A n \in Nodes : \A b \in DOMAIN aux[n] : aux[n][b] <= aux[n][best[n]]

\* When mining pauses all nodes come to chains of the same weight, and stay.
Agreement == <>[](\A m, n \in Nodes : aux[m][best[m]] = aux[n][best[n]])

=============================================================================
