-------------------------- MODULE PowChain_proofs --------------------------
(***************************************************************************)
(* Seals are good wherever they go, total difficulty is work that was      *)
(* done, and the best block is the heaviest: for any nodes, digests,       *)
(* nonces and difficulties.                                                *)
(***************************************************************************)
EXTENDS PowChain, TLAPS

Weights == Difficulties \cup {InitialDifficulty}

\* What a node has imported: blocks whose states hold a difficulty, with totals.
AuxOK(n) ==
    /\ Genesis \in DOMAIN aux[n]
    /\ aux[n] \in [DOMAIN aux[n] -> Nat]
    /\ \A b \in DOMAIN aux[n] : difficulty(b) \in Weights

\* The best block is one of them and none is heavier.
BestOK(n) ==
    /\ best[n] \in DOMAIN aux[n]
    /\ \A b \in DOMAIN aux[n] : aux[n][b] <= aux[n][best[n]]

\* A job is on a block the node has, at that block's difficulty; once sealed,
\* its seal comes from an attempt that met this difficulty.
JobOK(n) ==
    /\ job[n] = [header |-> job[n].header, difficulty |-> job[n].difficulty,
                 seal |-> job[n].seal]
    /\ job[n] # NoJob =>
          /\ job[n].header.parent \in DOMAIN aux[n]
          /\ job[n].header.difficulty \in Weights
          /\ job[n].difficulty = difficulty(job[n].header.parent)
    /\ job[n].seal # NoSeal =>
          /\ job[n].seal \in attempts(job[n].header, job[n].difficulty)
          /\ hash_meets_difficulty(job[n].seal.work, job[n].difficulty)

\* WorkIsReal of one node.
WorkOK(n) ==
    \A b \in DOMAIN aux[n] \ {Genesis} :
        /\ b.header.parent \in DOMAIN aux[n]
        /\ aux[n][b] = aux[n][b.header.parent] + difficulty(b.header.parent)
        /\ verify(b.header, b.seal, difficulty(b.header.parent))

IInv ==
    /\ aux = [n \in Nodes |-> aux[n]]
    /\ best = [n \in Nodes |-> best[n]]
    /\ job = [n \in Nodes |-> job[n]]
    /\ \A n \in Nodes : AuxOK(n) /\ BestOK(n) /\ JobOK(n) /\ WorkOK(n)

-----------------------------------------------------------------------------
\* A seal is a record of three fields and neither of the two that are none.
LEMMA SealShape ==
  ASSUME NEW c
  PROVE  compute(c) \notin {NoSeal, Undecodable}
<1>1. DOMAIN compute(c) = {"difficulty", "work", "nonce"}
  BY DEF compute
<1>2. DOMAIN NoSeal = {"none"} /\ DOMAIN Undecodable = {"garbage"}
  BY DEF NoSeal, Undecodable
<1> QED
  BY <1>1, <1>2

\* What mine returns verify accepts, for the same pre-hash and difficulty.
LEMMA MinedVerifies ==
  ASSUME NEW header, NEW d, NEW seal \in attempts(header, d),
         hash_meets_difficulty(seal.work, d)
  PROVE  verify(header, seal, d)
<1>1. PICK nonce \in Nonces : seal = compute(Compute(d, header, nonce))
  BY DEF attempts
<1>2. seal.nonce = nonce
  BY <1>1 DEF compute, Compute
<1> QED
  BY <1>1, <1>2, SealShape DEF verify

\* What verify accepts is a seal, and so its block is not the genesis.
LEMMA VerifiedIsSeal ==
  ASSUME NEW header, NEW seal, NEW d, verify(header, seal, d)
  PROVE  seal # NoSeal
BY SealShape DEF verify

\* Hashes that meet a difficulty meet every smaller one.
LEMMA LowerIsEasier ==
  ASSUME NEW hash \in Nat, NEW d \in Nat, NEW e \in Nat, e <= d,
         hash_meets_difficulty(hash, d)
  PROVE  hash_meets_difficulty(hash, e)
<1>1. PICK k \in Nat : d = e + k
  BY SMT
<1>2. hash * d = hash * e + hash * k /\ hash * k \in Nat /\ hash * e \in Nat
  BY <1>1, SMT
<1> QED
  BY <1>2, Sha3Assumption, SMT DEF hash_meets_difficulty

-----------------------------------------------------------------------------
\* Importing a block on one that the node has keeps what is said of blocks.
LEMMA ImportKeeps ==
  ASSUME IInv, NEW n \in Nodes, NEW block,
         block.header.parent \in DOMAIN aux[n],
         block.header.difficulty \in Weights,
         import_block(n, block)
  PROVE  /\ aux' = [m \in Nodes |-> aux'[m]]
         /\ best' = [m \in Nodes |-> best'[m]]
         /\ \A m \in Nodes : /\ DOMAIN aux[m] \subseteq DOMAIN aux'[m]
                             /\ AuxOK(m)' /\ BestOK(m)' /\ WorkOK(m)'
<1> DEFINE parent == block.header.parent
           total  == aux[n][parent] + difficulty(parent)
           new    == [b \in DOMAIN aux[n] \cup {block} |-> IF b = block THEN total ELSE aux[n][b]]
<1>1. /\ aux = [m \in Nodes |-> aux[m]] /\ best = [m \in Nodes |-> best[m]]
      /\ \A m \in Nodes : AuxOK(m) /\ BestOK(m) /\ WorkOK(m)
  BY DEF IInv
<1>2. CASE ~verify(block.header, block.seal, difficulty(parent))
  <2>1. aux' = aux /\ best' = best
    BY <1>2 DEF import_block
  <2> QED
    BY <2>1, <1>1 DEF AuxOK, BestOK, WorkOK
<1>3. CASE verify(block.header, block.seal, difficulty(parent))
  <2>1. /\ aux' = [aux EXCEPT ![n] = new]
        /\ best' = [best EXCEPT ![n] = IF better(n, block, total) THEN block ELSE @]
    BY <1>3 DEF import_block
  <2>2. /\ aux' = [m \in Nodes |-> aux'[m]] /\ best' = [m \in Nodes |-> best'[m]]
        /\ aux'[n] = new
        /\ best'[n] = IF better(n, block, total) THEN block ELSE best[n]
        /\ \A m \in Nodes \ {n} : aux'[m] = aux[m] /\ best'[m] = best[m]
    BY <2>1, <1>1
  <2>3. total \in Nat
    <3>1. aux[n][parent] \in Nat /\ difficulty(parent) \in Weights
      BY <1>1 DEF AuxOK
    <3>2. Weights \subseteq Nat
      BY PowChainAssumption DEF Weights
    <3>3. difficulty(parent) \in Nat
      BY <3>1, <3>2
    <3> QED
      BY <3>1, <3>3, SMT DEF difficulty
  <2>4. block # Genesis
    BY <1>3, VerifiedIsSeal DEF Genesis
  <2>5. block \in DOMAIN aux[n] => aux[n][block] = total
    BY <1>1, <2>4 DEF WorkOK
  <2>6. /\ DOMAIN aux'[n] = DOMAIN aux[n] \cup {block}
        /\ \A b \in DOMAIN aux[n] : aux'[n][b] = aux[n][b]
        /\ aux'[n][block] = total
    BY <2>2, <2>5
  <2>7. AuxOK(n)'
    BY <1>1, <2>2, <2>3, <2>6 DEF AuxOK, difficulty
  <2>8. BestOK(n)'
    <3>1. /\ best[n] \in DOMAIN aux[n]
          /\ \A b \in DOMAIN aux[n] : aux[n][b] \in Nat /\ aux[n][b] <= aux[n][best[n]]
      BY <1>1 DEF AuxOK, BestOK
    <3>2. CASE total > aux[n][best[n]]
      <4>1. best'[n] = block
        BY <3>2, <2>2 DEF better
      <4> QED
        BY <4>1, <3>1, <3>2, <2>3, <2>6 DEF BestOK
    <3>3. CASE ~(total > aux[n][best[n]])
      <4>1. best'[n] = best[n]
        BY <3>3, <2>2 DEF better
      <4> QED
        BY <4>1, <3>1, <3>3, <2>3, <2>6 DEF BestOK
    <3> QED
      BY <3>2, <3>3
  <2>9. WorkOK(n)'
    <3> SUFFICES ASSUME NEW b \in DOMAIN aux'[n] \ {Genesis}
                 PROVE  /\ b.header.parent \in DOMAIN aux'[n]
                        /\ aux'[n][b] = aux'[n][b.header.parent] + difficulty(b.header.parent)
                        /\ verify(b.header, b.seal, difficulty(b.header.parent))
      BY DEF WorkOK, difficulty
    <3>1. CASE b = block
      BY <3>1, <1>3, <2>6
    <3>2. CASE b \in DOMAIN aux[n]
      BY <3>2, <1>1, <2>6 DEF WorkOK
    <3> QED
      BY <3>1, <3>2, <2>6
  <2>10. ASSUME NEW m \in Nodes \ {n}
         PROVE  AuxOK(m)' /\ BestOK(m)' /\ WorkOK(m)' /\ aux'[m] = aux[m]
    BY <1>1, <2>2 DEF AuxOK, BestOK, WorkOK
  <2> QED
    BY <2>2, <2>6, <2>7, <2>8, <2>9, <2>10
<1> QED
  BY <1>2, <1>3

\* Jobs stay good while nodes import more and the loop itself does not move.
LEMMA JobsStay ==
  ASSUME NEW n \in Nodes, JobOK(n), job'[n] = job[n], DOMAIN aux[n] \subseteq DOMAIN aux'[n]
  PROVE  JobOK(n)'
BY DEF JobOK

-----------------------------------------------------------------------------
LEMMA InitEstablishes == Init => IInv
<1> SUFFICES ASSUME Init PROVE IInv
  OBVIOUS
<1>1. aux = [n \in Nodes |-> [b \in {Genesis} |-> 0]] /\ best = [n \in Nodes |-> Genesis]
      /\ job = [n \in Nodes |-> NoJob]
  BY DEF Init
<1>2. ASSUME NEW n \in Nodes
      PROVE  AuxOK(n) /\ BestOK(n) /\ JobOK(n) /\ WorkOK(n)
  <2>1. DOMAIN aux[n] = {Genesis} /\ aux[n][Genesis] = 0 /\ best[n] = Genesis /\ job[n] = NoJob
    BY <1>1
  <2>2. AuxOK(n)
    BY <2>1, <1>1 DEF AuxOK, Weights, difficulty, Genesis
  <2>3. BestOK(n) /\ WorkOK(n)
    BY <2>1 DEF BestOK, WorkOK
  <2>4. JobOK(n)
    BY <2>1 DEF JobOK, NoJob
  <2> QED
    BY <2>2, <2>3, <2>4
<1> QED
  BY <1>1, <1>2 DEF IInv

LEMMA StepKeeps == IInv /\ [Next]_vars => IInv'
<1> SUFFICES ASSUME IInv, [Next]_vars PROVE IInv'
  OBVIOUS
<1>1. /\ aux = [m \in Nodes |-> aux[m]] /\ best = [m \in Nodes |-> best[m]]
      /\ job = [m \in Nodes |-> job[m]]
      /\ \A m \in Nodes : AuxOK(m) /\ BestOK(m) /\ JobOK(m) /\ WorkOK(m)
  BY DEF IInv
<1>2. CASE UNCHANGED vars
  BY <1>1, <1>2 DEF vars, IInv, AuxOK, BestOK, JobOK, WorkOK
<1>3. ASSUME UNCHANGED <<aux, best>>, job' = [m \in Nodes |-> job'[m]],
             \A m \in Nodes : JobOK(m)'
      PROVE  IInv'
  BY <1>1, <1>3 DEF IInv, AuxOK, BestOK, WorkOK
<1>4. ASSUME NEW n \in Nodes, NEW block,
             block.header.parent \in DOMAIN aux[n], block.header.difficulty \in Weights,
             import_block(n, block), job' = job \/ job' = [job EXCEPT ![n] = NoJob]
      PROVE  IInv'
  <2>1. /\ aux' = [m \in Nodes |-> aux'[m]] /\ best' = [m \in Nodes |-> best'[m]]
        /\ \A m \in Nodes : /\ DOMAIN aux[m] \subseteq DOMAIN aux'[m]
                            /\ AuxOK(m)' /\ BestOK(m)' /\ WorkOK(m)'
    BY <1>4, ImportKeeps
  <2>2. job' = [m \in Nodes |-> job'[m]]
    BY <1>1, <1>4
  <2>3. ASSUME NEW m \in Nodes PROVE JobOK(m)'
    <3>1. CASE job'[m] = job[m]
      BY <3>1, <2>1, <1>1, JobsStay
    <3>2. CASE job'[m] = NoJob
      BY <3>2 DEF JobOK, NoJob
    <3> QED
      BY <3>1, <3>2, <1>1, <1>4
  <2> QED
    BY <2>1, <2>2, <2>3 DEF IInv
<1>5. ASSUME NEW n \in Nodes, Propose(n) PROVE IInv'
  <2>1. PICK next \in Difficulties :
          job' = [job EXCEPT ![n] = [header |-> Header(best[n], n, next),
                                     difficulty |-> difficulty(best[n]), seal |-> NoSeal]]
    BY <1>5 DEF Propose
  <2>2. UNCHANGED <<aux, best>>
    BY <1>5 DEF Propose
  <2>3. /\ job' = [m \in Nodes |-> job'[m]]
        /\ \A m \in Nodes \ {n} : job'[m] = job[m]
        /\ job'[n] = [header |-> Header(best[n], n, next),
                      difficulty |-> difficulty(best[n]), seal |-> NoSeal]
    BY <1>1, <2>1
  <2>4. JobOK(n)'
    <3>1. best[n] \in DOMAIN aux[n]
      BY <1>1 DEF BestOK
    <3> QED
      BY <3>1, <2>2, <2>3 DEF JobOK, Header, Weights
  <2>5. ASSUME NEW m \in Nodes \ {n} PROVE JobOK(m)'
    BY <2>2, <2>3, <1>1, JobsStay
  <2> QED
    BY <1>3, <2>2, <2>3, <2>4, <2>5
<1>6. ASSUME NEW n \in Nodes, Mine(n) PROVE IInv'
  <2>1. job[n] # NoJob /\ job[n].seal = NoSeal /\ UNCHANGED <<aux, best>>
    BY <1>6 DEF Mine
  <2>2. PICK seal \in mine(job[n].header, job[n].difficulty) :
          \/ seal # NoSeal /\ job' = [job EXCEPT ![n].seal = seal]
          \/ job' = [job EXCEPT ![n] = NoJob]
    BY <1>6 DEF Mine
  <2>3. job' = [m \in Nodes |-> job'[m]] /\ \A m \in Nodes \ {n} : job'[m] = job[m]
    BY <1>1, <2>2
  <2>4. ASSUME NEW m \in Nodes \ {n} PROVE JobOK(m)'
    BY <2>1, <2>3, <1>1, JobsStay
  <2>5. JobOK(n)'
    <3>1. CASE job' = [job EXCEPT ![n] = NoJob]
      <4>1. job'[n] = NoJob
        BY <3>1, <1>1
      <4> QED
        BY <4>1 DEF JobOK, NoJob
    <3>2. CASE seal # NoSeal /\ job' = [job EXCEPT ![n].seal = seal]
      <4>1. job[n] = [header |-> job[n].header, difficulty |-> job[n].difficulty,
                      seal |-> job[n].seal]
        BY <1>1 DEF JobOK
      <4>2. job'[n] = [header |-> job[n].header, difficulty |-> job[n].difficulty, seal |-> seal]
        BY <3>2, <4>1, <1>1
      <4>3. /\ seal \in attempts(job[n].header, job[n].difficulty)
            /\ hash_meets_difficulty(seal.work, job[n].difficulty)
        BY <3>2, <2>2 DEF mine
      <4>4. /\ job[n].header.parent \in DOMAIN aux[n]
            /\ job[n].header.difficulty \in Weights
            /\ job[n].difficulty = difficulty(job[n].header.parent)
        BY <1>1, <2>1 DEF JobOK
      <4> QED
        BY <4>2, <4>3, <4>4, <2>1 DEF JobOK
    <3> QED
      BY <2>2, <3>1, <3>2
  <2> QED
    BY <1>3, <2>1, <2>3, <2>4, <2>5
<1>7. ASSUME NEW n \in Nodes, ImportOwn(n) PROVE IInv'
  <2> DEFINE block == [header |-> job[n].header, seal |-> job[n].seal]
  <2>1. job[n].seal # NoSeal /\ import_block(n, block) /\ job' = [job EXCEPT ![n] = NoJob]
    BY <1>7 DEF ImportOwn
  <2>2. job[n] # NoJob
    BY <2>1 DEF NoJob
  <2>3. block.header.parent \in DOMAIN aux[n] /\ block.header.difficulty \in Weights
    BY <2>2, <1>1 DEF JobOK
  <2> HIDE DEF block
  <2> QED
    BY <1>4, <2>1, <2>3
<1>8. ASSUME NEW n \in Nodes, Deliver(n) PROVE IInv'
  <2>1. PICK m \in Nodes : \E block \in DOMAIN aux[m] \ DOMAIN aux[n] :
          block.header.parent \in DOMAIN aux[n] /\ import_block(n, block)
    BY <1>8 DEF Deliver
  <2>2. PICK block \in DOMAIN aux[m] :
          block.header.parent \in DOMAIN aux[n] /\ import_block(n, block)
    BY <2>1
  <2>3. block.header.difficulty \in Weights
    BY <1>1 DEF AuxOK, difficulty
  <2>4. job' = job
    BY <1>8 DEF Deliver
  <2> QED
    BY <1>4, <2>2, <2>3, <2>4
<1>9. ASSUME NEW n \in Nodes, DeliverMismatch(n) PROVE IInv'
  <2>1. PICK m \in Nodes : \E b, c \in DOMAIN aux[m] : \E seal \in {c.seal, Undecodable} :
          /\ b.header.parent \in DOMAIN aux[n]
          /\ import_block(n, [header |-> b.header, seal |-> seal])
    BY <1>9 DEF DeliverMismatch
  <2>2. PICK b \in DOMAIN aux[m], c \in DOMAIN aux[m] : \E seal \in {c.seal, Undecodable} :
          /\ b.header.parent \in DOMAIN aux[n]
          /\ import_block(n, [header |-> b.header, seal |-> seal])
    BY <2>1
  <2>3. PICK seal \in {c.seal, Undecodable} :
          /\ b.header.parent \in DOMAIN aux[n]
          /\ import_block(n, [header |-> b.header, seal |-> seal])
    BY <2>2
  <2> DEFINE block == [header |-> b.header, seal |-> seal]
  <2>4. /\ block.header.parent \in DOMAIN aux[n]
        /\ block.header.difficulty \in Weights
        /\ import_block(n, block)
    BY <1>1, <2>3 DEF AuxOK, difficulty
  <2>5. job' = job
    BY <1>9 DEF DeliverMismatch
  <2> HIDE DEF block
  <2> QED
    BY <1>4, <2>4, <2>5
<1> QED
  BY <1>2, <1>5, <1>6, <1>7, <1>8, <1>9 DEF Next

-----------------------------------------------------------------------------
\* Blocks, totals, heads and jobs are in order in every reachable state.
THEOREM ChainInvariance == Spec => []IInv
<1> QED
  BY InitEstablishes, StepKeeps, PTL DEF Spec

\* A sealed block is valid wherever its parent is known: what mine returns on a
\* block's difficulty verify accepts at that difficulty (lib.rs of sha3pow).
THEOREM SealedBlocksAreValid == Spec => []SealsAreGood
<1>1. IInv => SealsAreGood
  <2> SUFFICES ASSUME IInv, NEW n \in Nodes, job[n].seal # NoSeal
               PROVE  verify(job[n].header, job[n].seal, difficulty(job[n].header.parent))
    BY DEF SealsAreGood
  <2>1. JobOK(n) /\ job[n] # NoJob
    BY DEF IInv, NoJob
  <2>2. verify(job[n].header, job[n].seal, job[n].difficulty)
    BY <2>1, MinedVerifies DEF JobOK
  <2> QED
    BY <2>1, <2>2 DEF JobOK
<1> QED
  BY <1>1, ChainInvariance, PTL

\* The total difficulty of a block (PowAux) counts only work that was done for
\* the headers of its chain, at the difficulties their parents asked for.
THEOREM TotalDifficultyIsWork == Spec => []WorkIsReal
<1>1. IInv => WorkIsReal
  <2> SUFFICES ASSUME IInv, NEW n \in Nodes, NEW b \in DOMAIN aux[n] \ {Genesis}
               PROVE  LET parent == b.header.parent
                          work   == Sha3_256([difficulty |-> parent.header.difficulty,
                                              pre_hash |-> b.header, nonce |-> b.seal.nonce])
                      IN  /\ parent \in DOMAIN aux[n]
                          /\ aux[n][b] = aux[n][parent] + parent.header.difficulty
                          /\ work * parent.header.difficulty < HashSpace
    BY DEF WorkIsReal
  <2> DEFINE parent == b.header.parent
             c      == [difficulty |-> parent.header.difficulty,
                        pre_hash |-> b.header, nonce |-> b.seal.nonce]
  <2>1. /\ parent \in DOMAIN aux[n]
        /\ aux[n][b] = aux[n][parent] + parent.header.difficulty
        /\ verify(b.header, b.seal, parent.header.difficulty)
    BY DEF IInv, WorkOK, difficulty
  <2>2. compute(c) = b.seal /\ hash_meets_difficulty(b.seal.work, parent.header.difficulty)
    BY <2>1 DEF verify, Compute
  <2>3. compute(c).work = Sha3_256(c)
    BY DEF compute
  <2>4. Sha3_256(c) * parent.header.difficulty < HashSpace
    BY <2>2, <2>3 DEF hash_meets_difficulty
  <2> QED
    BY <2>1, <2>4
<1> QED
  BY <1>1, ChainInvariance, PTL

\* A node never settles on less work than the heaviest block it has imported.
THEOREM HeaviestIsBest == Spec => []BestIsHeaviest
<1>1. IInv => BestIsHeaviest
  BY DEF IInv, BestOK, BestIsHeaviest
<1> QED
  BY <1>1, ChainInvariance, PTL

=============================================================================
