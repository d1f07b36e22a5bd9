-------------------------- MODULE NodeSupply_proofs --------------------------
(***************************************************************************)
(* The sums of Runtime on a node: whatever blocks it proposes, abandons    *)
(* and imports, nothing is created but rewards, and nothing is lost.       *)
(***************************************************************************)
EXTENDS Node_proofs, Supply_proofs

\* No outpoint was listed twice up to the best block.
HeadNoneTwice == \A k \in HeadCoins : k.kind = "output" => UsedOnce(k.tx)

\* The books of the best block.
HeadBalanced ==
    /\ IsFiniteSet(DOMAIN head.utxoStore)
    /\ HeadNoneTwice =>
          SumFunction([k \in DOMAIN head.utxoStore |-> head.utxoStore[k].value]) + head.rewardTotal
             = GenesisSupply + SumFunction([b \in DOMAIN head.claims |-> issuance(b)])

\* The inductive invariant: the books of the best block and of its copy balance.
NSInv == NInv /\ SInv /\ HeadBalanced

-----------------------------------------------------------------------------
(* What the steps of a node are to the runtime. *)

\* A dispatch that fails changes nothing but the weight.
RefusedStep ==
    UNCHANGED <<utxoStore, rewardTotal, author, blockNumber, building, spent, claims>>

\* A step on the copy is one of the runtime or a refusal; the best block changes
\* when the copy is finalised, and the copy goes when it is forgotten.
LEMMA NodeSteps ==
    ASSUME [NodeNext]_nodeVars
    PROVE  \/ [Next]_vars /\ UNCHANGED head
           \/ RefusedStep /\ UNCHANGED head
           \/ FinalizeBlock /\ head' = State'
           \/ Abandon
<1> DEFINE Known == \/ [Next]_vars /\ UNCHANGED head
                    \/ RefusedStep /\ UNCHANGED head
                    \/ FinalizeBlock /\ head' = State'
                    \/ Abandon
<1>1. ASSUME NEW tx \in Payments, ApplyExtrinsic(tx), UNCHANGED head PROVE Known
  <2>1. CASE Spend(tx)
    <3>1. tx \in Transaction(KnownKeys)
      BY <2>1, PaymentKnown
    <3> QED
      BY <1>1, <2>1, <3>1 DEF Next
  <2>2. CASE Refuse(tx)
    BY <1>1, <2>2 DEF Refuse, RefusedStep
  <2> QED
    BY <1>1, <2>1, <2>2 DEF ApplyExtrinsic
<1>2. ASSUME NEW key \in Pubkeys, SetAuthor("none", key), UNCHANGED head PROVE Known
  BY <1>2 DEF Next, Origin
<1>3. ASSUME NEW tx \in Payments, Submit(tx) \/ Revalidate(tx) \/ Drop(tx) PROVE Known
  BY <1>3 DEF Submit, Revalidate, Drop
<1>4. ASSUME NEW tx \in Payments, Push(tx) \/ PeerApplies(tx) PROVE Known
  BY <1>1, <1>4 DEF Push, PeerApplies
<1>5. CASE Propose \/ PeerBegins
  BY <1>5 DEF Propose, PeerBegins, Next
<1>6. CASE PushInherents
  <2>1. UNCHANGED head /\ (SetAuthor("none", command.key) \/ UNCHANGED vars)
    BY <1>6, InherentKey DEF PushInherents
  <2> QED
    BY <1>2, <2>1, InherentKey
<1>7. CASE ImportOwn \/ ImportPeer
  BY <1>7 DEF ImportOwn, ImportPeer, Import
<1>8. ASSUME NEW key \in PeerKeys, PeerClaims(key) PROVE Known
  BY <1>2, <1>8, NodeAssumption DEF PeerClaims
<1>9. CASE UNCHANGED nodeVars
  BY <1>9 DEF nodeVars
<1> QED
  BY <1>3, <1>4, <1>5, <1>6, <1>7, <1>8, <1>9 DEF NodeNext

-----------------------------------------------------------------------------
(* The books balance. *)

\* Between blocks the copy is the best block: what was listed in one was in both.
LEMMA SameLists ==
    /\ HeadCoins = Coins => HeadNoneTwice = NoneTwice
    /\ HeadCoins' = Coins' => HeadNoneTwice' = NoneTwice'
    /\ HeadCoins = Coins' => HeadNoneTwice = NoneTwice'
  BY DEF HeadNoneTwice, NoneTwice, Applied, UsedOnce

\* Between blocks every claim was rewarded.
LEMMA BooksBetweenBlocks ==
    ASSUME ~building
    PROVE  Issued = SumFunction([b \in DOMAIN claims |-> issuance(b)])
<1>1. Rewarded = DOMAIN claims
  BY DEF Rewarded
<1> QED
  BY <1>1 DEF Issued

LEMMA NodeInitNSInv == GenesisDistinct /\ NodeInit => NSInv
<1> SUFFICES ASSUME GenesisDistinct, NodeInit PROVE NSInv
  OBVIOUS
<1>1. NInv /\ SInv
  BY NodeInitNInv, InitSInv DEF NodeInit
<1>2. /\ ~building
      /\ head.utxoStore = utxoStore /\ head.rewardTotal = rewardTotal
      /\ head.claims = claims /\ head.spent = spent
  BY DEF NodeInit, Init, State
<1>3. Issued = SumFunction([b \in DOMAIN claims |-> issuance(b)])
  BY <1>2, BooksBetweenBlocks
<1>4. HeadNoneTwice = NoneTwice
  BY <1>2, SameLists DEF HeadCoins, Coins
<1> QED
  BY <1>1, <1>2, <1>3, <1>4 DEF NSInv, HeadBalanced, SInv, SupplyConserved, Supply

LEMMA NodeNextNSInv == SupplyFits /\ NSInv /\ [NodeNext]_nodeVars => NSInv'
<1> SUFFICES ASSUME SupplyFits, NSInv, [NodeNext]_nodeVars PROVE NSInv'
  OBVIOUS
<1>1. NInv /\ SInv /\ HeadBalanced
  BY DEF NSInv
<1>2. NInv' /\ IInv'
  BY <1>1, NodeNextNInv DEF NInv
<1>3. ASSUME UNCHANGED head PROVE HeadBalanced' /\ HeadNoneTwice' = HeadNoneTwice
  <2>1. HeadNoneTwice' = HeadNoneTwice
    BY <1>3 DEF HeadNoneTwice, HeadCoins, UsedOnce
  <2> QED
    BY <1>1, <1>3, <2>1 DEF HeadBalanced, GenesisSupply
<1>4. CASE [Next]_vars /\ UNCHANGED head
  <2>1. SInv'
    BY <1>1, <1>4, NextSInv
  <2> QED
    BY <1>2, <1>3, <1>4, <2>1 DEF NSInv
<1>5. CASE RefusedStep /\ UNCHANGED head
  <2>1. Rewarded' = Rewarded
    BY <1>5 DEF RefusedStep, Rewarded
  <2>2. SInv'
    BY <1>1, <1>2, <1>5, <2>1, OtherSInv DEF RefusedStep
  <2> QED
    BY <1>2, <1>3, <1>5, <2>2 DEF NSInv
<1>6. CASE FinalizeBlock /\ head' = State'
  <2>1. SInv'
    BY <1>1, <1>6, FinalizeSInv
  <2>2. /\ ~building'
        /\ head'.utxoStore = utxoStore' /\ head'.rewardTotal = rewardTotal'
        /\ head'.claims = claims' /\ head'.spent = spent'
    BY <1>6 DEF FinalizeBlock, State
  <2>3. Rewarded' = DOMAIN claims'
    BY <2>2 DEF Rewarded
  <2>4. HeadNoneTwice' = NoneTwice'
    BY <2>2, SameLists DEF HeadCoins, Coins
  <2>5. HeadBalanced'
    BY <2>1, <2>2, <2>3, <2>4 DEF HeadBalanced, SInv, SupplyConserved, Supply, Issued
  <2> QED
    BY <1>2, <2>1, <2>5 DEF NSInv
<1>7. CASE Abandon
  <2>1. /\ utxoStore' = head.utxoStore /\ rewardTotal' = head.rewardTotal
        /\ claims' = head.claims /\ spent' = head.spent
        /\ building' = FALSE /\ UNCHANGED head
    BY <1>7 DEF Abandon
  <2>2. Rewarded' = DOMAIN claims'
    BY <2>1 DEF Rewarded
  <2>3. HeadNoneTwice = NoneTwice'
    BY <2>1, SameLists DEF HeadCoins, Coins
  <2>4. IsFiniteSet(DOMAIN utxoStore') /\ (NoneTwice' => SupplyConserved')
    BY <1>1, <2>1, <2>2, <2>3 DEF HeadBalanced, SupplyConserved, Supply, Issued, GenesisSupply
  <2> QED
    BY <1>2, <1>3, <2>1, <2>4 DEF NSInv, SInv
<1> QED
  BY <1>4, <1>5, <1>6, <1>7, NodeSteps

-----------------------------------------------------------------------------
(* No payment makes value. *)

\* Transactions take effect as they do in the runtime, or are forgotten.
LEMMA NodeApplied ==
    ASSUME NInv, [NodeNext]_nodeVars
    PROVE  \/ Applied' \subseteq Applied
           \/ \E tx \in Transaction(KnownKeys) : Spend(tx) /\ Applied' = Applied \cup {tx}
<1>1. IInv
  BY DEF NInv
<1>2. CASE [Next]_vars
  BY <1>1, <1>2, AppliedStep
<1>3. CASE RefusedStep
  BY <1>3 DEF RefusedStep, Applied, Coins
<1>4. CASE FinalizeBlock
  BY <1>1, <1>4, AppliedStep DEF Next
<1>5. CASE Abandon
  <2>1. Coins' = HeadCoins
    BY <1>5 DEF Abandon, Coins, HeadCoins
  <2>2. HeadCoins \subseteq Coins
    BY DEF NInv, BlockInv
  <2> QED
    BY <2>1, <2>2 DEF Applied
<1> QED
  BY <1>2, <1>3, <1>4, <1>5, NodeSteps

LEMMA NodeCoveredStep ==
    NInv /\ CoveredWhereUsedOnce /\ [NodeNext]_nodeVars => CoveredWhereUsedOnce'
  BY NodeApplied, SpendCovered DEF NInv, CoveredWhereUsedOnce, UsedOnce, Covered,
                                   total_output, outpoints, Content

LEMMA NodeNoneTwiceStep ==
    OneSignature /\ NInv /\ NoneTwice /\ [NodeNext]_nodeVars => NoneTwice'
  BY NodeApplied, OnceSigned DEF NoneTwice, UsedOnce

-----------------------------------------------------------------------------
(* The theorems. *)

\* On a node, too, what a payment pays out is covered by the coins it consumed,
\* in the block being built and in all before it, unless it listed one twice.
THEOREM NodeValueOnlyMadeByListingTwice == NodeSpec => []CoveredWhereUsedOnce
<1>1. NodeInit => CoveredWhereUsedOnce
  BY NothingAppliedYet DEF NodeInit, CoveredWhereUsedOnce
<1>2. NInv /\ CoveredWhereUsedOnce /\ [NodeNext]_nodeVars => CoveredWhereUsedOnce'
  BY NodeCoveredStep
<1> QED
  BY <1>1, <1>2, NodeInvariance, PTL DEF NodeSpec

\* With one signature for each key and message none does.
LEMMA NodeListsOnce == OneSignature => (NodeSpec => []NoneTwice)
<1> SUFFICES ASSUME OneSignature PROVE NodeSpec => []NoneTwice
  OBVIOUS
<1>1. NodeInit => NoneTwice
  BY NothingAppliedYet DEF NodeInit, NoneTwice
<1>2. NInv /\ NoneTwice /\ [NodeNext]_nodeVars => NoneTwice'
  BY NodeNoneTwiceStep
<1> QED
  BY <1>1, <1>2, NodeInvariance, PTL DEF NodeSpec

\* With one signature for each key and message every payment is covered.
THEOREM NodePaymentsAreCovered == OneSignature => (NodeSpec => []SpendCreatesNoValue)
<1> SUFFICES ASSUME OneSignature PROVE NodeSpec => []SpendCreatesNoValue
  OBVIOUS
<1>1. NoneTwice /\ CoveredWhereUsedOnce => SpendCreatesNoValue
  BY DEF NoneTwice, CoveredWhereUsedOnce, Covered, SpendCreatesNoValue
<1>2. NodeSpec => []NoneTwice
  BY NodeListsOnce
<1> QED
  BY <1>1, <1>2, NodeValueOnlyMadeByListingTwice, PTL

\* Coins and fees are what genesis gave and the blocks issued, also right after
\* a block was given up: nothing of it is left in the books.
THEOREM NodeConservesValue ==
    GenesisDistinct /\ SupplyFits => (NodeSpec => [](NoneTwice => SupplyConserved))
<1> SUFFICES ASSUME GenesisDistinct, SupplyFits
             PROVE  NodeSpec => [](NoneTwice => SupplyConserved)
  OBVIOUS
<1>1. NodeInit => NSInv
  BY NodeInitNSInv
<1>2. NSInv /\ [NodeNext]_nodeVars => NSInv'
  BY NodeNextNSInv
<1>3. NSInv => (NoneTwice => SupplyConserved)
  BY DEF NSInv, SInv
<1> QED
  BY <1>1, <1>2, <1>3, PTL DEF NodeSpec

=============================================================================
