# Verification of utxo-workshop

TLA+ models of the programs in this repository, the TLC configurations that
check them on small instances, and theorems that TLAPS checks for every value of
the constants. The repository holds three programs: a UTXO chain on Substrate
(`src/runtime`, `src/node`), a docker network simulator that tests it under
changing networks (`src/docker-network-simulator`, Python, one thread for each
event), and tools that generate networks and draw graphs
(`src/network_generator`, `src/network_log_parser`).

    tlc -config MCRuntime_ledger.cfg MCRuntime      # any run, see below
    tlapm Runtime_proofs.tla                        # any *_proofs module

## 1. The system

| part | state | operations | talks to |
|---|---|---|---|
| UTXO pallet, `utxo.rs` | `UtxoStore` (hash to output), `RewardTotal` (fees) | genesis build, `validate_transaction`, `spend`, `update_storage`, `disperse_reward`, `on_finalize` | asks the block author pallet for the author and the issuance for the subsidy; the pool for `requires`, `provides` and the priority |
| Block author pallet, `block_author.rs` | `Author` | `set_author` (an inherent), `on_initialize` | read by the UTXO pallet at finalisation |
| Issuance, `issuance.rs` | none | `BitcoinHalving::issuance` | called by `disperse_reward` |
| Difficulty pallet, `difficulty.rs` | window of past difficulties and timestamps, `CurrentDifficulty` | `on_finalize`, `damp`, `clamp` | reads the timestamp pallet; read by the proof of work through the runtime API |
| Runtime, `lib.rs` | block being built | `initialize_block`, `apply_extrinsic`, `finalize_block`, the runtime APIs | runs the hooks and calls above on one state |
| Proof of work, `sha3pow` | none | `difficulty`, `mine`, `verify` | the mining loop and the block import call it |
| Node service, `service.rs` | the client's blocks and best block, pool, import queue | wires pool, import, proposer, miner and network (libraries) | all of the above; the pool asks the runtime to validate, the proposer takes from the pool |
| Chain specification and CLI, `chain_spec.rs`, `command.rs`, `cli.rs` | none | `load_spec`, `testnet_genesis`, `run` | give the node its genesis, its service and the key its blocks pay |
| Event engine, `main.py`, `eventWorker.py`, `executeAction.py`, `timerActions.py` | one flag and thread per event, `currentTimers` | wait, commands, `do`-block, flag, tear-down | the actions |
| Network and container actions, `networkActions.py`, `containerActions.py` | `networks` with `Network` objects | join, cut, delay, duplicate, corrupt, loss, start, stop, restart, delete all | the docker daemon and `tc` in the containers |
| network generator, log parser, R scripts, compose files | none that outlives a run | fixed data, one pass of text | |

What makes them right, and what makes it hard:

* *Coins.* The store forgets what was spent, so that no outpoint is spent twice
  rests on hashes alone, over any sequence of blocks and two kinds of new coin,
  outputs and rewards. Signatures, sums and the fee pass through several integer
  widths. The reward of a block depends on the order of three pallets' hooks.
* *Pool.* It keeps what the runtime said of a transaction when it came, while
  blocks change the state it was said of. The proposer has nothing else to go
  by: tags that the runtime makes of missing outpoints and of outputs, in loops
  that are not those which store them. A payment with missing inputs is not
  checked for its value until dispatch; one that dispatch refuses is in a block
  for good. Blocks are built on copies of a state that are given up again.
* *Difficulty.* A control loop in integer arithmetic: it must stay in its limits,
  never divide by zero, go the right way and not be held by rounding.
* *Proof of work.* Difficulty is read from the parent's state by the miner and,
  later and elsewhere, by whoever imports the block, while heads move.
* *Simulator.* Threads share `networks` and `currentTimers` without locks and
  call docker between looking at them and changing them; a command, a join or a
  cut may fail half way; the main thread joins all the others.

## 2. The modules

| module | models | code |
|---|---|---|
| `Transactions` | values, outputs, transactions, signatures, keys of the store | `utxo.rs` |
| `Utxo` | storage and operations of the UTXO pallet | `utxo.rs` |
| `BlockAuthor` | the author of a block | `block_author.rs` |
| `Issuance` | `BitcoinHalving` with the shift of a `u32` | `issuance.rs` |
| `Runtime` | blocks: initialise, claims, spends, finalise. Composes the three above | `lib.rs` |
| `CoinLedger` | abstract: a coin is created once, consumed at most once and never seen again | |
| `Runtime_proofs` | theorems about `Runtime` | |
| `SumTheorems` | lemmas on sums over finite sets, for the three below | |
| `Supply_proofs` | theorems about the sums of `Runtime` | |
| `ChainSpec` | both chain specifications, and what the command line chooses | `chain_spec.rs`, `command.rs` |
| `TxPool` | the transaction pool and its proposer's view of it (external) | `service.rs:66,144` |
| `Node` | a node: its best block, its pool, own blocks and those of peers. Composes `Runtime`, `TxPool`, `ChainSpec` | `service.rs`, `lib.rs:304-367` |
| `Node_proofs`, `NodeSupply_proofs` | theorems about `Node`, and about the sums of `Runtime` on a node | |
| `Difficulty`, `Difficulty_proofs` | the difficulty pallet and its theorems | `difficulty.rs` |
| `Sha3Pow` | `hash_meets_difficulty`, `Compute`, seals, `mine`, `verify` | `sha3pow/src/lib.rs` |
| `PowChain`, `PowChain_proofs` | nodes that mine, fork and exchange blocks | `service.rs`, libraries |
| `Docker` | the docker daemon, as far as the simulator calls it (external) | |
| `NetworkActions` | network, netem and container actions as steps of threads | `networkActions.py`, `containerActions.py` |
| `TimerActions` | the shared table of timers | `timerActions.py` |
| `EventEngine` | threads of events, the main thread. Composes the two above | `main.py`, `eventWorker.py`, `executeAction.py` |
| `EventOrder` | abstract: events begin after their dependencies, once, and change the world in between | |
| `EventEngine_proofs` | theorems about `EventEngine` | |
| `MCRuntime`, `MCNode`, `MCEventEngine`, `MCPowChain` | the instances that TLC checks | |

Modules that stand beside each other share variables through `EXTENDS`, as the
pallets share one state and the threads one process. Operators whose comment
begins with "Mutant" are what a plausible bug would turn the next definition
into; they serve to see that the properties notice it, nothing else uses them.

### Runtime

`utxoStore`, `rewardTotal`, `author` are the storage items; `blockNumber`,
`building`, `spendsInBlock` what `frame_executive` keeps of the block; `spent`
and `claims` are history variables that no guard reads.

| action | code |
|---|---|
| `InitializeBlock` | `initialize_block`, which runs `block_author::on_initialize` |
| `SetAuthor` | `apply_extrinsic` of `set_author`: refused if an author is set or the origin is signed |
| `Spend` | `apply_extrinsic` of `spend`: `validate_transaction`, then the check on missing inputs, then `update_storage` |
| `FinalizeBlock` | `finalize_block`, which runs `utxo::on_finalize`: the reward is dispersed, or kept if there is no author |

Calls that fail leave the state as it was and are not steps here; in `Node` they
take weight. A Blake2 hash is
modelled as the record that is hashed: the three things the pallet hashes are
encoded with different lengths, so equality of hashes is equality of records. A
signature is its signer and a salt, because sr25519 makes many signatures of one
message. Sums are sums of naturals and a checked addition fails when the sum is
no `Value`; the unchecked one in `disperse_reward` wraps, as in a release build.

### Node

`head` is the state of the best block; the variables of `Runtime` are the copy a
block is built on, and `AtHead` is the runtime called on `head`, through
`INSTANCE`. `pool` and `proposal` hold what the runtime said of each payment,
its `requires` and its priority; `stage` is what is being built; `included`,
`failed`, `strangers` and `ownBlocks` are records of what happened.

| action | code |
|---|---|
| `Submit`, `Revalidate` | the runtime API `validate_transaction` on the best block, and the pool keeps the answer; the pool validates ready entries again after a block |
| `Drop` | the pool removes an entry, for its own reasons |
| `Propose` | `start_mine` and `ProposerFactory`: an authority begins a block with the ready part of the pool |
| `PushInherents` | `build_inherent_data_providers`, `create_inherent`, then `set_author` |
| `Push` | the proposer takes an unlocked entry of the highest priority and applies it, with effect (`Spend`) or without (`Refuse`) |
| `ImportOwn` | the proposer stops (after two seconds, at any point here), a seal is found, the block becomes the best one and the pool is pruned |
| `Abandon` | no seal, or another best block: the copy is forgotten |
| `PeerBegins`, `PeerClaims`, `PeerApplies`, `ImportPeer` | `execute_block` of a block of a peer, which claims it where and with the key it likes |

An entry is ready when everything it requires is provided by ready entries;
pruning removes the tags of the block's transactions, of all of them or of those
the pool had seen, since the library does not know the tags of others. Here every
new best block is a child of the last one; forks are in `PowChain`.

### Difficulty

One action, the hook. Entries keep the delay since the entry before, all that
the hook uses of timestamps. `MaxU128` and `MaxU256` bound the two widths.

### Sha3Pow and PowChain

`Sha3_256` is a constant operator: what is checked for one and proved for every
digest. `mine` is the set of outcomes of one call: a seal that meets the
difficulty, or nothing if some nonce does not. `difficulty`, `verify` and `mine`
are translated; the mining loop, `PowBlockImport`, the select chain and the
network are libraries and modelled from how `service.rs` wires them: `aux` is the total
difficulty of each imported block, a block becomes the best if it is heavier, a
call of `mine` that finds nothing starts over if the head moved. An import is
one step. A header carries the difficulty its block leaves in the state, any of
a set: the chain model over-approximates what the difficulty pallet computes.

### Simulator

`pc` and `frame` hold where each thread is and its locals. A step of a thread is
one docker command, or one line that reads or writes what threads share, and
what follows in the thread's own locals; so between a docker command and the line
that enters its result in the table, between a test of the table and a read of
it, and between two lists of interfaces any other thread may go. The one line
that touches shared state more than once is `networkActions.py:140`, which looks
the network up, notes that it has no effect yet and lists the interface
(lines 22-24): `ListInterface` does so at once. The last two are told apart by
nobody, since effects read the interface first and the note afterwards; a cut of
the same network between the lookup and the rest would leave an entry in an object
that is in no table any more, where the model's thread ends; that takes a join and
a cut of one network at once, of which only `colliding` has any, for the end of its
threads. The tear-down runs when no other thread is left, so `deleteAllNetworks`
is one step. `objects` holds `Network` objects by reference, since a thread may keep
one that has left the table. `Docker` says which commands fail (a network that
is there, an endpoint that is not) and that containers lose their interfaces
when they stop; containers start without networks, as the simulator's README
advises. The lists of a configuration are not empty, and a row of one container
joins nothing. What a configuration may keep to so that its events do not meet
at a network or a container, `OneAtATime` and `Orderly`, is in `EventEngine`; the
code checks none of it, TLC evaluates which of the configurations in
`MCEventEngine` do (`KeptApart`). `main` is the main thread: it joins all others, then tears down.
`EventOrder` is what all of this is to implement: `world` are the containers and
networks, and only an event that has begun and not ended, or the tear-down after
all of them, may change it.

## 3. The runs

| run | properties | expected |
|---|---|---|
| `ledger` | `TypeOK`, `NoDoubleSpend`, `RewardsMatchClaims`, `RewardNeverOverflows`, `ImplementsCoinLedger` | hold |
| `payments` | `EveryInputSigned`, `SpendCreatesNoValue`, `SupplyConserved` | hold |
| `two_signatures` | `SpendCreatesNoValue` | violated |
| `pool` | `NodeTypeOK`, `NoneTooEarly`, `WaitsForMissing`, `OwnBlocksPay`, `SpendCreatesNoValue`, `SupplyConserved` | hold |
| `halvings` | `IssuanceNeverIncreases` | violated |
| `pace` | `TypeOK`, `WithinClamp`, `Dampened`, `FollowsPace`, `LateChainGetsEasy` | hold |
| `stuck` | `MinimumIsLeft` | violated |
| `forks` | `SealsAreGood`, `WorkIsReal`, `BestIsHeaviest`, `Agreement` | hold |
| `ordered` | `DependenciesActFirst`, `TableMatchesDocker`, `EffectsHitTheirNetwork`, `NoArtifactsLeft`, `RunEnds`, `ImplementsEventOrder` | hold |
| `colliding` | `RunEnds` | holds |
| `twins` | `NoArtifactsLeft` | violated |
| `abort` | `RunEnds` | violated |

* **ledger** (two keys, two blocks of up to three spends, one input, two
  outputs): a coin is split, its parts spent again within the block and after,
  rewards are paid and spent. Values are small enough for the interesting
  boundaries to be met: fees exceed `PriorityModulus` and together `MaxValue`,
  and without the limit on a block's spends the addition of the reward wraps. `ImplementsCoinLedger` is the
  refinement: `live` is the domain of the store.
* **payments** (two owners, two inputs, two blocks of two spends, a halving
  between): inputs of two owners, missing inputs, the same outpoint twice. It
  assumes one signature per key and message and fees that fit a priority;
  `two_signatures` drops the first and finds the property false, for the second
  see the end of section 4. Its fees are also kept over a block without an
  author, which `SupplyConserved` covers.
* **pool** (the genesis of `--dev`, two blocks of up to two extrinsics, five
  payments: two that spend one coin, one that needs an output of the first and a
  coin, one that overspends that output, one that spends a reward before it is
  paid; a peer that may include any of them, refused or not, and claim any
  block). Two blocks are the least in which an entry outlives the state it was
  validated on; two extrinsics the least that make an order within a block.
* **pace** (a window of three, delays from zero to far too late, difficulties
  from 3 to 24): all windows of such delays, among them the first ones, which
  are filled with defaults and whose first block has no predecessor. Three is the
  least window that has a predecessor, a middle and an end. `Dampened` is the
  tighter bound upwards, `WithinClamp` the one downwards; both are about windows
  in which miners choose every timestamp.
* **forks** (two miners, two blocks above the genesis on each branch, two
  nonces, eight digests, difficulties 2 and 3): two blocks are enough for one
  of two equally long branches to be heavier, for a seal to arrive after the head has
  moved, for own blocks to lose, and for a seal to meet one difficulty and not
  the other. A block may also come with a seal that was not made for it.
* **ordered** (three containers, eight events): two joins at once, that look for
  names and create networks beside each other, of which one finds its container
  stopped and the other may fail to connect and closes a ring of two, so that it
  joins the same list twice. Then a cut of one network runs beside an effect on
  it, the start of the other's container, and a timer that is stopped while
  it is printed; the other network is cut beside a restart; at last a container
  is joined again and effects are put on a network that may be there or not, in
  an event whose command may fail. `RunEnds` holds although threads die of a
  `KeyError` or a failed command, because nothing waits for those.
* **colliding** (two containers, four events): two events cut a network while a
  third joins it anew and makes another one of the same name. The table does not
  survive this, which `ordered` rules out; the threads do, so that here they die in
  places where they can not in `ordered`.
* **twins**, **abort**: the two least configurations that go wrong.

`CHECK_DEADLOCK FALSE` is set where the model stops by its bounds or the program
by its end: after the last block, at the last block number, after the tear-down.

**Fairness.** `Spec` has none; it is added where a property needs it.
`LateChainGetsEasy` assumes that blocks go on being mined (`WF` of the hook).
`Agreement` assumes that what one node has reaches every other (`WF` of
`Deliver` for each node); nothing is assumed of mining, which the bound on block
numbers stops. `RunEnds` assumes that each thread is scheduled and the commands
it calls return (`WF` of each worker and of the main thread); every thread is an
operating system thread and docker's commands are synchronous.

## 4. Where the code and its documentation differ

1. `two_signatures`: repeated inputs are found by comparing whole inputs
   (`utxo.rs:162`); one outpoint under two valid signatures counts twice.
   `utxo.rs:149,151` promises otherwise.
2. `halvings`: a `u32` is shifted by up to 63 (`issuance.rs:42`); from the 32nd
   halving on a release build pays 50 again.
3. `stuck`: at the runtime's parameters the minimum difficulty of 3 is left by
   no window of fast blocks: `60*3*3000 div 139666 = 3`.
4. `twins`: two events that join the same containers leave a network behind.
5. `abort`: an event whose command fails keeps its dependants, and the
   tear-down, waiting for ever.

Noted and not checked. Of the simulator, first, what `Orderly` (section 5) excludes
and nothing in the code does:

* two events that connect one container at once are told apart by lists of
  interfaces, and the last new one is taken (`networkActions.py:137`): a network may be
  entered with the interface of the other;
* a container that is connected while it is being cut from another network may get
  the interface that docker has freed (line 160) and the table still lists (line 162),
  and an effect that runs beside both hits the network it is not for;
* a container that leaves one of its networks and is restarted has its interfaces
  numbered anew, while the table keeps the old number, which the next join may get.

Of two events that join different containers at once one may find its name
taken (`networkActions.py:183,189`) and its join comes to nothing, as happens in
`ordered`; the simulator's README says that a join creates a network. The events of
`examples/network.yaml` are of this kind: it writes `dependsOn`, which
`eventWorker.py:17` does not read, so that they start together, and two of them
connect `Node3`. The README says
that the `do`-block runs after a command that returned 1 while the code goes on
after 0.

Of the chain: a block without an author keeps its fees for a later one
(`utxo.rs:121`), while the doc of `RewardTotal` says dispersed at finalisation
(`utxo.rs:89`) and the event says wasted (`utxo.rs:135`); fees pass through a `u64` priority (`utxo.rs:214`), so of
a fee of 2^64 or more the high bits are neither paid nor kept, which both genesis
lists, of 200 units, are far from; a reward has no tag, so a payment that was
submitted before the reward it spends is not promoted in the pool when it is
paid (`WaitsForMissing` excepts it); a window of 60 entries has 59 delays and is compared with
60 block times (`FollowsPace` is stated with this in mind); two equal entries of
the genesis list become one coin; a reward of zero is stored as a coin
(`utxo.rs:256`) although no output may be zero.

## 5. What is proved

TLAPS checks these for all keys, values, genesis lists, digests, delays and
bounds that satisfy the named assumptions next to the constants.

* **Runtime** (`Runtime_proofs`). `NoDoubleSpend` alone is not inductive: a
  spend might make a key that was spent long ago. `IInv` adds `Lineage` (a
  transaction whose output is or was a coin has consumed all its outpoints),
  so a transaction that applies, whose outpoints are live, can not have
  applied before and its keys are new; `RewardBlocks`, so that the reward of
  this block is new; `AddressedByContent`, which ties stored coins to keys and
  gives `EveryInputSigned`; `AuthorIsClaim`, which ties the author to the
  first claim and gives `RewardsMatchClaims`. From `Invariance` follow
  `TypeCorrect`, `DoubleSpendImpossible`, `OwnersSign`, `OneRewardPerClaim`
  and, with `SpendEffect` and `RewardEffect`, `Refinement`: every step is a
  `Transfer`, a `Mint` or a stutter of `CoinLedger`.
* `AdditionNeverWraps`: under `FeesFit`, that all narrowed fees a chain of
  these bounds can collect fit a value together with the largest subsidy, the
  unchecked addition stays in range. `FeeBudget` is the invariant: what is in
  `RewardTotal` is at most the spends so far times the widest priority. In the source
  2^32 blocks of fewer than 2^15 spends and fees below 2^64 stay below 2^112, of 2^128.
* **Sums** (`SumTheorems`). The library's `SumFunctionOnSet` is a fold, that is a
  recursive function on the subsets of a set. What such a function computes needs
  an induction, and the library's induction theorems take an operator. So the
  property is given as a set instead, that of the subsets that have it
  (`SubsetInduction`, from the well-foundedness of strict inclusion). `SumsExist`
  shows that the recursion defines a function; then sums are split, renamed, scaled
  and compared like any others.
* **Supply** (`Supply_proofs`). `SInv` says that coins and fees are genesis and
  the subsidies of the blocks that paid, as long as no applied transaction listed
  an outpoint twice, `NoneTwice`. Three things make a step keep it. `InputsCountOnce`:
  without doubles the sum over inputs is a sum over coins of the store.
  `OutputsCountOnce`: by `Lineage` the outputs are new keys, so none of them
  overwrites a coin. And the narrowed fee is the fee and the wrapped reward the
  reward, because both are part of a supply that fits (`SupplyBounded`, `RewardWhole`).
  `ValueOnlyMadeByListingTwice` needs no assumption at all: `two_signatures`
  is the only way in which value is made. The others assume what they name:
  `OneSignature`, that a key makes one signature of a message, which that
  run shows to be needed and which `NoneTwice` follows from; `GenesisDistinct`,
  that no two entries of the genesis list are equal; `SupplyFits`, that the whole
  supply fits a value and a priority, in the source 200 and
  at most 2^32 blocks of at most 50 against 2^128 and 2^64. `RewardsAreWhole` is
  `AdditionNeverWraps` from the supply instead of a bound on the spends.
* **Difficulty** (`Difficulty_proofs`). `PInv` says of the difficulty that it is
  what the hook makes of the window, at every block since genesis. Two lemmas on
  the quotient then serve all three theorems: an average that is
  multiplied and divided by about the same does not pass its greatest and least
  entry by more than that ratio (`HarderAtMost` and its counterpart). For
  `DifficultyFollowsPace` the ratio is one: for late windows the divisor is no
  less than the goal, for early ones no more (`DivisorMonotone`, `DivisorOfGoal`).
  `ClampHolds` and `DampingHolds` assume what they need of rounding,
  `ClampIsWhole` and `DampIsWhole`: that the least divisor is at least the window
  over `ClampFactor`, and at least what dampening leaves of it. In the source it
  is 120000 of 180000, `ClampFactor` is 2 and `DampFactor` 3: both hold, the second
  with nothing to spare. `AdjustedPositive`: the hook never divides by zero.
* **PowChain** (`PowChain_proofs`). `IInv` says of each node that its totals
  add up along parents, its best block is the heaviest, its blocks verify, and
  its job is on a block it has, at that block's difficulty, with a seal that
  `mine` may return. `ImportKeeps` is the step common to three actions;
  `MinedVerifies` is the fact about the algorithm: what `mine` returns `verify`
  accepts. Then `SealedBlocksAreValid`, `TotalDifficultyIsWork`,
  `HeaviestIsBest`, and the lemma `LowerIsEasier`.
* **Node** (`Node_proofs`). `NInv` says `IInv` of the block being built and, by
  `AtHead`, of the best block; `BlockInv` that the first differs from the second
  by the outputs of included transactions alone; `WholeTransactions` that a
  transaction takes effect with all its outputs; `Tagged` that an outpoint an
  entry does not require was a coin of the best block or is a tag of a
  transaction that failed; `OwnInv` that the node claims its blocks before it
  fills them. `NeverTooEarly` follows: an outpoint that an entry misses and an
  earlier entry provides was, by `Tagged`, a coin before, so by `Lineage` the
  transaction it comes from has applied and cannot go through again. Of a step of
  the runtime it uses the lemmas of `Runtime_proofs`; `HeadStays`, `HeadBecomes`
  and `HeadReturns` carry `IInv` between the two states. Also proved:
  `NothingWaitsForCoins`, `OwnBlocksArePaid`, and that `NoDoubleSpend` and
  `EveryInputSigned` survive refused payments, abandoned blocks and peers.
* **Sums on a node** (`NodeSupply_proofs`). `NSInv` adds to `NInv` and `SInv` that
  the books of `head` balance. A step of a node is one of the runtime on the copy,
  a refusal, the import of the finalised copy, or its loss (`NodeSteps`), and the
  copy that is lost is replaced by a state that balances. `NodePaymentsAreCovered`
  and `NodeConservesValue` follow under the hypotheses above.
* **EventEngine** (`EventEngine_proofs`). `OInv` ties flags to labels. A step inside
  an action `Moves` its own label, never back to the start or to the end, and
  only a `KeyError` ends it, without touching docker (`NetworkMoves`,
  `TimerMoves`, `DoMoves`: one case for each function). Then `DependenciesFirst`
  and `OrderRefinement`, for any configuration and whatever docker does.
* **The table of networks** (`EventEngine_proofs`). `TInv` says that the table
  and docker match but for the keys in `Stale`, of networks that some thread has removed from
  docker and not yet from the table (`Matching`), and what a thread found in the table
  when it called docker is still so when docker answers (`Calling`). The second is
  false of `twins`. It holds under `OneAtATime`: of two
  events that join the same containers, or cut the same network, one waits for
  the other; then by `OInv` they are never under way together. From
  it `TableIsDockers` and `NothingIsLeft`, in spite of commands that fail, of joins
  and cuts that fail half way, and of names that several threads choose.
* **Interfaces** (`EventEngine_proofs`). `LInv` adds what the table says of
  interfaces. `Listed`: the interface held for a container is one of that network
  as long as the container runs (`Linked`), or a thread is between `docker network
  disconnect` and the line that forgets it, and it is gone (`Leaving`). A thread
  finds an interface by comparing lists before and after, so `Watching`
  says that nothing else appears in the container in between, and `Naming` that the
  name under which the thread attaches still means its own network. A start gives a
  container its interfaces anew under other numbers, so no start may come once it is
  listed (`Settled`), or it has to be off until then (`StaysOff`). An effect holds
  what it read across docker commands of others: `Aiming` says that its interface
  is still one of its network, or is gone and has not been given out again. That
  last part is what the freed interface of a cut takes: nobody may connect the
  container until the cut and the effect are over. So `Orderly` asks of a
  configuration that an event that joins a container waits for every other that
  joins it, cuts it or puts an effect on it, or the other way round; and that who
  starts it comes before, does so itself, or finds it stopped till later. Cuts and
  effects, joins of different containers, and all else may run at once. `ordered`
  and the three `examples/example-*.yaml` keep to it; `OneAtATime` holds of all
  four examples.

The inductive invariants were model-checked before they were proved, `TInv` and
`LInv` on `ordered`.

**Only model-checked.** `LateChainGetsEasy`, `Agreement` and `RunEnds` are liveness
under fairness, out of the provers' reach; all other properties of passing runs are
proved. That `GenesisDistinct`, `SupplyFits`, `ClampIsWhole`, `DampIsWhole` and `FeesFit` hold of the source's
constants and genesis lists is the arithmetic above, no check of a tool; that
`ordered` is `Orderly` and `twins` is not even `OneAtATime` is evaluated by TLC (`KeptApart`).
Nothing in the code enforces `OneSignature`, `OneAtATime` or `Orderly`; the runs
`two_signatures` and `twins` show what happens without the first two, section 4
what may without the third.

## 6. Not modelled

* Balances, sudo and system calls: they touch no state of the pallets above.
* Reorganisations in `Node`: a new best block is a child of the last one. The
  transactions of a branch that is left would come back to the pool as new
  submissions; which branch is left is `PowChain`'s subject.
* Of the pool: bans, limits, longevity (`utxo.rs:215` says for ever), the time a
  validation takes, and tags it remembers of blocks before a transaction came.
  `Submit` and `Revalidate` act on the best block in one step, and an entry is
  dropped at any time instead of for a reason.
* That a payment is included at last: a proposer may be stopped by its two
  seconds, and a miner may never find a seal, so no fairness would be justified.
* The timestamp inherent: the difficulty pallet's delays stand for it.
* The light client: the import again, without miner and proposer.
* The codec's errors of the inherent (`block_author.rs:76-104`, `131-136`): the
  one provider writes what the one reader decodes.
* Difficulty along forks: a header of `PowChain` carries any of a set of
  difficulties, which includes what the pallet would compute.
* `netGen.java`, `retrieve_Addresses.java`, `parseLogs.java`, the R scripts, the
  shell scripts and compose files: text in one pass, random choices, layout; no
  state and nothing that runs beside it.

## 7. Possible extensions

1. `PowChain` with the window of the difficulty pallet along each branch, to
   bound how much lighter a branch of early timestamps can be.
2. `Node` above `PowChain`'s forks, with the transactions of a branch that is
   left returning to the pool.
3. Networks that are created `internal` or with options, and effects on a
   container that was restarted, whose `netem` is gone while the table says it is there.
