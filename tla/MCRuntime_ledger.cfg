\* Coins split, spent again and paid as rewards, with fees wider than a priority.
SPECIFICATION Spec
CONSTANTS
    alice = alice
    bob = bob
    firstSignature = firstSignature
    secondSignature = secondSignature
    issuance <- BitcoinHalving
    HALVING_INTERVAL = 3
    INITIAL_ISSUANCE = 1
    Pubkeys = {alice, bob}
    Salts = {firstSignature}
    MaxValue = 19
    PriorityModulus = 4
    SubmittedValues = {1}
    MaxInputs = 1
    MaxOutputs = 2
    GenesisUtxos <- LargeCoins
    MaxBlock = 2
    MaxSpends = 3
INVARIANTS
    TypeOK
    NoDoubleSpend
    RewardsMatchClaims
    RewardNeverOverflows
PROPERTIES
    ImplementsCoinLedger
CHECK_DEADLOCK FALSE
