\* Payments that join coins of two owners, one signature for each key and message.
SPECIFICATION Spec
CONSTANTS
    alice = alice
    bob = bob
    firstSignature = firstSignature
    secondSignature = secondSignature
    issuance <- BitcoinHalving
    HALVING_INTERVAL = 2
    INITIAL_ISSUANCE = 1
    Pubkeys = {alice, bob}
    Salts = {firstSignature}
    MaxValue = 7
    PriorityModulus = 8
    SubmittedValues = {1, 2}
    MaxInputs = 2
    MaxOutputs = 1
    GenesisUtxos <- TwoCoins
    MaxBlock = 2
    MaxSpends = 2
INVARIANTS
    EveryInputSigned
    SpendCreatesNoValue
    SupplyConserved
CHECK_DEADLOCK FALSE
