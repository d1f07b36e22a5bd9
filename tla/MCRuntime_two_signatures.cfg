\* A key signs one message in two ways.
SPECIFICATION Spec
CONSTANTS
    alice = alice
    bob = bob
    firstSignature = firstSignature
    secondSignature = secondSignature
    issuance <- BitcoinHalving
    HALVING_INTERVAL = 2
    INITIAL_ISSUANCE = 1
    Pubkeys = {alice}
    Salts = {firstSignature, secondSignature}
    MaxValue = 15
    PriorityModulus = 16
    SubmittedValues = {1, 12}
    MaxInputs = 2
    MaxOutputs = 1
    GenesisUtxos <- OneCoin
    MaxBlock = 1
    MaxSpends = 1
INVARIANT SpendCreatesNoValue
CHECK_DEADLOCK FALSE
