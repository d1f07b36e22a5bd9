\* A halving every block, with the subsidy of the source.
SPECIFICATION Spec
CONSTANTS
    alice = alice
    bob = bob
    firstSignature = firstSignature
    secondSignature = secondSignature
    issuance <- BitcoinHalving
    HALVING_INTERVAL = 1
    INITIAL_ISSUANCE = 50
    Pubkeys = {}
    Salts = {firstSignature}
    MaxValue = 63
    PriorityModulus = 64
    SubmittedValues = {}
    MaxInputs = 0
    MaxOutputs = 0
    GenesisUtxos <- Nothing
    MaxBlock = 70
    MaxSpends = 0
INVARIANT IssuanceNeverIncreases
CHECK_DEADLOCK FALSE
