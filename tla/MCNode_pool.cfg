\* Payments that depend on each other, conflict, overspend or come too soon.
SPECIFICATION NodeSpec
CONSTANTS
    alice = alice
    bob = bob
    aliceStash = aliceStash
    bobStash = bobStash
    signature = signature
    get_from_seed <- MCKey
    from_json_file <- NoFile
    issuance <- BitcoinHalving
    HALVING_INTERVAL = 52500
    INITIAL_ISSUANCE = 50
    Pubkeys = {alice, bob}
    Salts = {signature}
    MaxValue = 10000
    PriorityModulus = 10001
    SubmittedValues = {50, 100, 150}
    MaxInputs = 2
    MaxOutputs = 1
    GenesisUtxos <- DevelopmentUtxos
    MaxBlock = 2
    MaxSpends = 2
    PeerKeys = {alice}
    Payments <- MCPayments
    role = "authority"
    sr25519_public_key = {bob}
    default_sr25519_public_key = alice
INVARIANTS
    NodeTypeOK
    NoneTooEarly
    WaitsForMissing
    OwnBlocksPay
    SpendCreatesNoValue
    SupplyConserved
CHECK_DEADLOCK FALSE
