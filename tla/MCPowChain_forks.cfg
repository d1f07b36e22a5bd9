\* Two miners, up to two blocks above the genesis on every branch.
SPECIFICATION FairSpec
CONSTANTS
    m1 = m1
    m2 = m2
    Nodes = {m1, m2}
    Authorities = {m1, m2}
    Sha3_256 <- MCSha3
    HashSpace = 8
    Nonces = {0, 1}
    Difficulties = {2, 3}
    InitialDifficulty = 2
    MaxNumber = 2
INVARIANTS
    SealsAreGood
    WorkIsReal
    BestIsHeaviest
PROPERTIES
    Agreement
CHECK_DEADLOCK FALSE
