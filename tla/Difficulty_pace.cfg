\* A window of three blocks that come early, in time, late and far too late.
SPECIFICATION FairSpec
CONSTANTS
    DIFFICULTY_ADJUST_WINDOW = 3
    TargetBlockTime = 3
    DampFactor = 3
    ClampFactor = 2
    MaxDifficulty = 24
    MinDifficulty = 3
    InitialDifficulty = 12
    MaxU128 = 65535
    MaxU256 = 65535
    None = None
    MinimumPeriod = 0
    Delays = {0, 3, 6, 40}
INVARIANTS
    TypeOK
    WithinClamp
    Dampened
    FollowsPace
PROPERTIES
    LateChainGetsEasy
