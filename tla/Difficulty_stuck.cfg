\* The parameters of the runtime, and blocks as fast as the timestamp pallet allows.
SPECIFICATION Spec
CONSTANTS
    DIFFICULTY_ADJUST_WINDOW = 60
    TargetBlockTime = 3000
    DampFactor = 3
    ClampFactor = 2
    MaxDifficulty = 1000
    MinDifficulty = 3
    InitialDifficulty = 3
    MaxU128 = 1000000000
    MaxU256 = 1000000000
    None = None
    MinimumPeriod = 1000
    Delays = {1000}
INVARIANT MinimumIsLeft
