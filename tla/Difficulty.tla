----------------------------- MODULE Difficulty -----------------------------
(***************************************************************************)
(* The difficulty adjustment pallet, src/runtime/src/difficulty.rs.  At    *)
(* the end of every block it shifts a window of past difficulties and      *)
(* timestamps and computes the difficulty of the next block from it.       *)
(*                                                                         *)
(* Only the differences of consecutive timestamps are used, so an entry    *)
(* keeps the delay since the entry before it and not the time of day.      *)
(***************************************************************************)
EXTENDS Integers, FiniteSets, Functions

CONSTANTS
    DIFFICULTY_ADJUST_WINDOW,
    TargetBlockTime, DampFactor, ClampFactor, MaxDifficulty, MinDifficulty,
    InitialDifficulty,  \* from the genesis configuration
    MaxU128, MaxU256,   \* the largest numbers of the two widths
    None,               \* no entry
    MinimumPeriod,      \* the timestamp pallet's least delay between blocks
    Delays              \* bound: the delays between two blocks

VARIABLES
    past,               \* PastDifficultiesAndTimestamps, from earliest to latest
    currentDifficulty   \* CurrentDifficulty

vars == <<past, currentDifficulty>>

Window == 1 .. DIFFICULTY_ADJUST_WINDOW

Entry == [difficulty : Nat, delay : Nat]

ASSUME DifficultyAssumption ==
    /\ DIFFICULTY_ADJUST_WINDOW \in Nat \ {0, 1}
    /\ TargetBlockTime \in Nat \ {0}
    /\ DampFactor \in Nat \ {0}
    /\ ClampFactor \in Nat \ {0}
    /\ ClampFactor <= DIFFICULTY_ADJUST_WINDOW * TargetBlockTime
    /\ MaxDifficulty \in Nat /\ MinDifficulty \in 0 .. MaxDifficulty
    /\ InitialDifficulty \in Nat
    /\ MaxU128 \in Nat /\ MaxU256 \in Nat
    /\ None \notin Entry
    /\ MinimumPeriod \in Nat
    /\ Delays \subseteq Nat /\ \A d \in Delays : d >= MinimumPeriod

Init ==
    /\ past = [i \in Window |-> None]
    /\ currentDifficulty = InitialDifficulty

-----------------------------------------------------------------------------
least(a, b)    == IF a <= b THEN a ELSE b
greatest(a, b) == IF a >= b THEN a ELSE b

\* Mutant: the value goes to its goal at once.
undamped(actual, goal, damp_factor) == actual

\* Move a value linearly toward a goal.
damp(actual, goal, damp_factor) == (actual + (damp_factor - 1) * goal) \div damp_factor

\* Mutant: the value is not limited.
unlimited(actual, goal, clamp_factor) == actual

\* Limit a value to be within some factor from a goal.
clamp(actual, goal, clamp_factor) ==
    greatest(goal \div clamp_factor, least(actual, goal * clamp_factor))

\* Mutant: the timestamps are subtracted the wrong way round.
shifted_backwards(delay) ==
    [i \in Window |->
       IF i < DIFFICULTY_ADJUST_WINDOW
       THEN past[i + 1]
       ELSE [difficulty |-> currentDifficulty, delay |-> 0 - delay]]

\* The window when a block ends that came `delay` after the one before it.
shifted(delay) ==
    [i \in Window |->
       IF i < DIFFICULTY_ADJUST_WINDOW
       THEN past[i + 1]
       ELSE [difficulty |-> currentDifficulty, delay |-> delay]]

\* Mutant: the first block counts the time since the genesis.
delta_unpaired(data, i) ==
    IF data[i] # None THEN data[i].delay ELSE TargetBlockTime

delta(data, i) ==
    IF data[i - 1] # None /\ data[i] # None THEN data[i].delay ELSE TargetBlockTime

ts_delta(data) ==
    greatest(1, SumFunction([i \in Window \ {1} |-> delta(data, i)]))

diff_sum(data) ==
    greatest(MinDifficulty,
             SumFunction([i \in Window |-> IF data[i] # None THEN data[i].difficulty
                                                              ELSE InitialDifficulty]))

adjustment_window == DIFFICULTY_ADJUST_WINDOW * TargetBlockTime

adj_ts(data) ==
    clamp(damp(ts_delta(data), adjustment_window, DampFactor),
          adjustment_window, ClampFactor)

\* Mutant: the quotient is rounded up.
retarget_up(data) ==
    least(MaxDifficulty,
          greatest(MinDifficulty,
                   (diff_sum(data) * TargetBlockTime) \div adj_ts(data) + 1))

retarget(data) ==
    least(MaxDifficulty,
          greatest(MinDifficulty,
                   (diff_sum(data) * TargetBlockTime) \div adj_ts(data)))

\* The hook on_finalize; arithmetic that leaves its width would abort the block.
OnFinalize(delay) ==
    LET data == shifted(delay)
    IN  /\ ts_delta(data) \in 0 .. MaxU128
        /\ diff_sum(data) * TargetBlockTime \in 0 .. MaxU256
        /\ past' = data
        /\ currentDifficulty' = retarget(data)

Next == \E delay \in Delays : OnFinalize(delay)

Spec == Init /\ [][Next]_vars

\* Blocks go on being mined.
FairSpec == Spec /\ WF_vars(Next)

-----------------------------------------------------------------------------
\* The type of the state; a delay is never negative (saturating_sub,
\* difficulty.rs:88).
TypeOK ==
    /\ past \in [Window -> Entry \cup {None}]
    /\ currentDifficulty \in Nat

\* Of the blocks of the window, those whose predecessor is in it too: the first
\* block that was recorded has none, however long the chain had been standing.
Measured == {i \in Window \ {1} : past[i - 1] # None /\ past[i] # None}

\* What the entries of the window count for; an empty one is the genesis.
Difficulties ==
    {IF past[i] # None THEN past[i].difficulty ELSE InitialDifficulty : i \in Window}

Begun == past[DIFFICULTY_ADJUST_WINDOW] # None

\* The clamp holds from one window to the next block, a window that is still
\* filling included: a miner who makes time stand still or run away moves the
\* difficulty by no more than ClampFactor.
WithinClamp ==
    Begun =>
        /\ \E d \in Difficulties :
              currentDifficulty <= greatest(d, MinDifficulty) * ClampFactor
        /\ \E d \in Difficulties :
              currentDifficulty >= least(d \div ClampFactor, MaxDifficulty)

\* Dampening is what bounds a chain whose blocks come all at once: the next is
\* harder by one part in DampFactor - 1 at most, well within the clamp.
Dampened ==
    Begun => \E d \in Difficulties :
                currentDifficulty * (DampFactor - 1) <= greatest(d, MinDifficulty) * DampFactor

\* Blocks that all come late, by more than their share of the block that has no
\* predecessor, do not make the next block harder than the hardest of the window;
\* blocks that come in time do not make it easier than the easiest.  While the
\* window fills, its empty entries and its first block take part in neither.
FollowsPace ==
    Begun =>
        /\ (/\ Measured # {}
            /\ \A i \in Measured : past[i].delay * Cardinality(Measured)
                                    >= (Cardinality(Measured) + 1) * TargetBlockTime)
           => \E d \in Difficulties : currentDifficulty <= greatest(d, MinDifficulty)
        /\ (\A i \in Measured : past[i].delay <= TargetBlockTime)
           => \E d \in Difficulties : currentDifficulty >= least(d, MaxDifficulty)

Full == \A i \in Window : past[i] # None

Late == Full /\ \A i \in Window \ {1} : past[i].delay >= 2 * TargetBlockTime

\* A chain whose blocks stay late gets as easy as it may: rounding never stops
\* the difficulty on its way down.
LateChainGetsEasy == <>[]Late => <>[](currentDifficulty = MinDifficulty)

\* "minimum difficulty avoids getting stuck due to dampening" (difficulty.rs:121):
\* a chain at the least difficulty whose blocks come as fast as the timestamp
\* pallet allows gets harder.
MinimumIsLeft ==
    (Full /\ \A i \in Window : /\ past[i].difficulty = MinDifficulty
                               /\ past[i].delay = MinimumPeriod)
      => currentDifficulty > MinDifficulty

=============================================================================
