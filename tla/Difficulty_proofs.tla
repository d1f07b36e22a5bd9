-------------------------- MODULE Difficulty_proofs --------------------------
(***************************************************************************)
(* How far and which way the difficulty goes, for any parameters and any   *)
(* delays.                                                                 *)
(***************************************************************************)
EXTENDS Difficulty, SumTheorems

\* A value that was clamped is within the factor of its goal.
LEMMA ClampBounds ==
    ASSUME NEW actual \in Nat, NEW goal \in Nat, NEW factor \in Nat \ {0}
    PROVE  /\ clamp(actual, goal, factor) \in Nat
           /\ clamp(actual, goal, factor) >= goal \div factor
           /\ clamp(actual, goal, factor) <= goal * factor
<1>1. goal \div factor \in Nat /\ goal * factor \in Nat
  BY SMT
<1>2. goal \div factor <= goal
  BY SMT
<1>3. goal <= goal * factor
  BY SMT
<1> QED
  BY <1>1, <1>2, <1>3 DEF clamp, greatest, least

\* A value that was damped is a natural number.
LEMMA DampNat ==
    ASSUME NEW actual \in Nat, NEW goal \in Nat, NEW factor \in Nat \ {0}
    PROVE  damp(actual, goal, factor) \in Nat
<1>1. (factor - 1) * goal \in Nat
  BY SMT
<1>2. actual + (factor - 1) * goal \in Nat
  BY <1>1
<1>3. \A x \in Nat : x \div factor \in Nat
  BY SMT
<1> QED
  BY <1>2, <1>3 DEF damp

\* The divisor of the retarget is never zero: the hook never divides by zero.
LEMMA AdjustedPositive ==
    ASSUME NEW data, ts_delta(data) \in Nat
    PROVE  adj_ts(data) \in Nat \ {0}
<1>1. adjustment_window \in Nat \ {0} /\ ClampFactor <= adjustment_window
  <2>1. DIFFICULTY_ADJUST_WINDOW * TargetBlockTime \in Nat \ {0}
    BY DifficultyAssumption, SMT
  <2> QED
    BY <2>1, DifficultyAssumption DEF adjustment_window
<1>2. \A x \in Nat, y \in Nat \ {0} : y <= x => x \div y > 0
  BY SMT
<1>3. adjustment_window \div ClampFactor > 0
  BY <1>1, <1>2, DifficultyAssumption
<1>4. damp(ts_delta(data), adjustment_window, DampFactor) \in Nat
  BY <1>1, DampNat, DifficultyAssumption
<1>5. /\ adj_ts(data) \in Nat
      /\ adj_ts(data) >= adjustment_window \div ClampFactor
  BY <1>1, <1>4, ClampBounds, DifficultyAssumption DEF adj_ts
<1>6. adjustment_window \div ClampFactor \in Nat
  BY <1>1, DifficultyAssumption, SMT
<1> QED
  BY <1>3, <1>5, <1>6

\* What the hook computes is a natural number.
LEMMA RetargetNat ==
    ASSUME NEW delay, OnFinalize(delay)
    PROVE  currentDifficulty' \in Nat
<1> DEFINE data == shifted(delay)
           ratio == (diff_sum(data) * TargetBlockTime) \div adj_ts(data)
<1>1. ts_delta(data) \in Nat /\ diff_sum(data) * TargetBlockTime \in Nat
  BY DifficultyAssumption DEF OnFinalize
<1>2. adj_ts(data) \in Nat \ {0}
  BY <1>1, AdjustedPositive
<1>3. \A x \in Nat, y \in Nat \ {0} : x \div y \in Nat
  BY SMT
<1>4. ratio \in Nat
  BY <1>1, <1>2, <1>3
<1>5. currentDifficulty' = least(MaxDifficulty, greatest(MinDifficulty, ratio))
  BY DEF OnFinalize, retarget
<1> HIDE DEF ratio
<1> QED
  BY <1>4, <1>5, DifficultyAssumption DEF least, greatest

LEMMA InitTypeOK == Init => TypeOK
  BY DifficultyAssumption DEF Init, TypeOK

LEMMA NextTypeOK == TypeOK /\ [Next]_vars => TypeOK'
<1> SUFFICES ASSUME TypeOK, [Next]_vars PROVE TypeOK'
  OBVIOUS
<1>1. ASSUME NEW delay \in Delays, OnFinalize(delay)
      PROVE  TypeOK'
  <2>1. currentDifficulty' \in Nat
    BY <1>1, RetargetNat
  <2>2. [difficulty |-> currentDifficulty, delay |-> delay] \in Entry
    BY DifficultyAssumption DEF TypeOK, Entry
  <2>3. \A i \in Window : i < DIFFICULTY_ADJUST_WINDOW => i + 1 \in Window
    BY DifficultyAssumption DEF Window
  <2>4. past' = shifted(delay)
    BY <1>1 DEF OnFinalize
  <2>5. past' \in [Window -> Entry \cup {None}]
    BY <2>2, <2>3, <2>4 DEF TypeOK, shifted
  <2> QED
    BY <2>1, <2>5 DEF TypeOK
<1>2. CASE UNCHANGED vars
  BY <1>2 DEF vars, TypeOK
<1> QED
  BY <1>1, <1>2 DEF Next

\* The window and the difficulty keep their types: the hook never divides by zero
\* and no entry gets a negative delay.
THEOREM TypeCorrect == Spec => []TypeOK
  BY InitTypeOK, NextTypeOK, PTL DEF Spec

-----------------------------------------------------------------------------
(* Integer division. *)

LEMMA Multiplying == \A a, b, c \in Nat : a <= b => a * c <= b * c
  BY SMT

LEMMA Quotient ==
    ASSUME NEW a \in Nat, NEW b \in Nat \ {0}
    PROVE  /\ a \div b \in Nat
           /\ (a \div b) * b <= a
           /\ a < (a \div b + 1) * b
  BY SMT

LEMMA QuotientAtMost ==
    ASSUME NEW a \in Nat, NEW b \in Nat \ {0}, NEW c \in Nat, a <= c * b
    PROVE  a \div b <= c
<1> DEFINE q == a \div b
<1>1. q \in Nat /\ q * b <= a
  BY Quotient
<1> HIDE DEF q
<1>2. q >= c + 1 => q * b >= (c + 1) * b
  BY <1>1, Multiplying
<1>3. (c + 1) * b = c * b + b
  BY SMT
<1>4. q * b \in Nat /\ c * b \in Nat
  BY <1>1, SMT
<1>5. q <= c
  BY <1>1, <1>2, <1>3, <1>4
<1> QED
  BY <1>5 DEF q

LEMMA QuotientAtLeast ==
    ASSUME NEW a \in Nat, NEW b \in Nat \ {0}, NEW c \in Nat, c * b <= a
    PROVE  a \div b >= c
<1> DEFINE q == a \div b
<1>1. q \in Nat /\ a < (q + 1) * b
  BY Quotient
<1> HIDE DEF q
<1>2. q + 1 <= c => (q + 1) * b <= c * b
  BY <1>1, Multiplying
<1>3. (q + 1) * b \in Nat /\ c * b \in Nat
  BY <1>1, SMT
<1>4. q >= c
  BY <1>1, <1>2, <1>3
<1> QED
  BY <1>4 DEF q

-----------------------------------------------------------------------------
(* The divisor of the retarget. *)

LEMMA WindowPositive ==
    /\ adjustment_window \in Nat \ {0}
    /\ adjustment_window = DIFFICULTY_ADJUST_WINDOW * TargetBlockTime
<1>1. DIFFICULTY_ADJUST_WINDOW * TargetBlockTime \in Nat \ {0}
  BY DifficultyAssumption, SMT
<1> QED
  BY <1>1 DEF adjustment_window

\* Damping keeps order and leaves the goal where it is.
LEMMA DampMonotone ==
    ASSUME NEW a \in Nat, NEW b \in Nat, a <= b, NEW goal \in Nat, NEW factor \in Nat \ {0}
    PROVE  damp(a, goal, factor) <= damp(b, goal, factor)
<1> DEFINE rest == (factor - 1) * goal
<1>1. rest \in Nat
  BY SMT
<1> HIDE DEF rest
<1>2. a + rest \in Nat /\ b + rest \in Nat
  BY <1>1
<1>3. /\ (a + rest) \div factor \in Nat
      /\ ((a + rest) \div factor) * factor <= a + rest
  BY <1>2, Quotient
<1>4. ((a + rest) \div factor) * factor <= b + rest
  BY <1>1, <1>3, SMT
<1>5. (b + rest) \div factor >= (a + rest) \div factor
  BY <1>2, <1>3, <1>4, QuotientAtLeast
<1> QED
  BY <1>3, <1>5, Quotient, <1>2 DEF damp, rest

LEMMA DampAtGoal ==
    ASSUME NEW goal \in Nat, NEW factor \in Nat \ {0}
    PROVE  damp(goal, goal, factor) = goal
<1>1. goal + (factor - 1) * goal = goal * factor
  BY SMT
<1>2. (goal * factor) \div factor >= goal /\ (goal * factor) \div factor <= goal
  BY QuotientAtLeast, QuotientAtMost, SMT
<1>3. (goal * factor) \div factor \in Nat
  BY Quotient, SMT
<1> QED
  BY <1>1, <1>2, <1>3 DEF damp

LEMMA ClampMonotone ==
    ASSUME NEW a \in Nat, NEW b \in Nat, a <= b, NEW goal \in Nat, NEW factor \in Nat \ {0}
    PROVE  clamp(a, goal, factor) <= clamp(b, goal, factor)
<1>1. goal \div factor \in Nat /\ goal * factor \in Nat
  BY SMT
<1> QED
  BY <1>1 DEF clamp, greatest, least

LEMMA ClampAtGoal ==
    ASSUME NEW goal \in Nat, NEW factor \in Nat \ {0}
    PROVE  clamp(goal, goal, factor) = goal
<1>1. goal \div factor \in Nat /\ goal \div factor <= goal
  BY SMT
<1>2. goal * factor \in Nat /\ goal <= goal * factor
  BY SMT
<1> QED
  BY <1>1, <1>2 DEF clamp, greatest, least

\* The divisor for a sum of delays.
Divisor(delays) ==
    clamp(damp(delays, adjustment_window, DampFactor), adjustment_window, ClampFactor)

\* Longer delays make a larger divisor; the goal is its own.
LEMMA DivisorMonotone ==
    ASSUME NEW a \in Nat, NEW b \in Nat, a <= b
    PROVE  /\ Divisor(a) \in Nat
           /\ Divisor(b) \in Nat
           /\ Divisor(a) <= Divisor(b)
<1>1. adjustment_window \in Nat /\ DampFactor \in Nat \ {0} /\ ClampFactor \in Nat \ {0}
  BY WindowPositive, DifficultyAssumption
<1>2. /\ damp(a, adjustment_window, DampFactor) \in Nat
      /\ damp(b, adjustment_window, DampFactor) \in Nat
      /\ damp(a, adjustment_window, DampFactor) <= damp(b, adjustment_window, DampFactor)
  BY <1>1, DampNat, DampMonotone
<1> QED
  BY <1>1, <1>2, ClampBounds, ClampMonotone DEF Divisor

LEMMA DivisorOfGoal == Divisor(adjustment_window) = adjustment_window
  BY WindowPositive, DifficultyAssumption, DampAtGoal, ClampAtGoal DEF Divisor

LEMMA DivisorAtMost ==
    ASSUME NEW a \in Nat
    PROVE  Divisor(a) <= adjustment_window * ClampFactor
  BY WindowPositive, DifficultyAssumption, DampNat, ClampBounds DEF Divisor
-----------------------------------------------------------------------------
(* The window.  The clamp, the dampening and the pace relate the difficulty *)
(* to the window it was computed from, so the invariant has to say which    *)
(* one that is.                                                             *)

Retargeted == Begun => currentDifficulty = retarget(past)

PInv == TypeOK /\ Retargeted

LEMMA InitPInv == Init => PInv
<1>1. Init => Retargeted
  BY DifficultyAssumption DEF Init, Retargeted, Begun, Window
<1> QED
  BY <1>1, InitTypeOK DEF PInv

LEMMA NextPInv == PInv /\ [Next]_vars => PInv'
<1> SUFFICES ASSUME PInv, [Next]_vars PROVE PInv'
  OBVIOUS
<1>1. TypeOK'
  BY NextTypeOK DEF PInv
<1>2. ASSUME NEW delay \in Delays, OnFinalize(delay)
      PROVE  Retargeted'
  <2>1. currentDifficulty' = retarget(past')
    BY <1>2 DEF OnFinalize
  <2> QED
    BY <2>1 DEF Retargeted, retarget, diff_sum, adj_ts, ts_delta, delta
<1>3. ASSUME UNCHANGED vars
      PROVE  Retargeted'
  BY <1>3 DEF PInv, Retargeted, Begun, vars, retarget, diff_sum, adj_ts, ts_delta, delta
<1> QED
  BY <1>1, <1>2, <1>3 DEF Next, PInv

-----------------------------------------------------------------------------
(* What is summed over a window, be it full or not. *)

\* The delay entry i counts for, and its difficulty.
spans == [i \in Window \ {1} |-> delta(past, i)]

weights == [i \in Window |-> IF past[i] # None THEN past[i].difficulty ELSE InitialDifficulty]

LEMMA WindowSize ==
    /\ IsFiniteSet(Window) /\ Cardinality(Window) = DIFFICULTY_ADJUST_WINDOW
    /\ IsFiniteSet(Window \ {1}) /\ Cardinality(Window \ {1}) = DIFFICULTY_ADJUST_WINDOW - 1
    /\ 1 \in Window /\ DIFFICULTY_ADJUST_WINDOW \in Window
    /\ DIFFICULTY_ADJUST_WINDOW \in Nat /\ DIFFICULTY_ADJUST_WINDOW >= 2
<1>1. 1 \in Window /\ DIFFICULTY_ADJUST_WINDOW \in Window
  BY DifficultyAssumption DEF Window
<1>2. IsFiniteSet(Window) /\ Cardinality(Window) = DIFFICULTY_ADJUST_WINDOW
  BY FS_Interval, DifficultyAssumption DEF Window
<1> QED
  BY <1>1, <1>2, FS_RemoveElement, DifficultyAssumption

LEMMA SpansAndWeights ==
    ASSUME TypeOK
    PROVE  /\ \A i \in Window \ {1} : spans[i] = delta(past, i) /\ spans[i] \in Nat
           /\ \A i \in Measured : i \in Window \ {1} /\ spans[i] = past[i].delay
           /\ \A i \in (Window \ {1}) \ Measured : spans[i] = TargetBlockTime
           /\ \A i \in Window : weights[i] \in Nat /\ weights[i] \in Difficulties
           /\ Difficulties \subseteq Nat
<1>1. \A i \in Window : past[i] # None => past[i].difficulty \in Nat /\ past[i].delay \in Nat
  BY DEF TypeOK, Entry
<1>2. InitialDifficulty \in Nat /\ TargetBlockTime \in Nat
  BY DifficultyAssumption
<1>3. \A i \in Window : weights[i] \in Nat /\ weights[i] \in Difficulties
  BY <1>1, <1>2 DEF weights, Difficulties
<1>4. Difficulties \subseteq Nat
  BY <1>1, <1>2 DEF Difficulties
<1>5. \A i \in Window \ {1} : spans[i] = delta(past, i)
  BY DEF spans
<1>6. \A i \in Measured : i \in Window \ {1} /\ delta(past, i) = past[i].delay
  BY DEF Measured, delta
<1>7. \A i \in (Window \ {1}) \ Measured : delta(past, i) = TargetBlockTime
  BY DEF Measured, delta
<1>8. \A i \in Window \ {1} : spans[i] \in Nat
  BY <1>1, <1>2, <1>5, <1>6, <1>7 DEF Measured
<1> QED
  BY <1>3, <1>4, <1>5, <1>6, <1>7, <1>8

LEMMA WindowDelays ==
    ASSUME TypeOK
    PROVE  /\ SumFunctionOnSet(spans, Window \ {1}) \in Nat
           /\ ts_delta(past) = greatest(1, SumFunctionOnSet(spans, Window \ {1}))
           /\ ts_delta(past) \in Nat
           /\ ts_delta(past) >= 1
<1>1. ts_delta(past) = greatest(1, SumFunctionOnSet(spans, Window \ {1}))
  BY DEF ts_delta, SumFunction, spans
<1>2. SumFunctionOnSet(spans, Window \ {1}) \in Nat
  BY SpansAndWeights, WindowSize, SumIsNat
<1> QED
  BY <1>1, <1>2 DEF greatest

\* Some entry is at least the mean of the window, some at most.
LEMMA WindowDifficulties ==
    ASSUME TypeOK
    PROVE  /\ diff_sum(past) \in Nat
           /\ \E d \in Difficulties :
                 diff_sum(past) <= DIFFICULTY_ADJUST_WINDOW * greatest(d, MinDifficulty)
           /\ \E d \in Difficulties : diff_sum(past) >= DIFFICULTY_ADJUST_WINDOW * d
<1> DEFINE total == SumFunctionOnSet(weights, Window)
           W == DIFFICULTY_ADJUST_WINDOW
<1>1. \A i \in Window : weights[i] \in Nat /\ weights[i] \in Difficulties
  BY SpansAndWeights
<1>2. diff_sum(past) = greatest(MinDifficulty, total)
  BY DEF diff_sum, SumFunction, weights
<1>3. total \in Nat
  BY <1>1, WindowSize, SumIsNat
<1>4. Window # {} /\ IsFiniteSet(Window) /\ Cardinality(Window) = W
  BY WindowSize
<1>5. PICK m \in Window : total <= W * weights[m]
  BY <1>1, <1>4, SumOfAverage
<1>6. PICK l \in Window : total >= W * weights[l]
  BY <1>1, <1>4, SumOfAverage
<1> HIDE DEF total
<1>7. diff_sum(past) \in Nat /\ diff_sum(past) >= total
      /\ (diff_sum(past) = total \/ diff_sum(past) = MinDifficulty)
  BY <1>2, <1>3, DifficultyAssumption DEF greatest
<1>8. \A x, y \in Nat : x <= y => W * x <= W * y /\ W * x \in Nat /\ W * y \in Nat
  BY WindowSize, SMT
<1>9. \A x \in Nat : x <= W * x
  BY WindowSize, SMT
<1>10. diff_sum(past) <= W * greatest(weights[m], MinDifficulty)
  <2> DEFINE g == greatest(weights[m], MinDifficulty)
  <2>1. g \in Nat /\ weights[m] <= g /\ MinDifficulty <= g /\ weights[m] \in Nat
        /\ MinDifficulty \in Nat
    BY <1>1, DifficultyAssumption DEF greatest
  <2> HIDE DEF g
  <2>2. W * weights[m] <= W * g /\ W * weights[m] \in Nat /\ W * g \in Nat /\ g <= W * g
    BY <1>8, <1>9, <2>1
  <2>3. total <= W * g /\ MinDifficulty <= W * g
    BY <1>3, <1>5, <2>1, <2>2
  <2>4. diff_sum(past) <= W * g
    BY <1>7, <2>3
  <2> QED
    BY <2>4 DEF g
<1>11. diff_sum(past) >= W * weights[l]
  <2>1. W * weights[l] \in Nat
    BY <1>1, <1>8
  <2> QED
    BY <1>3, <1>6, <1>7, <2>1
<1> QED
  BY <1>1, <1>7, <1>10, <1>11

-----------------------------------------------------------------------------
(* The difficulty that follows a window. *)

\* The quotient before it is limited.
quotient == (diff_sum(past) * TargetBlockTime) \div Divisor(ts_delta(past))

LEMMA Retargeting ==
    ASSUME PInv, Begun
    PROVE  /\ Divisor(ts_delta(past)) \in Nat \ {0}
           /\ diff_sum(past) * TargetBlockTime \in Nat
           /\ quotient \in Nat
           /\ currentDifficulty = least(MaxDifficulty, greatest(MinDifficulty, quotient))
<1>1. Divisor(ts_delta(past)) = adj_ts(past)
  BY DEF Divisor, adj_ts
<1>2. TypeOK
  BY DEF PInv
<1>3. Divisor(ts_delta(past)) \in Nat \ {0}
  BY <1>1, <1>2, WindowDelays, AdjustedPositive
<1>4. diff_sum(past) \in Nat /\ TargetBlockTime \in Nat
  BY <1>2, WindowDifficulties, DifficultyAssumption
<1>5. diff_sum(past) * TargetBlockTime \in Nat
  BY <1>4, SMT
<1>6. quotient \in Nat
  BY <1>3, <1>5, Quotient DEF quotient
<1>7. currentDifficulty = least(MaxDifficulty, greatest(MinDifficulty, quotient))
  BY <1>1 DEF retarget, quotient, PInv, Retargeted
<1> QED
  BY <1>3, <1>5, <1>6, <1>7

\* If the divisor is at least the window divided by p / q, the next block is no
\* harder than some entry, or the limit, times p / q.
LEMMA HarderAtMost ==
    ASSUME PInv, Begun, NEW p \in Nat, NEW q \in Nat, q <= p,
           adjustment_window * q <= p * Divisor(ts_delta(past))
    PROVE  \E d \in Difficulties : currentDifficulty * q <= greatest(d, MinDifficulty) * p
<1> DEFINE W == DIFFICULTY_ADJUST_WINDOW
           D == Divisor(ts_delta(past))
           T == TargetBlockTime
           n == quotient
<1>1. TypeOK
  BY DEF PInv
<1>2. PICK d \in Difficulties : diff_sum(past) <= W * greatest(d, MinDifficulty)
  BY <1>1, WindowDifficulties
<1> DEFINE e == greatest(d, MinDifficulty)
           s == diff_sum(past)
<1>3. s \in Nat /\ s <= W * e
  BY <1>1, <1>2, WindowDifficulties
<1>4. e \in Nat /\ MinDifficulty <= e
  BY <1>1, SpansAndWeights, DifficultyAssumption DEF greatest
<1>5. D \in Nat \ {0} /\ W \in Nat /\ T \in Nat /\ MinDifficulty \in Nat /\ MaxDifficulty \in Nat
  BY Retargeting, WindowSize, DifficultyAssumption
<1>6. (W * T) * q <= p * D
  BY WindowPositive
<1>7. n \in Nat /\ n * D <= s * T
  BY Retargeting, Quotient DEF quotient
<1>8. currentDifficulty = least(MaxDifficulty, greatest(MinDifficulty, n))
  BY Retargeting
<1> HIDE DEF W, D, T, n, e, s
<1>9. (n * q) * D <= (e * p) * D
  <2>1. (n * D) * q <= (s * T) * q
    <3>1. n * D \in Nat /\ s * T \in Nat
      BY <1>3, <1>5, <1>7, SMT
    <3> QED
      BY <1>7, <3>1, Multiplying
  <2>2. s * (T * q) <= (W * e) * (T * q)
    <3>1. W * e \in Nat /\ T * q \in Nat
      BY <1>4, <1>5, SMT
    <3> QED
      BY <1>3, <3>1, Multiplying
  <2>3. ((W * T) * q) * e <= (p * D) * e
    <3>1. (W * T) * q \in Nat /\ p * D \in Nat
      <4>1. W * T \in Nat
        BY <1>5, SMT
      <4> QED
        BY <1>5, <4>1, SMT
    <3> QED
      BY <1>4, <1>6, <3>1, Multiplying
  <2>4. /\ (n * D) * q = (n * q) * D
        /\ (s * T) * q = s * (T * q)
    BY <1>3, <1>5, <1>7, SMT
  <2>5. (W * e) * (T * q) = ((W * T) * q) * e
    BY <1>4, <1>5, SMT
  <2>6. (p * D) * e = (e * p) * D
    BY <1>4, <1>5, SMT
  <2>7. n * q \in Nat /\ e * p \in Nat /\ T * q \in Nat /\ W * e \in Nat
    BY <1>4, <1>5, <1>7, SMT
  <2>8. (n * q) * D \in Nat /\ (e * p) * D \in Nat /\ s * (T * q) \in Nat
        /\ (W * e) * (T * q) \in Nat
    BY <1>3, <1>5, <2>7, SMT
  <2> QED
    BY <2>1, <2>2, <2>3, <2>4, <2>5, <2>6, <2>8
<1>10. n * q <= e * p
  <2>1. n * q \in Nat /\ e * p \in Nat
    BY <1>4, <1>7, SMT
  <2>2. \A a, b \in Nat, c \in Nat \ {0} : a * c <= b * c => a <= b
    BY SMT
  <2> QED
    BY <1>5, <1>9, <2>1, <2>2
<1>11. MinDifficulty * q <= e * p
  <2>1. MinDifficulty * q <= e * q
    BY <1>4, <1>5, Multiplying
  <2>2. q * e <= p * e
    BY <1>4, Multiplying
  <2>3. e * q = q * e /\ e * p = p * e /\ MinDifficulty * q \in Nat /\ e * q \in Nat /\ e * p \in Nat
    BY <1>4, <1>5, SMT
  <2> QED
    BY <2>1, <2>2, <2>3
<1>12. currentDifficulty * q <= e * p
  <2>1. currentDifficulty <= greatest(MinDifficulty, n) /\ currentDifficulty \in Nat
    BY <1>5, <1>7, <1>8 DEF least, greatest
  <2>2. greatest(MinDifficulty, n) = MinDifficulty \/ greatest(MinDifficulty, n) = n
    BY DEF greatest
  <2>3. currentDifficulty * q <= MinDifficulty * q \/ currentDifficulty * q <= n * q
    BY <1>5, <1>7, <2>1, <2>2, Multiplying
  <2>4. currentDifficulty * q \in Nat /\ MinDifficulty * q \in Nat /\ n * q \in Nat /\ e * p \in Nat
    BY <1>4, <1>5, <1>7, <2>1, SMT
  <2> QED
    BY <1>10, <1>11, <2>3, <2>4
<1> QED
  BY <1>12 DEF e

\* If the divisor is no more than a multiple of the window, the next block is no
\* easier than some entry divided by that factor, or the limit.
LEMMA EasierAtMost ==
    ASSUME PInv, Begun, NEW factor \in Nat \ {0},
           Divisor(ts_delta(past)) <= adjustment_window * factor
    PROVE  \E d \in Difficulties : currentDifficulty >= least(d \div factor, MaxDifficulty)
<1> DEFINE W == DIFFICULTY_ADJUST_WINDOW
           D == Divisor(ts_delta(past))
<1>1. TypeOK
  BY DEF PInv
<1>2. PICK d \in Difficulties : diff_sum(past) >= W * d
  BY <1>1, WindowDifficulties
<1> DEFINE e == d \div factor
<1>3. d \in Nat /\ W * d <= diff_sum(past) /\ diff_sum(past) \in Nat
  BY <1>1, <1>2, SpansAndWeights, WindowDifficulties, WindowSize, SMT
<1>4. D \in Nat \ {0} /\ W \in Nat /\ TargetBlockTime \in Nat /\ MinDifficulty \in Nat
      /\ MaxDifficulty \in Nat
  BY Retargeting, WindowSize, DifficultyAssumption
<1>5. D <= (W * TargetBlockTime) * factor
  BY WindowPositive
<1>6. e \in Nat /\ e * factor <= d
  BY <1>3, Quotient
<1> HIDE DEF D, W, e
<1>7. D * e <= ((W * TargetBlockTime) * factor) * e
  <2>1. (W * TargetBlockTime) * factor \in Nat
    BY <1>4, SMT
  <2> QED
    BY <1>4, <1>5, <1>6, <2>1, Multiplying
<1>8. ((W * TargetBlockTime) * factor) * e = (e * factor) * (W * TargetBlockTime)
  BY <1>4, <1>6, SMT
<1>9. (e * factor) * (W * TargetBlockTime) <= d * (W * TargetBlockTime)
  <2>1. e * factor \in Nat /\ W * TargetBlockTime \in Nat
    BY <1>4, <1>6, SMT
  <2> QED
    BY <1>3, <1>6, <2>1, Multiplying
<1>10. d * (W * TargetBlockTime) = (W * d) * TargetBlockTime
  BY <1>3, <1>4, SMT
<1>11. (W * d) * TargetBlockTime <= diff_sum(past) * TargetBlockTime
  <2>1. W * d \in Nat
    BY <1>3, <1>4, SMT
  <2> QED
    BY <1>3, <1>4, <2>1, Multiplying
<1>12. /\ e * D = D * e
       /\ D * e \in Nat /\ (e * factor) * (W * TargetBlockTime) \in Nat
       /\ (W * d) * TargetBlockTime \in Nat /\ diff_sum(past) * TargetBlockTime \in Nat
  BY <1>3, <1>4, <1>6, SMT
<1>13. e * D <= diff_sum(past) * TargetBlockTime
  BY <1>7, <1>8, <1>9, <1>10, <1>11, <1>12
<1>14. quotient >= e
  BY <1>4, <1>6, <1>12, <1>13, QuotientAtLeast DEF quotient, D
<1>15. currentDifficulty >= least(e, MaxDifficulty)
  BY <1>4, <1>6, <1>14, Retargeting DEF least, greatest
<1> QED
  BY <1>15 DEF e

\* A bound on the least divisor is one on every divisor.
LEMMA LeastDivisor ==
    ASSUME TypeOK, NEW p \in Nat, NEW a \in Nat, a <= p * Divisor(1)
    PROVE  a <= p * Divisor(ts_delta(past))
<1>1. Divisor(1) \in Nat /\ Divisor(ts_delta(past)) \in Nat /\ Divisor(1) <= Divisor(ts_delta(past))
  BY WindowDelays, DivisorMonotone
<1>2. \A x, y \in Nat : x <= y => p * x <= p * y /\ p * x \in Nat /\ p * y \in Nat
  BY SMT
<1>3. p * Divisor(1) <= p * Divisor(ts_delta(past))
      /\ p * Divisor(1) \in Nat /\ p * Divisor(ts_delta(past)) \in Nat
  BY <1>1, <1>2
<1> QED
  BY <1>3

\* No window of short delays has a divisor so small that the clamp, or the damp,
\* is exceeded by rounding: true of the parameters of the runtime, where each of
\* ClampFactor and DampFactor divides the window, and of any that damp enough.
ClampIsWhole == adjustment_window <= ClampFactor * Divisor(1)

DampIsWhole == adjustment_window * (DampFactor - 1) <= DampFactor * Divisor(1)

LEMMA PInvWithinClamp == ClampIsWhole /\ PInv => WithinClamp
<1> SUFFICES ASSUME ClampIsWhole, PInv, Begun
             PROVE  /\ \E d \in Difficulties :
                          currentDifficulty <= greatest(d, MinDifficulty) * ClampFactor
                    /\ \E d \in Difficulties :
                          currentDifficulty >= least(d \div ClampFactor, MaxDifficulty)
  BY DEF WithinClamp
<1>1. /\ ClampFactor \in Nat \ {0} /\ adjustment_window \in Nat /\ TypeOK
      /\ currentDifficulty \in Nat
  BY WindowPositive, DifficultyAssumption DEF PInv, TypeOK
<1>2. adjustment_window <= ClampFactor * Divisor(ts_delta(past))
  BY <1>1, LeastDivisor DEF ClampIsWhole
<1>3. adjustment_window * 1 = adjustment_window /\ currentDifficulty * 1 = currentDifficulty
  BY <1>1
<1>4. \E d \in Difficulties : currentDifficulty * 1 <= greatest(d, MinDifficulty) * ClampFactor
  <2>1. 1 <= ClampFactor /\ adjustment_window * 1 <= ClampFactor * Divisor(ts_delta(past))
    BY <1>1, <1>2, <1>3
  <2> QED
    BY <1>1, <2>1, HarderAtMost
<1>5. Divisor(ts_delta(past)) <= adjustment_window * ClampFactor
  BY <1>1, WindowDelays, DivisorAtMost
<1>6. \E d \in Difficulties : currentDifficulty >= least(d \div ClampFactor, MaxDifficulty)
  BY <1>1, <1>5, EasierAtMost
<1> QED
  BY <1>3, <1>4, <1>6

LEMMA PInvDampened == DampIsWhole /\ PInv => Dampened
<1> SUFFICES ASSUME DampIsWhole, PInv, Begun
             PROVE  \E d \in Difficulties :
                       currentDifficulty * (DampFactor - 1)
                         <= greatest(d, MinDifficulty) * DampFactor
  BY DEF Dampened
<1>1. DampFactor \in Nat /\ DampFactor - 1 \in Nat /\ DampFactor - 1 <= DampFactor /\ TypeOK
  BY DifficultyAssumption DEF PInv
<1>2. adjustment_window * (DampFactor - 1) \in Nat
  BY <1>1, WindowPositive, SMT
<1>3. adjustment_window * (DampFactor - 1) <= DampFactor * Divisor(ts_delta(past))
  BY <1>1, <1>2, LeastDivisor DEF DampIsWhole
<1> QED
  BY <1>1, <1>3, HarderAtMost

\* The delays of late blocks make up for the block that has no delay.
LEMMA LateDelays ==
    ASSUME TypeOK, Measured # {},
           \A i \in Measured : past[i].delay * Cardinality(Measured)
                                 >= (Cardinality(Measured) + 1) * TargetBlockTime
    PROVE  adjustment_window <= ts_delta(past)
<1> DEFINE W == DIFFICULTY_ADJUST_WINDOW
           T == TargetBlockTime
           Rest == Window \ {1}
           Others == Rest \ Measured
           n == Cardinality(Measured)
           late == SumFunctionOnSet(spans, Measured)
           total == SumFunctionOnSet(spans, Rest)
<1>1. /\ adjustment_window \in Nat \ {0} /\ W \in Nat /\ W >= 2
      /\ T \in Nat \ {0} /\ adjustment_window = W * T
  BY WindowPositive, WindowSize, DifficultyAssumption
<1>2. total \in Nat /\ ts_delta(past) = greatest(1, total)
  BY WindowDelays
<1>3. /\ IsFiniteSet(Rest) /\ Cardinality(Rest) = W - 1
      /\ Measured \subseteq Rest /\ Rest = Measured \cup Others /\ Measured \cap Others = {}
  BY WindowSize DEF Measured
<1>4. IsFiniteSet(Measured) /\ IsFiniteSet(Others) /\ n \in Nat \ {0}
      /\ Cardinality(Others) = (W - 1) - n
  <2>1. IsFiniteSet(Measured) /\ IsFiniteSet(Others)
    BY <1>3, FS_Subset
  <2>2. n \in Nat /\ n # 0
    BY <2>1, FS_CardinalityType, FS_EmptySet
  <2>3. Cardinality(Others) \in Nat
    BY <2>1, FS_CardinalityType
  <2>4. Cardinality(Rest) = n + Cardinality(Others) - Cardinality(Measured \cap Others)
    BY <1>3, <2>1, FS_Union
  <2>5. Cardinality(Measured \cap Others) = 0
    BY <1>3, FS_EmptySet
  <2> QED
    BY <1>1, <1>3, <2>1, <2>2, <2>3, <2>4, <2>5
<1>5. /\ \A i \in Measured : spans[i] = past[i].delay /\ spans[i] \in Nat
      /\ \A i \in Others : spans[i] = T
      /\ \A i \in Rest : spans[i] \in Nat
  BY <1>3, SpansAndWeights
<1>6. total = late + SumFunctionOnSet(spans, Others)
  <2>1. \A i \in Measured \cup Others : spans[i] \in Int
    BY <1>3, <1>5
  <2> HIDE DEF Rest, Others
  <2> QED
    BY <1>3, <1>4, <2>1, SumOfDisjoint
<1>7. late \in Nat
  BY <1>4, <1>5, SumIsNat
<1> HIDE DEF W, T, Rest, Others, n
<1>8. SumFunctionOnSet(spans, Others) = ((W - 1) - n) * T
  <2>1. T \in Int
    BY <1>1
  <2>2. SumFunctionOnSet(spans, Others) = Cardinality(Others) * T
    BY <1>4, <1>5, <2>1, SumOfConstant
  <2> QED
    BY <1>4, <2>2
<1>9. n * ((n + 1) * T) <= n * late
  <2> DEFINE scaled == [i \in Measured |-> n * spans[i]]
             goals  == [i \in Measured |-> (n + 1) * T]
  <2>1. \A i \in Measured : n * spans[i] \in Nat /\ n * spans[i] = spans[i] * n
    BY <1>4, <1>5, SMT
  <2>2. (n + 1) * T \in Nat
    BY <1>1, <1>4, SMT
  <2>3. \A i \in Measured : past[i].delay * n >= (n + 1) * T
    BY DEF n, T
  <2>4. \A i \in Measured : scaled[i] \in Int /\ goals[i] \in Int /\ goals[i] <= scaled[i]
    BY <1>5, <2>1, <2>2, <2>3
  <2>5. SumFunctionOnSet(goals, Measured) = n * ((n + 1) * T)
    <3>1. \A i \in Measured : goals[i] = (n + 1) * T
      OBVIOUS
    <3> HIDE DEF goals
    <3> QED
      BY <1>4, <2>2, <3>1, SumOfConstant DEF n
  <2>6. SumFunctionOnSet(scaled, Measured) = n * late
    <3>1. \A i \in Measured : spans[i] \in Int /\ scaled[i] = n * spans[i]
      BY <1>5
    <3> HIDE DEF scaled
    <3> QED
      BY <1>4, <3>1, SumScaled
  <2> HIDE DEF scaled, goals, late
  <2> QED
    BY <1>4, <2>4, <2>5, <2>6, SumMonotone
<1> HIDE DEF late, total
<1>10. (n + 1) * T <= late
  <2>1. \A a, b, c \in Nat : a > b /\ c # 0 => c * a > c * b
    BY SMT
  <2>2. (n + 1) * T \in Nat /\ n * ((n + 1) * T) \in Nat /\ n * late \in Nat
    <3>1. (n + 1) * T \in Nat
      BY <1>1, <1>4, SMT
    <3> QED
      BY <1>4, <1>7, <3>1, SMT
  <2> QED
    BY <1>4, <1>7, <1>9, <2>1, <2>2
<1>11. (n + 1) * T + ((W - 1) - n) * T = W * T
  BY <1>1, <1>4, SMT
<1>12. /\ (n + 1) * T \in Int /\ ((W - 1) - n) * T \in Int
  BY <1>1, <1>4, SMT
<1>13. adjustment_window <= total
  BY <1>1, <1>6, <1>7, <1>8, <1>10, <1>11, <1>12
<1> QED
  BY <1>1, <1>2, <1>13 DEF greatest

LEMMA TimelyDelays ==
    ASSUME TypeOK, \A i \in Measured : past[i].delay <= TargetBlockTime
    PROVE  ts_delta(past) <= adjustment_window
<1> DEFINE W == DIFFICULTY_ADJUST_WINDOW
           T == TargetBlockTime
           Rest == Window \ {1}
           total == SumFunctionOnSet(spans, Rest)
           targets == [i \in Rest |-> T]
<1>1. /\ adjustment_window \in Nat \ {0} /\ W \in Nat /\ W >= 2
      /\ T \in Nat \ {0} /\ adjustment_window = W * T
  BY WindowPositive, WindowSize, DifficultyAssumption
<1>2. total \in Nat /\ ts_delta(past) = greatest(1, total)
  BY WindowDelays
<1>3. IsFiniteSet(Rest) /\ Cardinality(Rest) = W - 1
  BY WindowSize
<1>4. \A i \in Rest : spans[i] \in Int /\ targets[i] \in Int /\ spans[i] <= targets[i]
  BY <1>1, SpansAndWeights
<1>5. \A i \in Rest : targets[i] = T
  OBVIOUS
<1> HIDE DEF W, T, Rest, targets
<1>6. SumFunctionOnSet(targets, Rest) = (W - 1) * T
  <2>1. T \in Int
    BY <1>1
  <2>2. SumFunctionOnSet(targets, Rest) = Cardinality(Rest) * T
    BY <1>3, <1>5, <2>1, SumOfConstant
  <2> QED
    BY <1>3, <2>2
<1>7. total <= SumFunctionOnSet(targets, Rest)
  BY <1>3, <1>4, SumMonotone
<1> HIDE DEF total
<1>8. (W - 1) * T <= W * T /\ (W - 1) * T \in Nat
  BY <1>1, SMT
<1> QED
  BY <1>1, <1>2, <1>6, <1>7, <1>8 DEF greatest

LEMMA PInvFollowsPace == PInv => FollowsPace
<1> SUFFICES ASSUME PInv, Begun
    PROVE  /\ (/\ Measured # {}
               /\ \A i \in Measured : past[i].delay * Cardinality(Measured)
                                       >= (Cardinality(Measured) + 1) * TargetBlockTime)
              => \E d \in Difficulties : currentDifficulty <= greatest(d, MinDifficulty)
           /\ (\A i \in Measured : past[i].delay <= TargetBlockTime)
              => \E d \in Difficulties : currentDifficulty >= least(d, MaxDifficulty)
  BY DEF FollowsPace
<1>1. /\ TypeOK /\ currentDifficulty \in Nat /\ Difficulties \subseteq Nat
      /\ adjustment_window \in Nat /\ ts_delta(past) \in Nat /\ MinDifficulty \in Nat
  BY WindowPositive, WindowDelays, SpansAndWeights, DifficultyAssumption DEF PInv, TypeOK
<1>2. ASSUME adjustment_window <= ts_delta(past)
      PROVE  \E d \in Difficulties : currentDifficulty <= greatest(d, MinDifficulty)
  <2>1. adjustment_window <= Divisor(ts_delta(past)) /\ Divisor(ts_delta(past)) \in Nat
    BY <1>1, <1>2, DivisorMonotone, DivisorOfGoal
  <2>2. adjustment_window * 1 <= 1 * Divisor(ts_delta(past))
    BY <1>1, <2>1
  <2>3. PICK d \in Difficulties : currentDifficulty * 1 <= greatest(d, MinDifficulty) * 1
    BY <2>2, HarderAtMost
  <2>4. greatest(d, MinDifficulty) \in Nat
    BY <1>1 DEF greatest
  <2> QED
    BY <1>1, <2>3, <2>4
<1>3. ASSUME ts_delta(past) <= adjustment_window
      PROVE  \E d \in Difficulties : currentDifficulty >= least(d, MaxDifficulty)
  <2>1. Divisor(ts_delta(past)) <= adjustment_window /\ Divisor(ts_delta(past)) \in Nat
    BY <1>1, <1>3, DivisorMonotone, DivisorOfGoal
  <2>2. Divisor(ts_delta(past)) <= adjustment_window * 1
    BY <1>1, <2>1
  <2>3. PICK d \in Difficulties : currentDifficulty >= least(d \div 1, MaxDifficulty)
    BY <2>2, EasierAtMost
  <2>4. d \in Nat
    BY <1>1
  <2>5. d \div 1 = d
    BY <2>4, SMT
  <2> QED
    BY <2>3, <2>5
<1> QED
  BY <1>1, <1>2, <1>3, LateDelays, TimelyDelays

\* From the first block on, the difficulty is what the hook makes of its window.
THEOREM PaceInvariance == Spec => []PInv
  BY InitPInv, NextPInv, PTL DEF Spec

\* However a miner sets the clock, the next block is no more than ClampFactor
\* times as hard as some entry of the window, and no less than as easy.
THEOREM ClampHolds == ClampIsWhole => (Spec => []WithinClamp)
<1> SUFFICES ASSUME ClampIsWhole PROVE Spec => []WithinClamp
  OBVIOUS
<1>1. PInv => WithinClamp
  BY PInvWithinClamp
<1> QED
  BY <1>1, PaceInvariance, PTL

\* Blocks that come all at once make the next one harder by one part in
\* DampFactor - 1 at most.
THEOREM DampingHolds == DampIsWhole => (Spec => []Dampened)
<1> SUFFICES ASSUME DampIsWhole PROVE Spec => []Dampened
  OBVIOUS
<1>1. PInv => Dampened
  BY PInvDampened
<1> QED
  BY <1>1, PaceInvariance, PTL

\* Late blocks never make the next one harder, early ones never easier: rounding,
\* dampening, the empty entries of a window that fills and its first block, which
\* has no predecessor, do not turn the control around.
THEOREM DifficultyFollowsPace == Spec => []FollowsPace
  BY PInvFollowsPace, PaceInvariance, PTL

=============================================================================
