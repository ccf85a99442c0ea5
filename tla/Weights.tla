------------------------------ MODULE Weights ------------------------------
(***************************************************************************)
(* The risk weights of a brand and their normal form (clamp_weights of     *)
(* learning.py).  A weight is an integer number of 0.0001, the quantum the *)
(* code rounds to.  The code multiplies by 1/total carried to 28 digits, so*)
(* that a weight exactly between two quanta can round either way there;    *)
(* here it rounds to even.                                                 *)
(***************************************************************************)
EXTENDS Integers

\* value_size, customer_history, injection, behavioral, action_sensitivity
SIGNALS == 1..5
DEFAULT_WEIGHTS == <<3000, 2000, 2500, 1500, 1000>>
MAX_DRIFT == 1000
STEP == 200
One == 10000

WeightVector == [SIGNALS -> Int]

Sum(w) == w[1] + w[2] + w[3] + w[4] + w[5]

WithinDrift(x, default) ==
    IF x < default - MAX_DRIFT THEN default - MAX_DRIFT
    ELSE IF x > default + MAX_DRIFT THEN default + MAX_DRIFT ELSE x

Unclamped(w) == w
Clamped(w) == [i \in SIGNALS |-> WithinDrift(w[i], DEFAULT_WEIGHTS[i])]

\* ROUND_HALF_EVEN of n / d.
RoundHalfEven(n, d) ==
    LET q == n \div d
        twice == 2 * (n % d)
    IN  IF twice > d \/ (twice = d /\ q % 2 = 1) THEN q + 1 ELSE q

\* The sum of clamped weights is at least 5000, so the total <= 0 fallback of
\* the code is never taken.
Scaled(w) == LET c == Clamped(w) IN [i \in SIGNALS |-> RoundHalfEven(c[i] * One, Sum(c))]

\* max(result, key=...): the first of the largest weights.
Biggest(w) == CHOOSE i \in SIGNALS : /\ \A j \in SIGNALS : w[j] <= w[i]
                                     /\ \A j \in 1..(i - 1) : w[j] < w[i]

ClampWithoutResidual(w) == Scaled(w)
clamp_weights(w) ==
    LET r == Scaled(w) IN [r EXCEPT ![Biggest(r)] = @ + (One - Sum(r))]

\* What the renormalized weight of signal i is at least: it has drifted down as
\* far as it can, and all others up.
Floor == [i \in SIGNALS |-> LET low == DEFAULT_WEIGHTS[i] - MAX_DRIFT
                                others == One - DEFAULT_WEIGHTS[i] + 4 * MAX_DRIFT
                            IN  (low * One) \div (low + others)]

\* The risk score stays a weighted mean: the weights sum to exactly 1 ...
SumsToOne(w) == Sum(w) = One
\* ... and none falls below what the clamp leaves it.
AboveFloor(w) == \A i \in SIGNALS : w[i] >= Floor[i]
=============================================================================
