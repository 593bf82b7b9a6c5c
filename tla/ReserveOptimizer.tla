--------------------------- MODULE ReserveOptimizer ---------------------------
(***************************************************************************)
(* The block recommended for one ride: the monotone repair of the raw      *)
(* quantiles (prediction/), the candidates, their scores and the minimum   *)
(* (optimization/), the target of a risk profile (policy/) and the blocks  *)
(* of the baselines (strategies/).                                         *)
(*                                                                         *)
(* Amounts are paise.  Probabilities are counted in hundredths of 1/Scale  *)
(* and areas in halves of that, so that every fraction the code forms from *)
(* the amounts at hand is an integer.                                      *)
(***************************************************************************)
EXTENDS Integers, Sequences, FiniteSets, FiniteSetsExt

CONSTANTS
    Levels,         \* QUANTILES, in hundredths
    Scale,          \* divisible by every difference of two amounts in use
    Lambda,         \* weights of the objective, in tenths
    Profiles,       \* RiskProfile
    Target,         \* PROFILE_TARGETS, in hundredths
    MaxAmount,      \* MAX_AMOUNT_PAISE
    MaxSteps,       \* MAX_REGULAR_CANDIDATES
    Unreachable,    \* PolicyTargetNotReachable
    TooManySteps    \* the ValueError of generate_candidates

ASSUME OptimizerAssumption ==
    /\ Levels \in Seq(1 .. 99)
    /\ Len(Levels) >= 2
    /\ \A i, j \in DOMAIN Levels : i < j => Levels[i] < Levels[j]
    /\ Levels[Len(Levels)] = 99
    /\ \E i \in DOMAIN Levels : Levels[i] = 50
    /\ Levels[1] % (Levels[2] - Levels[1]) = 0
    /\ Scale \in Nat \ {0}
    /\ Lambda \in [{"under", "excess", "friction"} -> Nat]
    /\ Target \in [Profiles -> 1 .. 99]
    /\ MaxAmount \in Nat \ {0}
    /\ MaxSteps \in Nat
    /\ Unreachable \notin Int
    /\ TooManySteps \notin Int
    /\ Unreachable # TooManySteps

Top == Len(Levels)

\* The quantiles a prediction publishes: no model knows of the others, so
\* their raw amounts may cross.
Repaired(raw) == [i \in DOMAIN raw |-> Max({raw[j] : j \in 1 .. i})]

Crossed(raw) == \E i \in 1 .. Len(raw) - 1 : raw[i + 1] < raw[i]

\* FareDistributionPrediction refuses levels or amounts out of order.
IsPublished(q) ==
    /\ DOMAIN q = DOMAIN Levels
    /\ \A i \in 1 .. Top - 1 : q[i] <= q[i + 1]

Amounts(q) == {q[i] : i \in DOMAIN q}

Median(q) == q[CHOOSE i \in DOMAIN Levels : Levels[i] = 50]

Lowest(est, q) == Min({est, Median(q)})
Highest(est, q) == Max({est, q[Top]})

ExceedsSteps(est, q, step) ==
    (Highest(est, q) - Lowest(est, q)) \div step > MaxSteps

Candidates(est, q, step) ==
    LET regular == {a \in Lowest(est, q) .. Highest(est, q) : a % step = 0}
    IN  {a \in {est, Lowest(est, q), Highest(est, q)} \cup Amounts(q) \cup regular :
            0 < a /\ a <= Highest(est, q)}

-----------------------------------------------------------------------------
(* The distribution between its published points.                          *)

\* The probability at a published amount: the highest level published there.
\* Slip: the lowest level, as a first match would give.
LowestLevelAt(q, a) == Min({Levels[i] : i \in {j \in DOMAIN q : q[j] = a}})
LevelAt(q, a) == Max({Levels[i] : i \in {j \in DOMAIN q : q[j] = a}})

Cdf(q, b) ==
    IF b < q[1] THEN 0
    ELSE IF b >= q[Top] THEN Levels[Top] * Scale
    ELSE LET low == Max({a \in Amounts(q) : a <= b})
             high == Min({a \in Amounts(q) : a > b})
         IN  LevelAt(q, low) * Scale
             + (b - low) * (LevelAt(q, high) - LevelAt(q, low)) * (Scale \div (high - low))

\* The point at probability zero extends the lowest segment downwards.
AmountAtZero(q) ==
    Max({1, q[1] - ((q[2] - q[1]) * Levels[1]) \div (Levels[2] - Levels[1])})

\* The raw quantiles of a model: the ratios it predicts become amounts, each by
\* itself.  Between any two of them, and below the first, F has fractions that
\* Scale makes whole.
IsRaw(raw) ==
    /\ raw \in [DOMAIN Levels -> 1 .. MaxAmount]
    /\ \A i, j \in DOMAIN Levels : raw[i] < raw[j] => Scale % (raw[j] - raw[i]) = 0
    /\ LET lowest == AmountAtZero(Repaired(raw))
       IN  lowest < raw[1] => Scale % (raw[1] - lowest) = 0

\* Integral of b - Q(u) over one segment of the quantile function Q.
SegmentExcess(width, lower, upper, b) ==
    IF b < lower THEN 0
    ELSE IF upper = lower \/ b >= upper
    THEN width * Scale * (2 * b - lower - upper)
    ELSE width * (b - lower) * (b - lower) * (Scale \div (upper - lower))

ExpectedExcess(q, b) ==
    SegmentExcess(Levels[1], AmountAtZero(q), q[1], b)
    + MapThenSumSet(
        LAMBDA i : SegmentExcess(Levels[i + 1] - Levels[i], q[i], q[i + 1], b),
        1 .. Top - 1)

\* The objective, multiplied by 2000 * Scale * est.
\* Slip: friction counted for blocks below the estimate too.
RebatedScore(est, q, b) ==
    2 * est * Lambda["under"] * (100 * Scale - Cdf(q, b))
    + Lambda["excess"] * ExpectedExcess(q, b)
    + 200 * Scale * Lambda["friction"] * (b - est)
Score(est, q, b) ==
    2 * est * Lambda["under"] * (100 * Scale - Cdf(q, b))
    + Lambda["excess"] * ExpectedExcess(q, b)
    + 200 * Scale * Lambda["friction"] * Max({b - est, 0})

-----------------------------------------------------------------------------
(* The choice.                                                             *)

\* The least score; among equal scores the smallest block.
Best(eligible, score) ==
    CHOOSE a \in eligible : \A b \in eligible :
        score[a] < score[b] \/ (score[a] = score[b] /\ a <= b)

\* Blocks that are likely enough to cover the fare.
\* Slip: the estimate is always eligible.
EstimateFeasible(est, q, step, target) ==
    {a \in Candidates(est, q, step) : a = est \/ Cdf(q, a) >= target * Scale}
Feasible(est, q, step, target) ==
    {a \in Candidates(est, q, step) : Cdf(q, a) >= target * Scale}

Recommend(est, q, step, target) ==
    LET eligible == Feasible(est, q, step, target)
    IN  IF target > Levels[Top] THEN Unreachable
        ELSE IF ExceedsSteps(est, q, step) THEN TooManySteps
        ELSE IF eligible = {} THEN Unreachable
        ELSE Best(eligible, [a \in eligible |-> Score(est, q, a)])

\* Without a profile every candidate is eligible.
Unconstrained == 0
TargetOf(profile) == IF profile \in Profiles THEN Target[profile] ELSE Unconstrained
RecommendFor(est, q, step, profile) == Recommend(est, q, step, TargetOf(profile))

\* The baselines.  The buffer is a percentage; the block is rounded up to a
\* whole paise and has to be an amount.
ExactBlock(est) == est
BufferedBlock(est, percentage) == (est * (100 + percentage) + 99) \div 100
IsAmount(a) == 1 <= a /\ a <= MaxAmount

-----------------------------------------------------------------------------
(* What the distribution and the choice are meant to be, for comparison.   *)

\* F runs straight between neighbouring published amounts.
IsInterpolated(q, low, high) ==
    \A b \in low .. high :
        \/ b < q[1] /\ Cdf(q, b) = 0
        \/ b >= q[Top] /\ Cdf(q, b) = Levels[Top] * Scale
        \/ \E i \in DOMAIN q :
            /\ q[i] = b
            /\ Cdf(q, b) = Levels[i] * Scale
            /\ i < Top => q[i + 1] > b
        \/ /\ b \notin Amounts(q)
           /\ 2 * Cdf(q, b) = Cdf(q, b - 1) + Cdf(q, b + 1)

\* The quantile function itself, from probability zero on: the largest u with
\* Q(u) <= x, or the least upper bound of those with Q(u) < x.
Points(q) == [i \in 0 .. Top |-> IF i = 0 THEN AmountAtZero(q) ELSE q[i]]
PointLevel(i) == IF i = 0 THEN 0 ELSE Levels[i]
ProbabilityUpTo(q, x, closed) ==
    LET point == Points(q)
        reached == {i \in 0 .. Top : point[i] < x \/ (closed /\ point[i] = x)}
        Rise(i) == (PointLevel(i + 1) - PointLevel(i)) * (Scale \div (point[i + 1] - point[i]))
        Along(i) == IF i < Top /\ point[i + 1] > point[i] /\ point[i + 1] >= x
                    THEN (x - point[i]) * Rise(i) ELSE 0
    IN  Max({0} \cup {PointLevel(i) * Scale + Along(i) : i \in reached})

\* The expected excess is the area under it, in trapezoids between whole
\* paise, where all its corners lie.
AreaBelow(q, b) ==
    MapThenSumSet(
        LAMBDA x : ProbabilityUpTo(q, x, TRUE) + ProbabilityUpTo(q, x + 1, FALSE),
        AmountAtZero(q) .. b - 1)

CostOf(est, q, b) ==
    2 * est * Lambda["under"] * (100 * Scale - Cdf(q, b))
    + Lambda["excess"] * AreaBelow(q, b)
    + 200 * Scale * Lambda["friction"] * (IF b > est THEN b - est ELSE 0)

\* An answer is the cheapest block that meets the target, and the smallest of
\* these, among the estimate, the published amounts and the whole steps
\* between the lower and the higher of each end; a target is refused only
\* when none of them meets it.
IsCheapest(est, q, step, target, answer) ==
    LET offered == {a \in 1 .. Highest(est, q) :
                        \/ a = est \/ a \in Amounts(q)
                        \/ a >= Lowest(est, q) /\ a % step = 0}
        meeting == {a \in offered : Cdf(q, a) >= target * Scale}
    IN  CASE answer = TooManySteps ->
                Highest(est, q) - Lowest(est, q) >= step * (MaxSteps + 1)
          [] answer = Unreachable -> meeting = {}
          [] OTHER -> /\ answer \in meeting
                      /\ \A a \in meeting :
                            \/ CostOf(est, q, answer) < CostOf(est, q, a)
                            \/ CostOf(est, q, answer) = CostOf(est, q, a) /\ answer <= a

\* A block chosen for a target is no smaller than the quantile published for
\* it, unless a higher level was published with the same amount: then F rises
\* to that level and passes the target below the amount.
ReachesQuantile(q, target, answer) ==
    \A i \in DOMAIN Levels :
        Levels[i] = target =>
            answer >= q[i] \/ (i < Top /\ q[i + 1] = q[i] /\ \E a \in Amounts(q) : a < answer)
=============================================================================
