--------------------------- MODULE ReserveEvaluation ---------------------------
(***************************************************************************)
(* Figures about rides whose fare is known: the evaluation of one block,   *)
(* the metrics of a strategy, the comparison of strategies over the same   *)
(* rides, the diagnostics of the risk profiles by city (services/), the    *)
(* quality of predicted quantiles (prediction/evaluation.py) and of        *)
(* personalized predictions by depth of history                            *)
(* (personalization/evaluation.py).                                        *)
(*                                                                         *)
(* Rides are the joined records of RideHistory, blocks and raw quantiles   *)
(* functions of the ride's id.  Ratios count parts of 1/RatioUnit.         *)
(***************************************************************************)
EXTENDS ReserveOptimizer, Series, SequencesExt, TLC

CONSTANTS
    RatioUnit,      \* one over METRIC_RATIO_QUANTUM
    Buffer          \* DEFAULT_FIXED_BUFFER_PERCENTAGE

ASSUME EvaluationAssumption ==
    /\ RatioUnit \in Nat \ {0}
    /\ Buffer \in Nat
    /\ {5, 95} \subseteq Range(Levels)

Product(s) == FoldSeq(LAMBDA x, product : x * product, 1, s)

\* ROUND_HALF_UP of a quotient that is not negative.
HalfUp(n, d) == (2 * n + d) \div (2 * d)
RatioOf(n, d) == HalfUp(n * RatioUnit, d)

-----------------------------------------------------------------------------
(* One block, and all blocks of a strategy.                                *)

\* Slip: a block that is exactly the fare counts as too small.
EvaluatedStrictly(ride, block) ==
    [block |-> block, actual |-> ride.fare,
     excess |-> Max({block - ride.fare, 0}),
     under |-> Max({ride.fare - block, 0}),
     success |-> block > ride.fare]
Evaluated(ride, block) ==
    [block |-> block, actual |-> ride.fare,
     excess |-> Max({block - ride.fare, 0}),
     under |-> Max({ride.fare - block, 0}),
     success |-> block >= ride.fare]

\* The mean of the shares excess/block, over one denominator.
MeanExcessShare(evaluations) ==
    LET all == Product([i \in DOMAIN evaluations |-> evaluations[i].block])
    IN  RatioOf(Total(LAMBDA e : e.excess * (all \div e.block), evaluations),
                all * Len(evaluations))

\* Totals are amounts of money: beyond its range there are no metrics.
OutOfRange == [error |-> "out_of_range"]
HasMetrics(metrics) == "error" \notin DOMAIN metrics

Aggregated(evaluations) ==
    LET n == Len(evaluations)
        blocked == Total(LAMBDA e : e.block, evaluations)
        actual == Total(LAMBDA e : e.actual, evaluations)
        successes == Count(LAMBDA e : e.success, evaluations)
        shortfalls == Count(LAMBDA e : e.under > 0, evaluations)
    IN  IF ~IsAmount(blocked) \/ ~IsAmount(actual) THEN OutOfRange
        ELSE [count |-> n,
              successes |-> successes,
              successRate |-> RatioOf(successes, n),
              shortfalls |-> shortfalls,
              shortfallRate |-> RatioOf(shortfalls, n),
              averageExcess |-> HalfUp(Total(LAMBDA e : e.excess, evaluations), n),
              averageUnder |-> HalfUp(Total(LAMBDA e : e.under, evaluations), n),
              blocked |-> blocked,
              actual |-> actual,
              efficiency |-> RatioOf(Total(LAMBDA e : Min({e.block, e.actual}), evaluations), blocked),
              averageShare |-> MeanExcessShare(evaluations)]

Blocks(rides, blockOf) == [i \in DOMAIN rides |-> Evaluated(rides[i], blockOf[rides[i].id])]
MetricsOf(rides, blockOf) == Aggregated(Blocks(rides, blockOf))

-----------------------------------------------------------------------------
(* Strategies: the block of each ride, and no block for a ride the         *)
(* optimizer refuses or a buffered amount that is no money.                *)

BlockBy(strategy, ride, raw, step) ==
    CASE strategy = "exact_estimate" -> ExactBlock(ride.est)
      [] strategy = "fixed_buffer" -> BufferedBlock(ride.est, Buffer)
      [] OTHER -> RecommendFor(ride.est, Repaired(raw), step, strategy)

\* raws is asked once for each ride, whatever the number of strategies.
BlocksBy(strategy, rides, raws, step) ==
    [id \in {ride.id : ride \in Range(rides)} |->
        BlockBy(strategy, CHOOSE ride \in Range(rides) : ride.id = id, raws[id], step)]

Comparable(compared, rides, raws, step) ==
    \A s \in compared : \A ride \in Range(rides) :
        LET block == BlockBy(s, ride, raws[ride.id], step)
        IN  block \notin {Unreachable, TooManySteps} /\ IsAmount(block)

Compared(compared, rides, raws, step) ==
    [s \in compared |-> MetricsOf(rides, BlocksBy(s, rides, raws, step))]

\* evaluate-baselines, evaluate-optimizer, evaluate-risk-profiles.
ComparedBy(command) ==
    CASE command = "evaluate-baselines" -> {"exact_estimate", "fixed_buffer"}
      [] command = "evaluate-optimizer" -> {"exact_estimate", "fixed_buffer", "optimized_reserve"}
      [] command = "evaluate-risk-profiles" -> {"exact_estimate", "fixed_buffer"} \cup Profiles

\* The probabilities and the score reported with the blocks, as totals.
Diagnostics(strategy, rides, raws, step) ==
    LET blockOf == BlocksBy(strategy, rides, raws, step)
        Chance(ride) == Cdf(Repaired(raws[ride.id]), blockOf[ride.id])
    IN  [blocked |-> HalfUp(Total(LAMBDA r : blockOf[r.id], rides), Len(rides)),
         chance |-> Total(Chance, rides),
         satisfied |-> IF strategy \in Profiles
                       THEN Count(LAMBDA r : Chance(r) >= Target[strategy] * Scale, rides)
                       ELSE 0]

InCity(rides, city) == Selected(LAMBDA r : r.city = city, rides)
Cities(rides) == {ride.city : ride \in Range(rides)}

ByCity(strategy, rides, raws, step) ==
    LET blockOf == BlocksBy(strategy, rides, raws, step)
        Part(city) == InCity(rides, city)
    IN  [city \in Cities(rides) |->
            [metrics |-> MetricsOf(Part(city), blockOf),
             averageBlock |-> HalfUp(Total(LAMBDA r : blockOf[r.id], Part(city)), Len(Part(city)))]]

-----------------------------------------------------------------------------
(* Predicted quantiles against the fares.                                  *)

\* In hundredths of a paise.
PinballLoss(actual, predicted, level) ==
    IF actual >= predicted THEN level * (actual - predicted)
    ELSE (100 - level) * (predicted - actual)

Published(raws, ride) == Repaired(raws[ride.id])

Covered(rides, raws, i) == Count(LAMBDA r : r.fare <= Published(raws, r)[i], rides)
Loss(rides, raws, i) ==
    Total(LAMBDA r : PinballLoss(r.fare, Published(raws, r)[i], Levels[i]), rides)

LevelIndex(level) == CHOOSE i \in DOMAIN Levels : Levels[i] = level

CrossedPairs(raw) == Cardinality({i \in 1 .. Len(raw) - 1 : raw[i + 1] < raw[i]})

\* The counts and sums the code divides by the number of rides.
Quality(rides, raws) ==
    LET low == LevelIndex(5)
        high == LevelIndex(95)
    IN  [count |-> Len(rides),
         covered |-> [i \in DOMAIN Levels |-> Covered(rides, raws, i)],
         loss |-> [i \in DOMAIN Levels |-> Loss(rides, raws, i)],
         medianError |-> Total(LAMBDA r : LET m == Median(Published(raws, r))
                                          IN  Max({r.fare - m, m - r.fare}), rides),
         inside |-> Count(LAMBDA r : /\ Published(raws, r)[low] <= r.fare
                                     /\ r.fare <= Published(raws, r)[high], rides),
         width |-> Total(LAMBDA r : Published(raws, r)[high] - Published(raws, r)[low], rides),
         crossed |-> Count(LAMBDA r : Crossed(raws[r.id]), rides),
         crossedPairs |-> Total(LAMBDA r : CrossedPairs(raws[r.id]), rides),
         byCity |-> [city \in Cities(rides) |->
            LET part == InCity(rides, city)
            IN  [count |-> Len(part),
                 covered |-> [i \in DOMAIN Levels |-> Covered(part, raws, i)],
                 loss |-> SumFunction([i \in DOMAIN Levels |-> Loss(part, raws, i)])]]]

-----------------------------------------------------------------------------
(* Personalized predictions, by depth of history and by its kind.          *)

\* Cases are rides with the features of their history; a ride without enough
\* history is predicted by the base model in either column.
Depths ==
    [depth \in {"0-2", "3-5", "6-10", "11+"} |->
        CASE depth = "0-2" -> 0 .. 2 [] depth = "3-5" -> 3 .. 5 [] depth = "6-10" -> 6 .. 10
          [] OTHER -> Nat \ (0 .. 10)]

\* Mean and deviation of n ratios from their sums, compared in percent without
\* dividing: n^2 times the variance is n times the squares less the squared sum.
Spread(f) == f.count * f.squares - f.total * f.total
IsStable(f) ==
    /\ 100 * Spread(f) <= 625 * f.count * f.count
    /\ Max({f.total - 100 * f.count, 100 * f.count - f.total}) <= 3 * f.count
IsVariable(f) == Spread(f) >= 25 * f.count * f.count
IsOverrunProne(f) ==
    \/ 100 * f.overruns >= 60 * f.count /\ f.total >= 102 * f.count
    \/ f.total >= 105 * f.count

SegmentNames == {"historically_stable", "historically_variable", "historically_overrun_prone"}

Segments(f) ==
    (IF IsStable(f) THEN {"historically_stable"} ELSE {})
    \cup (IF IsVariable(f) THEN {"historically_variable"} ELSE {})
    \cup (IF IsOverrunProne(f) THEN {"historically_overrun_prone"} ELSE {})

RidesOf(cases) == [i \in DOMAIN cases |-> cases[i].ride]

\* The raw quantiles of the personalized column; "enough" are the rides with
\* enough history.
Fallback(base, personal, enough) ==
    [id \in DOMAIN base |-> IF id \in enough THEN personal[id] ELSE base[id]]

Cohort(cases, base, personal, enough) ==
    LET personalized == Count(LAMBDA c : c.ride.id \in enough, cases)
    IN  [count |-> Len(cases),
         fallback |-> Len(cases) - personalized,
         personalized |-> personalized,
         base |-> Quality(RidesOf(cases), base),
         personal |-> Quality(RidesOf(cases), Fallback(base, personal, enough))]

InDepth(depth, history) == history.count \in Depths[depth]
InSegment(segment, history) == segment \in Segments(history)
ByDepth(cases) ==
    [depth \in DOMAIN Depths |-> Selected(LAMBDA c : InDepth(depth, c.history), cases)]
BySegment(cases, enough) ==
    [segment \in SegmentNames |->
        Selected(LAMBDA c : c.ride.id \in enough /\ InSegment(segment, c.history), cases)]

\* Empty cohorts are left out.
Grouped(groups, base, personal, enough) ==
    [g \in {x \in DOMAIN groups : groups[x] # <<>>} |-> Cohort(groups[g], base, personal, enough)]
=============================================================================
