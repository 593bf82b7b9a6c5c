------------------------------ MODULE RideHistory ------------------------------
(***************************************************************************)
(* What a prediction may know of a customer's earlier rides: the join of   *)
(* rides and outcomes, the sweep that builds the training records, the     *)
(* look-up of the same history for one ride, the chronological split and   *)
(* the mode of a prediction (prediction/dataset.py, personalization/,      *)
(* features_for of web/storage.py).                                        *)
(*                                                                         *)
(* A ride is a record of its id, customer, city, estimate, start,          *)
(* completion, fare and fare ratio; ids and times are integers.  Ratios    *)
(* are whole percents, rounded up: no fare is none of its estimate, and    *)
(* more than a hundred is more than the estimate.                          *)
(***************************************************************************)
EXTENDS Series

CONSTANTS
    MinHistory,     \* MINIMUM_PERSONALIZATION_HISTORY
    TrainPercent,   \* train_fraction
    CheckPercent    \* validation_fraction

ASSUME HistoryAssumption ==
    /\ MinHistory \in Nat \ {0}
    /\ TrainPercent \in 1 .. 98
    /\ CheckPercent \in 1 .. 99 - TrainPercent

-----------------------------------------------------------------------------
(* Joining rides with their outcomes.                                      *)

Ids(s) == {s[i].id : i \in DOMAIN s}
HasDuplicates(s) == Cardinality(Ids(s)) < Len(s)

\* Everything wrong with the two files together, not the first fault only.
JoinIssues(rides, outcomes) ==
    (IF HasDuplicates(rides) THEN {<<"duplicate_id", "transactions">>} ELSE {})
    \cup (IF HasDuplicates(outcomes) THEN {<<"duplicate_id", "outcomes">>} ELSE {})
    \cup {<<"missing_outcome", id>> : id \in Ids(rides) \ Ids(outcomes)}
    \cup {<<"unexpected_outcome", id>> : id \in Ids(outcomes) \ Ids(rides)}

OutcomeOf(ride, outcomes) == outcomes[CHOOSE i \in DOMAIN outcomes : outcomes[i].id = ride.id]

Joined(ride, outcome) ==
    [id |-> ride.id, customer |-> ride.customer, city |-> ride.city, est |-> ride.est,
     start |-> ride.start, end |-> outcome.end, fare |-> outcome.fare,
     ratio |-> (100 * outcome.fare + ride.est - 1) \div ride.est]

\* In the order of their ids.
Join(rides, outcomes) ==
    InOrder({Joined(ride, OutcomeOf(ride, outcomes)) : ride \in Range(rides)},
            LAMBDA a, b : a.id < b.id)

Malformed(records) == {r.id : r \in {x \in Range(records) : x.end < x.start}}

-----------------------------------------------------------------------------
(* The features of a history, as the sums the code divides by the count:   *)
(* of ratios, of their squares, of the overruns and of their sizes.        *)

Overruns(s) == {i \in DOMAIN s : s[i] > 100}

Features(ratios) ==
    [count |-> Len(ratios),
     total |-> Total(LAMBDA x : x, ratios),
     squares |-> Total(LAMBDA x : x * x, ratios),
     overruns |-> Cardinality(Overruns(ratios)),
     overrun |-> SumFunction([i \in Overruns(ratios) |-> ratios[i] - 100])]

\* The features are what CustomerHistoryFeatures accepts: a variance that is
\* no less than zero, a rate that is no more than one.
AreFeatures(f) ==
    /\ f.count * f.squares >= f.total * f.total
    /\ f.overruns \in 0 .. f.count
    /\ f.overrun >= 0
    /\ f.count > 0 => f.total > 0

Ratios(records) == [i \in DOMAIN records |-> records[i].ratio]

IsLeft(key(_), a, b) == key(a)[1] < key(b)[1] \/ (key(a)[1] = key(b)[1] /\ key(a)[2] < key(b)[2])
Sorted(records, key(_)) == InOrder(records, LAMBDA a, b : IsLeft(key, a, b))
ByStart(r) == <<r.start, r.id>>
ByEnd(r) == <<r.end, r.id>>

\* The history of one ride, looked up: the same customer's other rides that
\* were completed strictly before the ride.
HistoryBefore(records, ride) ==
    Sorted({r \in Range(records) : r.customer = ride.customer /\ r.id # ride.id /\ r.end < ride.start}, ByEnd)

FeaturesFor(records, ride) == Features(Ratios(HistoryBefore(records, ride)))

Mode(features) == IF features.count >= MinHistory THEN "personalized" ELSE "base"

-----------------------------------------------------------------------------
(* The sweep: rides in order of their start; "pending" holds the rides     *)
(* passed that are not known to be completed.                              *)

SweepInit(records) ==
    [todo |-> Sorted(Range(records), ByStart), pending |-> {}, completed |-> <<>>, built |-> <<>>]

\* The next of the pending rides is released before the ride at hand.
\* Slip: released when completed by the start of the ride, not before it.
DueByNow(sweep) == \E r \in sweep.pending : r.end <= Head(sweep.todo).start
Due(sweep) == \E r \in sweep.pending : r.end < Head(sweep.todo).start

Release(sweep) ==
    LET first == CHOOSE r \in sweep.pending :
                    \A other \in sweep.pending \ {r} : IsLeft(ByEnd, r, other)
    IN  [sweep EXCEPT !.pending = @ \ {first}, !.completed = Append(@, first)]

Of(customer, records) == Selected(LAMBDA r : r.customer = customer, records)

Build(sweep) ==
    LET ride == Head(sweep.todo)
        history == Features(Ratios(Of(ride.customer, sweep.completed)))
    IN  [sweep EXCEPT !.todo = Tail(@),
                      !.pending = @ \cup {ride},
                      !.built = Append(@, [ride |-> ride, history |-> history])]

-----------------------------------------------------------------------------
(* Splitting n records.                                                    *)

AtLeastOne(n) == IF n < 1 THEN 1 ELSE n

Shares(n) ==
    LET train == AtLeastOne((n * TrainPercent) \div 100)
        validation == AtLeastOne((n * CheckPercent) \div 100)
    IN  IF train + validation >= n
        THEN [train |-> n - 2, validation |-> 1]
        ELSE [train |-> train, validation |-> validation]

CanSplit(records) == Len(records) >= 3

Split(records) ==
    LET share == Shares(Len(records))
    IN  [train |-> SubSeq(records, 1, share.train),
         validation |-> SubSeq(records, share.train + 1, share.train + share.validation),
         test |-> SubSeq(records, share.train + share.validation + 1, Len(records))]

\* Only rides with enough history train the personalized model.
Eligible(built) == Selected(LAMBDA b : Mode(b.history) = "personalized", built)
=============================================================================
