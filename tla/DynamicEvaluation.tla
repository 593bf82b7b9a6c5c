--------------------------- MODULE DynamicEvaluation ---------------------------
(***************************************************************************)
(* A ride under way followed to its end without a payment provider         *)
(* (run-dynamic-ride of cli.py), and the comparison of the block reserved  *)
(* at its start with the block as it was raised along the way, over many   *)
(* rides (dynamic/evaluation.py).  The caller hands every update to the    *)
(* service of DynamicSession and confirms what is asked for at once, so    *)
(* here a session is a value, and a ride goes from one to the next.        *)
(*                                                                         *)
(* A trip is a record of RecordValidation with its updates.                *)
(***************************************************************************)
EXTENDS ReserveEvaluation, RecordValidation

RevisionOf ==
    [f \in {"est", "distance", "duration", "surge"} |->
        CASE f = "est" -> "revised_estimated_amount_paise"
          [] f = "distance" -> "revised_distance_km"
          [] f = "duration" -> "revised_estimated_duration_minutes"
          [] OTHER -> "revised_surge_multiplier"]

StartOf(transaction) ==
    [ride |-> transaction["transaction_id"].number,
     est |-> transaction["estimated_amount_paise"].number,
     distance |-> transaction["distance_km"].number,
     duration |-> transaction["estimated_duration_minutes"].number,
     surge |-> transaction["surge_multiplier"].number]

RevisedBy(context, update) ==
    [f \in DOMAIN context |->
        IF f \in DOMAIN RevisionOf /\ IsRevised(update[RevisionOf[f]])
        THEN update[RevisionOf[f]].number ELSE context[f]]

\* The contexts of a trip, for the models: an event that was seen before
\* revises nothing.
Repeats(trip, i) ==
    \E j \in 1 .. i - 1 : trip.updates[j]["event_id"] = trip.updates[i]["event_id"]
Course(trip) ==
    LET course[i \in 0 .. Len(trip.updates)] ==
            IF i = 0 THEN StartOf(trip.transaction)
            ELSE IF Repeats(trip, i) THEN course[i - 1]
            ELSE RevisedBy(course[i - 1], trip.updates[i])
    IN  course
ContextsOf(trips) == UNION {Range(Course(trips[i])) : i \in DOMAIN trips}

\* The blocks recommended for them, or the reasons why there is none.
Targets(raws, step, profile) ==
    [context \in DOMAIN raws |-> RecommendFor(context.est, Repaired(raws[context]), step, profile)]
IsBlock(target) == target \notin {Unreachable, TooManySteps}

SessionOf(trip, targets) ==
    LET start == StartOf(trip.transaction)
        target == targets[start]
    IN  [context |-> start, initial |-> target, block |-> target,
         last |-> trip.transaction["timestamp"].number, processed |-> <<>>, confirmed |-> {},
         additions |-> <<>>, updates |-> 0,
         stopped |-> IF IsBlock(target) THEN "no" ELSE "no block"]

\* apply_context_update, for an update of this ride.
Earlier(s, update) ==
    {i \in DOMAIN s.processed : s.processed[i].update["event_id"] = update["event_id"]}

Reply(s, update) ==
    IF \E i \in Earlier(s, update) : s.processed[i].update = update THEN "replayed"
    ELSE IF Earlier(s, update) # {} THEN "duplicate_event_conflict"
    ELSE IF update["sequence_number"].number # Len(s.processed) + 1 THEN "out_of_order_sequence"
    ELSE IF update["observed_at"].number <= s.last THEN "stale_timestamp"
    ELSE IF RevisedBy(s.context, update) = s.context THEN "no_context_change"
    ELSE "applied"

Applied(s, update, targets) ==
    LET revised == RevisedBy(s.context, update)
        target == targets[revised]
        decision == [event |-> update["event_id"], previous |-> s.block, target |-> target,
                     additional |-> Max({target - s.block, 0})]
    IN  IF ~IsBlock(target) THEN [s EXCEPT !.stopped = "no block"]
        ELSE [s EXCEPT !.context = revised, !.last = update["observed_at"].number,
                       !.processed = Append(@, [update |-> update, decision |-> decision])]

\* What is asked for is confirmed at once, and counted.  The decision of a
\* replayed update was confirmed before, with a lower total: it conflicts.
Confirmed(s, decision) ==
    IF \E c \in s.confirmed : c.event = decision.event /\ c.total # s.block + decision.additional
    THEN [s EXCEPT !.stopped = "confirmation_conflict"]
    ELSE [s EXCEPT !.block = @ + decision.additional,
                   !.confirmed = @ \cup {[event |-> decision.event, total |-> s.block + decision.additional]}]

Followed(s, update, targets, confirming) ==
    LET reply == Reply(s, update)
        next == IF reply = "applied" THEN Applied(s, update, targets) ELSE s
        decision == next.processed[CHOOSE i \in Earlier(next, update) : TRUE].decision
        counted == [next EXCEPT !.updates = @ + 1, !.additions = Append(@, decision.additional)]
    IN  IF s.stopped # "no" THEN s
        ELSE IF reply \notin {"applied", "replayed"} THEN [s EXCEPT !.stopped = reply]
        ELSE IF next.stopped # "no" THEN next
        ELSE IF confirming /\ decision.additional > 0 THEN Confirmed(counted, decision)
        ELSE counted

Ridden(trip, targets, confirming) ==
    LET after[i \in 0 .. Len(trip.updates)] ==
            IF i = 0 THEN SessionOf(trip, targets)
            ELSE Followed(after[i - 1], trip.updates[i], targets, confirming)
    IN  after[Len(trip.updates)]

-----------------------------------------------------------------------------
(* The report over many rides.                                             *)

\* The k-th smallest of the values of f.
Ranked(f, k) ==
    CHOOSE v \in Range(f) :
        /\ Cardinality({x \in DOMAIN f : f[x] < v}) < k
        /\ k <= Cardinality({x \in DOMAIN f : f[x] <= v})

MedianOf(f) ==
    LET n == Cardinality(DOMAIN f)
        half == n \div 2
    IN  IF n = 0 THEN 0
        ELSE IF n % 2 = 1 THEN Ranked(f, half + 1)
        ELSE HalfUp(Ranked(f, half) + Ranked(f, half + 1), 2)

MeanOf(f) == IF DOMAIN f = {} THEN 0 ELSE HalfUp(SumFunction(f), Cardinality(DOMAIN f))
ShareOf(n, d) == IF d = 0 THEN 0 ELSE RatioOf(n, d)

Benefits == [static : BOOLEAN, dynamic : BOOLEAN]

DynamicReport(trips, sessions) ==
    LET fare(i) == [fare |-> trips[i].outcome["actual_amount_paise"].number]
        static == [i \in DOMAIN trips |-> Evaluated(fare(i), sessions[i].initial)]
        dynamic == [i \in DOMAIN trips |-> Evaluated(fare(i), sessions[i].block)]
        raised == [i \in DOMAIN trips |-> sessions[i].block - sessions[i].initial]
        asked == [e \in UNION {{i} \X DOMAIN sessions[i].additions : i \in DOMAIN sessions} |->
                    sessions[e[1]].additions[e[2]]]
        increases == RestrictValues(asked, LAMBDA x : x > 0)
        triggered == RestrictValues(raised, LAMBDA x : x > 0)
        updates == Cardinality(DOMAIN asked)
        risen == Cardinality(DOMAIN increases)
    IN  [static |-> Aggregated(static),
         dynamic |-> Aggregated(dynamic),
         averageInitial |-> MeanOf([i \in DOMAIN sessions |-> sessions[i].initial]),
         averageFinal |-> MeanOf([i \in DOMAIN sessions |-> sessions[i].block]),
         averageRaise |-> MeanOf(raised),
         averageTriggered |-> MeanOf(triggered),
         triggeredRate |-> ShareOf(Cardinality(DOMAIN triggered), Len(trips)),
         updates |-> updates,
         increases |-> risen,
         sufficientRate |-> ShareOf(updates - risen, updates),
         increaseRate |-> ShareOf(risen, updates),
         largest |-> Max({0} \cup Range(increases)),
         median |-> MedianOf(increases),
         unchanged |-> Count(LAMBDA x : x = 0, raised),
         benefits |-> [b \in Benefits |->
            Cardinality({i \in DOMAIN trips :
                static[i].success = b.static /\ dynamic[i].success = b.dynamic})]]
=============================================================================
