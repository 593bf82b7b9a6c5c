----------------------------- MODULE MCCommandLine -----------------------------
(* Sessions at two terminals: wide inputs over artifacts that are there, and  *)
(* narrow ones while the artifacts are trained.                               *)
EXTENDS CommandLine

CONSTANTS trainer, analyst, unreachable, tooManySteps

MCLevels == <<5, 10, 50, 93, 95, 97, 99>>
MCLambda == "under" :> 40 @@ "excess" :> 10 @@ "friction" :> 5
MCTarget == "conservative" :> 99 @@ "balanced" :> 97 @@ "aggressive" :> 93
MCShuffle ==
    [seed \in 1 .. 2 |-> [n \in 0 .. 4 |-> [i \in 1 .. n |-> IF seed = 1 THEN i ELSE n + 1 - i]]]

ModelFiles == <<"model low", "model high">>
MCFiles == {"model low", "model high", "baseline", "schema", "history schema", "evaluation", "metadata"}
MCWriteOrder ==
    "base" :> ModelFiles \o <<"baseline", "schema", "evaluation", "metadata">>
    @@ "personalized" :> ModelFiles \o <<"schema", "history schema", "evaluation", "metadata">>
MCReadOrder ==
    "base" :> <<"metadata", "schema">> \o ModelFiles \o <<"baseline">>
    @@ "personalized" :> <<"metadata", "schema", "history schema">> \o ModelFiles

-----------------------------------------------------------------------------
(* Files.                                                                     *)

Ride(id, customer, city, est, start) ==
    [AcceptedRide EXCEPT !["transaction_id"] = Named(id), !["customer_id"] = Named(customer),
                         !["city"] = Named(city), !["estimated_amount_paise"] = Number(est),
                         !["timestamp"] = At(start)]
Outcome(id, fare, end) ==
    "transaction_id" :> Named(id) @@ "actual_amount_paise" :> Number(fare) @@ "completed_at" :> At(end)
Record(ride, outcome) ==
    [shape |-> "object", unknown |-> {},
     transaction |-> ride, extra |-> {}, outcome |-> outcome]
NoTrip == [updates |-> <<>>]
File(records) == [unknown |-> {}, metadata |-> "absent", shape |-> "array", records |-> records]

Do(name, profile, ride, unknown, file, seed) ==
    [name |-> name, profile |-> profile, content |-> "json", ride |-> ride, unknown |-> unknown, file |-> file,
     step |-> 2, seed |-> seed, customers |-> <<>>, trip |-> NoTrip, confirm |-> TRUE]
WithFile(name, records, seed) == Do(name, "-", AcceptedRide, {}, File(records), seed)
WithRide(name, profile, ride) == Do(name, profile, ride, {}, File(<<>>), 1)

\* Four rides of two customers and cities, each ended before the next began.
FourRides ==
    [i \in 1 .. 4 |-> Record(Ride(i, 1, 1 + (i % 2), 5, 2 * i), Outcome(i, <<5, 4, 6, 8>>[i], 2 * i + 1))]
ThreeRides == SubSeq(FourRides, 1, 3)
FiveRides == Append(FourRides, Record(Ride(5, 1, 1, 5, 10), Outcome(5, 5, 11)))
FarRide == Record(Ride(5, 1, 1, 14, 10), Outcome(5, 14, 11))

JoinedRides(records) ==
    Join([i \in DOMAIN records |-> RideOf(records[i].transaction)],
         [i \in DOMAIN records |-> OutcomeRead(records[i].outcome)])
CasesOf(records) ==
    LET rides == JoinedRides(records)
    IN  [i \in DOMAIN rides |-> [ride |-> rides[i], history |-> FeaturesFor(rides, rides[i])]]

NoneTrained == [k \in Kinds |-> 0]
AllTrained == [k \in Kinds |-> 1]
FirstLessons ==
    "base" :> <<[records |-> JoinedRides(FourRides), seed |-> 1]>>
    @@ "personalized" :> <<[records |-> CasesOf(FourRides), seed |-> 1]>>
NoLessons == [k \in Kinds |-> <<>>]

Typed(training, analysis) == trainer :> training @@ analyst :> analysis
Before(commands, raws) ==
    {[typed |-> Typed(<<>>, <<c>>), models |-> raws, trained |-> AllTrained, lessons |-> FirstLessons]
        : c \in commands}

Flat == [i \in DOMAIN MCLevels |-> 5]
Rising == <<2, 2, 5, 5, 8, 8, 8>>
Crossing == <<5, 2, 5, 8, 5, 5, 8>>

-----------------------------------------------------------------------------
(* One ride and every way the models may predict it.                          *)

Raws == [DOMAIN MCLevels -> {2, 5, 8}]
AnswerSessions ==
    Before({WithRide("compare-risk-profiles", "none", Ride(1, 1, 1, 4, 1))}, Raws)
    \cup Before({WithRide(name, "none", Ride(1, 1, 1, est, 1))
                    : name \in {"optimize-block", "compare-risk-profiles"}, est \in {2, 4, 9}},
                {raw \in Raws : ~Crossed(raw)})
    \cup Before({[WithRide("optimize-block", "none", Ride(1, 1, 1, 14, 1)) EXCEPT !.step = 5]},
                {raw \in Raws : ~Crossed(raw)})
    \cup Before({WithRide("compare-risk-profiles", "none", Ride(1, 1, 1, 14, 1)),
                 WithRide("optimize-block", "balanced", Ride(1, 1, 1, 4, 1)),
                 WithRide("predict-distribution", "none", Ride(1, 1, 1, 4, 1))},
                {Flat, Rising, Crossing})

\* A transaction with faults in at most two fields.
Values(field) ==
    {Missing, Other("bool"), Number(-1), Number(0), Number(40), Text("blank"), Text("unknown")}
    \cup (IF field = "timestamp" THEN {Text("without offset")} ELSE {})
    \cup (IF field \in {"distance_km", "surge_multiplier", "estimated_duration_minutes"}
          THEN {Other("nan"), Real(1)} ELSE {})
    \cup (IF field \in {"transaction_id", "domain", "city"} THEN {Text("padded")} ELSE {})

ValidationSessions ==
    Before(UNION {{Do("validate-mobility", "-", [AcceptedRide EXCEPT ![f] = v, ![g] = w], unknown, File(<<>>), 1)
                    : v \in Values(f), w \in Values(g), unknown \in {{}, {"actual_amount_paise"}}}
                   : f, g \in {"transaction_id", "estimated_amount_paise", "city", "distance_km",
                               "surge_multiplier", "timestamp", "domain"}},
           {Flat})
    \cup Before({[Do(name, "balanced", ride, {}, File(<<>>), 1) EXCEPT !.content = content]
                    : name \in {"validate-mobility", "optimize-block", "optimize-personalized-block"},
                      ride \in {NoObject, AcceptedRide}, content \in {"json", "no json"}},
                {Flat})

-----------------------------------------------------------------------------
(* Rides that overlap, end together or end before they start.                 *)

Spans == {s \in (1 .. 3) \X (1 .. 3) : s[1] <= s[2]} \cup {<<2, 1>>}
Overlapping ==
    {<<Record(Ride(1, 1, 1, 5, a[1]), Outcome(1, 5, a[2])),
       Record(Ride(2, c, 1, 5, b[1]), Outcome(2, 6, b[2])),
       Record(Ride(3, d, 1, 5, e[1]), Outcome(3, 4, e[2]))>>
        : a, b, e \in Spans, c, d \in 1 .. 2}

SweepSessions ==
    Before({WithFile("evaluate-personalization", records, 1) : records \in Overlapping}, {Rising})
    \cup Before({WithFile(name, records, 1)
                    : name \in {"train-personalized-predictor", "evaluate-personalization"},
                      records \in {FourRides, Append(FourRides, FarRide), SubSeq(FourRides, 1, 2),
                                  <<Record(Ride(1, 1, 1, 5, 1), Outcome(2, 5, 2))>>}},
                {Rising})
    \cup Before({WithFile("evaluate-personalization", FiveRides \o <<
                        Record(Ride(6, 1, 2, 5, 12), Outcome(6, 6, 13)),
                        Record(Ride(7, 2, 2, 5, 14), Outcome(7, 4, 15)),
                        Record(Ride(8, 1, 1, 5, 16), Outcome(8, 8, 17))>>, 1)},
                {Flat, Rising, Crossing})
    \cup Before({Do(name, "balanced", Ride(9, 1, 1, 5, start), {}, File(FourRides), 1)
                    : name \in AnsweringPersonally, start \in 4 .. 8},
                {Rising, Crossing})
    \cup Before({Do("optimize-personalized-block", "balanced", Ride(9, 1, 1, 5, 4), {},
                    File(<<Record(Ride(1, 1, 1, 5, 2), Outcome(id, 5, end))>>), 1)
                    : id \in 1 .. 2, end \in 1 .. 2},
                {Rising})

\* Scenarios of one or two customers with their histories.
Customers ==
    {[label |-> label, shape |-> "object", ride |-> ride, unknown |-> {}, file |-> File(records)]
        : label \in {"a", "b"},
          ride \in {Ride(9, 1, 1, est, 6) : est \in {0, 5, 14}},
          records \in {ThreeRides, <<Record(Ride(1, 1, 1, 5, 2), Outcome(2, 5, 2))>>,
                      <<Record(Ride(1, 1, 1, 5, 2), Outcome(1, 5, 1))>>,
                      <<Record(Ride(1, 1, 1, 0, 2), Outcome(1, 0, 2))>>}}

\* Customers that are none, or whose ride or history is missing.
NoCustomers ==
    LET good == [label |-> "b", shape |-> "object", ride |-> Ride(9, 1, 1, 5, 6), unknown |-> {},
                 file |-> File(ThreeRides)]
    IN  {good, [good EXCEPT !.shape = "other"], [good EXCEPT !.ride = NoObject],
         [good EXCEPT !.unknown = {"fare"}, !.ride["city"] = Missing],
         [good EXCEPT !.file.shape = "no object"],
         [good EXCEPT !.file.shape = "other", !.file.unknown = {"rides"}]}
Scenario(customers) ==
    [Do("compare-customer-personalization", "balanced", AcceptedRide, {}, File(<<>>), 1)
        EXCEPT !.customers = customers]
ScenarioSessions ==
    Before({Scenario(customers) : customers \in (Customers \X Customers) \cup (NoCustomers \X NoCustomers)},
           {Rising})
    \cup Before({[Scenario(<<>>) EXCEPT !.content = content] : content \in {"json", "no json", "no customers"}},
                {Rising})

-----------------------------------------------------------------------------
(* Fares around the blocks of every strategy.                                 *)

Fares(f, g, h) ==
    <<Record(Ride(1, 1, 1, 5, 1), Outcome(1, f, 2)), Record(Ride(2, 2, 2, 4, 1), Outcome(2, g, 2)),
      Record(Ride(3, 1, 1, 5, 3), Outcome(3, h, 4))>>
CompareSessions ==
    Before({WithFile(name, Fares(f, g, h), 1)
                : name \in {"evaluate-baselines", "evaluate-optimizer", "evaluate-risk-profiles"},
                  f \in {5, 8}, g \in {4, 6}, h \in {2, 5, 9}},
           {Rising, Crossing})
    \* Sums that are no money, and a fare no regular candidate reaches.
    \cup Before({WithFile("evaluate-risk-profiles",
                          <<Record(Ride(1, 1, 1, est, 1), Outcome(1, fare, 2)),
                            Record(Ride(2, 2, 2, 8, 1), Outcome(2, 16, 2))>>, 1)
                    : est \in {8, 14}, fare \in {14, 16}},
                {Rising})

\* Files that are refused, by the parser or by the join.
Broken ==
    LET good == Record(Ride(1, 1, 1, 5, 1), Outcome(1, 5, 2))
    IN  {good,
         [good EXCEPT !.shape = "other"],
         Record(NoObject, Outcome(1, 5, 2)),
         Record(Ride(1, 1, 1, 5, 1), NoObject),
         [Record(Ride(1, 1, 1, 0, 1), Outcome(1, 0, 2)) EXCEPT !.unknown = {"fare"}],
         [good EXCEPT !.extra = {"actual_amount_paise"}],
         Record(Ride(1, 1, 1, 5, 1), Outcome(2, 0, 2)),
         Record([Ride(1, 1, 1, 0, 1) EXCEPT !["city"] = Text("unknown")], Outcome(1, 5, 2)),
         Record(Ride(2, 1, 1, 5, 1), [Outcome(2, 5, 2) EXCEPT !["completed_at"] = Text("without offset")]),
         Record(Ride(2, 1, 1, 5, 1), Outcome(2, 40, 2)),
         Record(Ride(2, 1, 1, 20, 1), Outcome(2, 20, 2)),
         Record(Ride(2, 1, 1, 5, 1), Outcome(3, 5, 2))}
FileSessions ==
    Before({WithFile(name, <<r, s>>, 1)
                : name \in {"evaluate-baselines", "evaluate-predictor", "train-predictor", "evaluate-risk-profiles"},
                  r, s \in Broken},
           {Rising})
    \cup Before({WithFile(name, <<>>, 1) : name \in {"evaluate-baselines", "evaluate-predictor"}}, {Rising})
    \cup Before({Do("evaluate-baselines", "-", AcceptedRide, {},
                    [unknown |-> unknown, metadata |-> metadata, shape |-> shape, records |-> <<>>], 1)
                    : unknown \in {{}, {"rides"}}, metadata \in {"absent", "object", "other"},
                      shape \in {"absent", "array", "other", "no object", "no json"}},
                {Rising})

-----------------------------------------------------------------------------
(* Rides under way.                                                           *)

NoRevision == [f \in Revisions |-> Missing]
Update(event, sequence, at, revisions) ==
    revisions @@ NoRevision @@
    [f \in RequiredInUpdate |->
        CASE f = "event_id" -> Named(event)
          [] f = "transaction_id" -> Named(9)
          [] f = "sequence_number" -> Number(sequence)
          [] f = "observed_at" -> At(at)
          [] OTHER -> Text("plain")]
NewEstimate(est) == "revised_estimated_amount_paise" :> Number(est)
NewDistance(distance) == "revised_distance_km" :> Real(distance)

\* A ride of customer 1 that follows the four, from time 9 to time 14.
Trip(est, fare, updates) ==
    Record(Ride(9, 1, 1, est, 9), Outcome(9, fare, 14))
    @@ [updates |-> updates, listed |-> TRUE, strays |-> {}]

\* Updates in order, out of order, repeated, and repeated with another content.
Courses ==
    {<<>>,
     <<Update(1, 1, 10, NewEstimate(8)), Update(2, 2, 11, NewEstimate(4)), Update(3, 3, 12, NewDistance(2))>>,
     <<Update(1, 1, 10, NewDistance(1))>>}
    \cup {<<Update(1, 1, 10, a), Update(e, n, t, b)>> :
            a \in {NewEstimate(8), NewDistance(2)}, b \in {NewEstimate(8), NewEstimate(2)},
            e \in 1 .. 2, n \in 1 .. 2, t \in 10 .. 11}

\* A number whose text is a date, such as 20240105.
Date(n) == [type |-> "int", number |-> n, text |-> "without offset"]

\* Trips that are refused.
BrokenTrips ==
    LET good == Trip(5, 6, <<Update(1, 1, 10, NewEstimate(8))>>)
        With(field, value) == [good EXCEPT !.updates[1][field] = value]
    IN  {[good EXCEPT !.unknown = {"fare"}], [good EXCEPT !.shape = "other"],
         [good EXCEPT !.listed = FALSE], [good EXCEPT !.strays = {"fare"}],
         [good EXCEPT !.transaction = NoObject], [good EXCEPT !.outcome = NoObject],
         [good EXCEPT !.updates[1] = NoObject], [good EXCEPT !.updates = <<NoObject>>, !.strays = {"fare"}],
         With("observed_at", Date(1)), Trip(0, 6, <<>>), Trip(14, 6, <<>>)}
        \cup {With(field, value) :
                field \in RequiredInUpdate \cup Revisions,
                value \in {Missing, Other("null"), Number(0), Number(9), Number(40), Text("blank"),
                           Text("without offset"), At(9), At(14), Other("nan")}}

OtherTrip ==
    [Trip(2, 6, <<Update(1, 1, 10, NewEstimate(4))>>)
        EXCEPT !.transaction["transaction_id"] = Named(10), !.outcome["transaction_id"] = Named(10),
               !.updates[1]["transaction_id"] = Named(10)]

TripSessions ==
    Before({[WithFile("run-dynamic-ride", records, 1)
                EXCEPT !.profile = "balanced", !.trip = Trip(5, fare, course), !.confirm = confirm]
                : course \in Courses, fare \in {5, 8}, confirm \in BOOLEAN,
                  records \in {FourRides, <<Record(Ride(1, 1, 1, 5, 2), Outcome(2, 5, 2))>>}},
           {Flat, Rising})
    \cup Before({[WithFile("evaluate-dynamic-reoptimization", <<Trip(5, fare, course), OtherTrip>>, 1)
                EXCEPT !.profile = "balanced"] : course \in Courses, fare \in {5, 8}},
                {Flat, Rising})
    \cup Before({[WithFile("evaluate-dynamic-reoptimization", <<Trip(5, 6, <<>>), Trip(5, fare, <<>>)>>, 1)
                EXCEPT !.profile = "balanced"] : fare \in {5, 8}},
                {Flat, Rising})
    \cup Before({[WithFile(name, <<trip>>, 1) EXCEPT !.profile = "balanced", !.trip = trip]
                    : name \in {"run-dynamic-ride", "evaluate-dynamic-reoptimization"},
                      trip \in BrokenTrips},
                {Rising})
    \cup Before({[Do("evaluate-dynamic-reoptimization", "balanced", AcceptedRide, {},
                     [unknown |-> {}, metadata |-> metadata, shape |-> shape, records |-> records], 1)
                    EXCEPT !.trip = Trip(5, 6, <<>>), !.name = name]
                    : name \in {"run-dynamic-ride", "evaluate-dynamic-reoptimization"},
                      metadata \in {"absent", "other"}, records \in {<<>>, <<Trip(5, 6, <<>>)>>},
                      shape \in {"array", "other", "no object", "no json"}},
                {Rising})

-----------------------------------------------------------------------------
(* Trainings that are overtaken, killed and repeated.                         *)

TrainingSessions ==
    {[typed |-> Typed(<<WithFile("train-predictor", FourRides, seed),
                        WithFile("train-predictor", IF seed = 1 THEN FourRides ELSE ThreeRides, 3 - seed)>>,
                      <<WithFile("evaluate-predictor", FourRides, 1)>>),
      models |-> {Rising}, trained |-> NoneTrained, lessons |-> NoLessons]
        : seed \in 1 .. 2}
    \* Two at the same time, and an evaluation of what they leave.
    \cup {[typed |-> Typed(<<WithFile("train-predictor", FourRides, 1),
                             WithFile("evaluate-predictor", FourRides, 1)>>,
                           <<WithFile("train-predictor", ThreeRides, 2)>>),
           models |-> {Rising}, trained |-> NoneTrained, lessons |-> NoLessons]}
    \cup {[typed |-> Typed(<<WithFile("train-personalized-predictor", FiveRides, 2)>>,
                           <<Do("predict-personalized-distribution", "balanced", Ride(9, 1, 1, 5, 8), {},
                                File(FourRides), 1)>>),
           models |-> {Rising}, trained |-> AllTrained, lessons |-> FirstLessons]}

MCSessions ==
    AnswerSessions \cup ValidationSessions \cup SweepSessions \cup CompareSessions
    \cup FileSessions \cup ScenarioSessions \cup TripSessions \cup TrainingSessions
=============================================================================
