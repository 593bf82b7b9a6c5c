------------------------------ MODULE CommandLine ------------------------------
(***************************************************************************)
(* The offline commands of cli.py: validation, training, prediction,       *)
(* optimization and evaluation, typed at several terminals over the same   *)
(* artifact directories.  Every command reads its files, loads or saves    *)
(* artifacts and prints one report or one error; what happens between is   *)
(* taken from the modules this one extends.                                *)
(*                                                                         *)
(* Fitting and evaluating the regressors is library code: a model predicts *)
(* any of the raw quantiles given for the behaviour.                       *)
(***************************************************************************)
EXTENDS DynamicEvaluation, RideHistory, ArtifactStore

CONSTANTS
    Sessions,       \* what may be typed, and what the world is then like
    Shuffle         \* [seeds -> [lengths -> permutation]]: Random(seed).shuffle

\* A session: the commands of each terminal, the raw quantiles the models
\* predict, and the data of the artifacts that were there before.
ASSUME CommandAssumption ==
    /\ Kinds = {"base", "personalized"}
    /\ MaxPaise = MaxAmount
    /\ "balanced" \in Profiles
    /\ Profiles \cap {"exact_estimate", "fixed_buffer"} = {}
    /\ \A seed \in DOMAIN Shuffle : \A n \in DOMAIN Shuffle[seed] :
        /\ Shuffle[seed][n] \in [1 .. n -> 1 .. n]
        /\ {Shuffle[seed][n][i] : i \in 1 .. n} = 1 .. n

VARIABLES
    typed,      \* commands still to be typed at each terminal
    desk,       \* the command each terminal is at, or was at last
    models,     \* the raw quantiles that models predict
    lessons     \* what each artifact was trained on, by number of training

commandVars == <<disk, trained, alongside, jobs, typed, desk, models, lessons>>

-----------------------------------------------------------------------------
(* The stages of the commands, in the order of the code.                   *)

Answering == {"predict-distribution", "optimize-block", "compare-risk-profiles"}
Comparing == {"evaluate-optimizer", "evaluate-risk-profiles"}
AnsweringPersonally ==
    {"predict-personalized-distribution", "optimize-personalized-block", "explain-block"}

CommandNames ==
    {"validate-mobility", "evaluate-baselines", "train-predictor", "evaluate-predictor",
     "train-personalized-predictor", "evaluate-personalization",
     "compare-customer-personalization", "run-dynamic-ride", "evaluate-dynamic-reoptimization"}
    \cup Answering \cup Comparing \cup AnsweringPersonally

\* Random(seed) shuffles n rides.
Shuffles(seed, n) == seed \in DOMAIN Shuffle /\ n \in DOMAIN Shuffle[seed]

\* What is typed: a known command, with a step that OptimizationConfig takes and
\* files in which anything may be written.
IsCommand(command) ==
    /\ command.name \in CommandNames
    /\ command.step \in Nat \ {0}
    /\ command.content \in {"json", "no json", "no customers"}
    /\ AreParsed(command.ride, TransactionFields)
    /\ IsParsedFile(command.file)
    /\ command.customers \in Seq(Range(command.customers))
    /\ \A i \in DOMAIN command.customers :
        AreParsed(command.customers[i].ride, TransactionFields) /\ IsParsedFile(command.customers[i].file)
    /\ command.name = "train-predictor" =>
        \A n \in 0 .. Len(command.file.records) : Shuffles(command.seed, n)
    /\ command.name = "run-dynamic-ride" => IsParsedTrip(command.trip)
    /\ command.name = "evaluate-dynamic-reoptimization" =>
        \A i \in DOMAIN command.file.records : IsParsedTrip(command.file.records[i])

AreCommands(commands) ==
    /\ commands \in Seq(Range(commands))
    /\ \A i \in DOMAIN commands : IsCommand(commands[i])

\* What a base model was fitted to: rides that can be split, shuffled by a seed.
IsLesson(lesson) ==
    /\ lesson.records \in Seq(Range(lesson.records)) /\ CanSplit(lesson.records)
    /\ \A i, j \in DOMAIN lesson.records : lesson.records[i].id = lesson.records[j].id => i = j
    /\ Shuffles(lesson.seed, Len(lesson.records))

ASSUME SessionAssumption ==
    \A session \in Sessions :
        /\ DOMAIN session.typed = Processes /\ \A p \in Processes : AreCommands(session.typed[p])
        /\ \A raw \in session.models : IsRaw(raw)
        /\ DOMAIN session.lessons = Kinds
        /\ session.lessons["base"] \in Seq(Range(session.lessons["base"]))
        /\ Len(session.lessons["base"]) = session.trained["base"]
        /\ \A i \in DOMAIN session.lessons["base"] : IsLesson(session.lessons["base"][i])

Stages(name) ==
    CASE name = "validate-mobility" -> <<"read ride", "validate">>
      [] name = "evaluate-baselines" -> <<"read rides", "compare">>
      [] name = "train-predictor" -> <<"read rides", "learn", "save base">>
      [] name = "evaluate-predictor" -> <<"read rides", "load base", "evaluate">>
      [] name \in Answering -> <<"load base", "read ride", "answer">>
      [] name \in Comparing -> <<"load base", "read rides", "compare">>
      [] name = "train-personalized-predictor" ->
            <<"read rides", "load base", "join", "sweep", "learn cases", "save personalized">>
      [] name = "evaluate-personalization" ->
            <<"read rides", "load personalized", "load base", "join", "sweep", "evaluate cases">>
      [] name \in AnsweringPersonally ->
            <<"load personalized", "load base", "read rides", "provide history", "read ride", "answer">>
      [] name = "compare-customer-personalization" ->
            <<"load personalized", "load base", "read customers", "customers">>
      [] name = "run-dynamic-ride" ->
            <<"read scenario", "load personalized", "load base", "provide history", "follow">>
      [] name = "evaluate-dynamic-reoptimization" ->
            <<"read trips", "load personalized", "load base", "provide history", "follow trips">>

NoReport == [kind |-> "none"]
NoDesk == [status |-> "prompt"]
Running(p) == desk[p].status = "running"
Command(p) == desk[p].command
StageAt(p) == Stages(Command(p).name)[desk[p].at]
In(p, stage) == Running(p) /\ StageAt(p) = stage

Started(command) ==
    [status |-> "running", command |-> command, at |-> 1,
     base |-> <<>>, personalized |-> <<>>, sweep |-> SweepInit(<<>>), lesson |-> <<>>,
     answers |-> <<>>, report |-> NoReport]

\* The next stage; the end with a report; the end with exit code 2.
Advance(p) == desk' = [desk EXCEPT ![p].at = @ + 1]
Report(p, report) == desk' = [desk EXCEPT ![p].status = "done", ![p].report = report]
Refuse(p, report) == desk' = [desk EXCEPT ![p].status = "refused", ![p].report = report]

Elsewhere == UNCHANGED <<disk, trained, alongside, jobs, typed, models, lessons>>

-----------------------------------------------------------------------------
(* What a parsed file stands for.                                          *)

RideOf(payload) ==
    [id |-> payload["transaction_id"].number, customer |-> payload["customer_id"].number,
     city |-> payload["city"].number, est |-> payload["estimated_amount_paise"].number,
     start |-> payload["timestamp"].number]
OutcomeRead(payload) ==
    [id |-> payload["transaction_id"].number, fare |-> payload["actual_amount_paise"].number,
     end |-> payload["completed_at"].number]

RidesRead(p) == [i \in DOMAIN Command(p).file.records |-> RideOf(Command(p).file.records[i].transaction)]
OutcomesRead(p) == [i \in DOMAIN Command(p).file.records |-> OutcomeRead(Command(p).file.records[i].outcome)]

JoinFaults(p) == JoinIssues(RidesRead(p), OutcomesRead(p))
Rides(p) == Join(RidesRead(p), OutcomesRead(p))

Faults(kind, faults) == [kind |-> kind, faults |-> faults]

-----------------------------------------------------------------------------
(* Typing and reading.                                                     *)

Type(p) ==
    /\ ~Running(p)
    /\ typed[p] # <<>>
    /\ desk' = [desk EXCEPT ![p] = Started(Head(typed[p]))]
    /\ typed' = [typed EXCEPT ![p] = Tail(@)]
    /\ UNCHANGED <<disk, trained, alongside, jobs, models, lessons>>

\* A file with one ride.
ContextFaults(command) ==
    IF command.content = "no json" THEN Fault("$", "invalid_json")
    ELSE TransactionFaults(command.ride, command.unknown)

ReadRide(p) ==
    LET faults == ContextFaults(Command(p)) IN
    /\ In(p, "read ride")
    /\ IF faults = {} THEN Advance(p) ELSE Refuse(p, Faults("context", faults))
    /\ Elsewhere

ReadRides(p) ==
    LET faults == DatasetFaults(Command(p).file) IN
    /\ In(p, "read rides")
    /\ IF faults = {} THEN Advance(p) ELSE Refuse(p, Faults("file", faults))
    /\ Elsewhere

Validate(p) ==
    /\ In(p, "validate")
    /\ Report(p, [kind |-> "valid"])
    /\ Elsewhere

-----------------------------------------------------------------------------
(* Artifacts.                                                              *)

SavesTo(k) == IF k = "base" THEN "save base" ELSE "save personalized"
LoadsFrom(k) == IF k = "base" THEN "load base" ELSE "load personalized"

Load(p, k) ==
    /\ In(p, LoadsFrom(k))
    /\ StartLoad(p, k)
    /\ UNCHANGED <<typed, desk, models, lessons>>

UseFiles(p) ==
    /\ OpenFile(p) \/ WriteFile(p) \/ ReadFile(p) \/ FailToRead(p) \/ FinishLoad(p)
    /\ UNCHANGED <<typed, desk, models, lessons>>

LoadReturns(p) ==
    /\ Dispose(p)
    /\ IF IsDoing(p, "loaded")
       THEN desk' = [desk EXCEPT ![p].at = @ + 1, ![p][jobs[p].kind] = jobs[p].seen]
       ELSE Refuse(p, [kind |-> "no artifact"])
    /\ UNCHANGED <<typed, models, lessons>>

Save(p, k) ==
    /\ In(p, SavesTo(k))
    /\ StartSave(p, k)
    /\ lessons' = [lessons EXCEPT ![k] = Append(@, desk[p].lesson)]
    /\ UNCHANGED <<typed, desk, models>>

SaveReturns(p) ==
    /\ FinishSave(p)
    /\ Report(p, [kind |-> "trained"])
    /\ UNCHANGED <<typed, models, lessons>>

\* The process is killed in the midst of saving.
Killed(p) ==
    /\ AbandonSave(p)
    /\ Refuse(p, [kind |-> "killed"])
    /\ UNCHANGED <<typed, models, lessons>>

-----------------------------------------------------------------------------
(* Training and evaluating the base model.                                 *)

Shuffled(records, seed) ==
    [i \in DOMAIN records |-> records[Shuffle[seed][Len(records)][i]]]

\* Slip: the test part of the rides in their order, not in the shuffled one.
HeldOutInOrder(records, seed) == Split(records).test
HeldOut(records, seed) == Split(Shuffled(records, seed)).test

Learnt(records, seed) == Split(Shuffled(records, seed)).train

Learn(p) ==
    /\ In(p, "learn")
    /\ IF JoinFaults(p) # {} THEN Refuse(p, Faults("join", JoinFaults(p)))
       ELSE IF ~CanSplit(Rides(p)) THEN Refuse(p, [kind |-> "too few rides"])
       ELSE desk' = [desk EXCEPT ![p].at = @ + 1,
                                 ![p].lesson = [records |-> Rides(p), seed |-> Command(p).seed]]
    /\ Elsewhere

\* The artifact's metadata name the rides and the seed of a training: when the
\* rides are the same ones, those it held out are evaluated.
LessonNamed(p) == lessons["base"][desk[p].base[1]]
AreTheLearnt(p) == Rides(p) = LessonNamed(p).records
Evaluable(p) == IF AreTheLearnt(p) THEN HeldOut(Rides(p), LessonNamed(p).seed) ELSE Rides(p)

PredictorReport(p, raws, baseline) ==
    [kind |-> "predictor",
     scope |-> IF AreTheLearnt(p) THEN "held_out_test_split" ELSE "external_all_records",
     evaluated |-> Evaluable(p), raws |-> raws,
     quality |-> Quality(Evaluable(p), raws), baseline |-> Quality(Evaluable(p), baseline)]

EvaluatePredictor(p) ==
    /\ In(p, "evaluate")
    /\ IF JoinFaults(p) # {} THEN Refuse(p, Faults("join", JoinFaults(p)))
       ELSE IF Rides(p) = <<>> THEN Refuse(p, [kind |-> "too few rides"])
       ELSE \E raws, baseline \in [Ids(Evaluable(p)) -> models] :
            Report(p, PredictorReport(p, raws, baseline))
    /\ Elsewhere

-----------------------------------------------------------------------------
(* Answers about one ride.                                                 *)

ProvideHistory(p) ==
    LET malformed == Malformed(Rides(p)) IN
    /\ In(p, "provide history")
    /\ IF JoinFaults(p) # {} THEN Refuse(p, Faults("join", JoinFaults(p)))
       ELSE IF malformed # {} THEN Refuse(p, Faults("malformed", malformed))
       ELSE Advance(p)
    /\ Elsewhere

\* Commands that answer with blocks, and for which profiles.
Asked(command) ==
    CASE command.name = "compare-risk-profiles" -> Profiles
      [] command.name \in {"optimize-block", "optimize-personalized-block", "explain-block"} -> {command.profile}
      [] OTHER -> {}

AnswerTo(ride, history, raw, step, asked) ==
    [kind |-> "answer", est |-> ride.est, step |-> step, raw |-> raw, q |-> Repaired(raw),
     blocks |-> [profile \in asked |-> RecommendFor(ride.est, Repaired(raw), step, profile)],
     history |-> history, mode |-> Mode(history)]

HasBlocks(answer) ==
    \A profile \in DOMAIN answer.blocks : answer.blocks[profile] \notin {Unreachable, TooManySteps}

Answer(p) ==
    LET ride == RideOf(Command(p).ride)
        history == IF Command(p).name \in AnsweringPersonally
                   THEN FeaturesFor(Rides(p), ride) ELSE Features(<<>>)
    IN
    /\ In(p, "answer")
    /\ \E raw \in models :
        LET answer == AnswerTo(ride, history, raw, Command(p).step, Asked(Command(p)))
        IN  IF HasBlocks(answer) THEN Report(p, answer) ELSE Refuse(p, answer)
    /\ Elsewhere

\* A scenario of customers.
ReadCustomers(p) ==
    /\ In(p, "read customers")
    /\ CASE Command(p).content = "json" -> Advance(p)
         [] Command(p).content = "no json" -> Refuse(p, Faults("scenario", Fault("$", "invalid_json")))
         [] OTHER -> Refuse(p, [kind |-> "no customers"])
    /\ Elsewhere

\* The customers are answered one after the other, each with a ride and a
\* history; the first that is refused ends the command.
Customer(p) == Command(p).customers[Len(desk[p].answers) + 1]

CompareCustomer(p) ==
    LET customer == Customer(p)
        rides == [i \in DOMAIN customer.file.records |-> RideOf(customer.file.records[i].transaction)]
        outcomes == [i \in DOMAIN customer.file.records |-> OutcomeRead(customer.file.records[i].outcome)]
        joined == Join(rides, outcomes)
        ride == RideOf(customer.ride)
        ofRide == TransactionFaults(customer.ride, customer.unknown)
        ofFile == DatasetFaults(customer.file)
    IN
    /\ In(p, "customers")
    /\ Len(desk[p].answers) < Len(Command(p).customers)
    /\ IF customer.shape # "object" THEN Refuse(p, [kind |-> "no customer"])
       ELSE IF ofRide # {} THEN Refuse(p, Faults("context", ofRide))
       ELSE IF ofFile # {} THEN Refuse(p, Faults("file", ofFile))
       ELSE IF JoinIssues(rides, outcomes) # {} THEN Refuse(p, Faults("join", JoinIssues(rides, outcomes)))
       ELSE IF Malformed(joined) # {} THEN Refuse(p, Faults("malformed", Malformed(joined)))
       ELSE \E raw \in models :
            LET answer == AnswerTo(ride, FeaturesFor(joined, ride), raw, Command(p).step,
                                   {Command(p).profile})
            IN  IF HasBlocks(answer)
                THEN desk' = [desk EXCEPT ![p].answers = Append(@, answer)]
                ELSE Refuse(p, answer)
    /\ Elsewhere

\* Answers are listed by the customer's label, the later one replacing the
\* earlier one of the same label.
CustomersCompared(p) ==
    LET customers == Command(p).customers IN
    /\ In(p, "customers")
    /\ Len(desk[p].answers) = Len(customers)
    /\ Report(p, [kind |-> "customers",
                  answers |-> [label \in {customers[i].label : i \in DOMAIN customers} |->
                                desk[p].answers[Max({i \in DOMAIN customers : customers[i].label = label})]]])
    /\ Elsewhere

-----------------------------------------------------------------------------
(* Rides under way, without a payment provider.                            *)

ReadScenario(p) ==
    LET faults == ScenarioFaults(Command(p).trip, Command(p).file) IN
    /\ In(p, "read scenario")
    /\ IF faults = {} THEN Advance(p) ELSE Refuse(p, Faults("trips", faults))
    /\ Elsewhere

ReadTrips(p) ==
    LET faults == TripsFaults(Command(p).file) IN
    /\ In(p, "read trips")
    /\ IF faults = {} THEN Advance(p) ELSE Refuse(p, Faults("trips", faults))
    /\ Elsewhere

\* One ride, its additional blocks confirmed or only recommended.
Follow(p) ==
    LET trip == Command(p).trip
        confirming == Command(p).confirm
    IN
    /\ In(p, "follow")
    /\ \E raws \in [ContextsOf(<<trip>>) -> models] :
        LET s == Ridden(trip, Targets(raws, Command(p).step, Command(p).profile), confirming)
        IN  IF s.stopped # "no" THEN Refuse(p, [kind |-> "stopped", why |-> s.stopped])
            ELSE Report(p, [kind |-> "ride", confirming |-> confirming, session |-> s,
                            static |-> s.initial >= OutcomeRead(trip.outcome).fare,
                            dynamic |-> s.block >= OutcomeRead(trip.outcome).fare])
    /\ Elsewhere

\* All rides of a file; the first that is stopped ends the command.
AllRidden(trips, targets) ==
    [i \in DOMAIN trips |-> Ridden(trips[i], targets, TRUE)]

TripsReport(trips, sessions) ==
    LET figures == DynamicReport(trips, sessions)
        stopped == Selected(LAMBDA s : s.stopped # "no", sessions)
    IN  IF stopped # <<>> THEN [kind |-> "stopped", why |-> stopped[1].stopped]
        ELSE IF ~HasMetrics(figures.static) \/ ~HasMetrics(figures.dynamic) THEN [kind |-> "out of range"]
        ELSE [kind |-> "rides", count |-> Len(trips), sessions |-> sessions, figures |-> figures]

FollowTrips(p) ==
    LET trips == Command(p).file.records IN
    /\ In(p, "follow trips")
    /\ \E raws \in [ContextsOf(trips) -> models] :
        LET targets == Targets(raws, Command(p).step, Command(p).profile)
            report == TripsReport(trips, AllRidden(trips, targets))
        IN  IF report.kind = "rides" THEN Report(p, report) ELSE Refuse(p, report)
    /\ Elsewhere

-----------------------------------------------------------------------------
(* Strategies over the same rides.                                         *)

CompareFaults(p) ==
    JoinFaults(p)
    \cup (IF RidesRead(p) = <<>> THEN Fault("transactions", "empty_dataset") ELSE {})

ComparisonReport(compared, rides, raws, step) ==
    LET metrics == Compared(compared, rides, raws, step)
        optimized == compared \ {"exact_estimate", "fixed_buffer"}
    IN  IF ~Comparable(compared, rides, raws, step) THEN [kind |-> "no block"]
        ELSE IF \E s \in compared : ~HasMetrics(metrics[s]) THEN [kind |-> "out of range"]
        ELSE [kind |-> "comparison", rides |-> rides, raws |-> raws, metrics |-> metrics,
              diagnostics |-> [s \in optimized |-> Diagnostics(s, rides, raws, step)],
              byCity |-> [s \in optimized \cap Profiles |-> ByCity(s, rides, raws, step)]]

Compare(p) ==
    /\ In(p, "compare")
    /\ IF CompareFaults(p) # {} THEN Refuse(p, Faults("join", CompareFaults(p)))
       ELSE \E raws \in [Ids(Rides(p)) -> models] :
            LET report == ComparisonReport(ComparedBy(Command(p).name), Rides(p), raws, Command(p).step)
            IN  IF report.kind = "comparison" THEN Report(p, report) ELSE Refuse(p, report)
    /\ Elsewhere

-----------------------------------------------------------------------------
(* Personalized records, swept in order of time, and what is made of them. *)

Sweeping(p) == desk[p].sweep

\* The rides are joined, and swept unless one ends before it starts.
BeginSweep(p) ==
    LET malformed == Malformed(Rides(p)) IN
    /\ In(p, "join")
    /\ IF JoinFaults(p) # {} THEN Refuse(p, Faults("join", JoinFaults(p)))
       ELSE IF malformed # {} THEN Refuse(p, Faults("malformed", malformed))
       ELSE desk' = [desk EXCEPT ![p].at = @ + 1, ![p].sweep = SweepInit(Rides(p))]
    /\ Elsewhere

SweepOn(p) ==
    /\ In(p, "sweep")
    /\ Sweeping(p).todo # <<>>
    /\ desk' = [desk EXCEPT ![p].sweep = IF Due(@) THEN Release(@) ELSE Build(@)]
    /\ Elsewhere

EndSweep(p) ==
    /\ In(p, "sweep")
    /\ Sweeping(p).todo = <<>>
    /\ IF CanSplit(Sweeping(p).built) THEN Advance(p) ELSE Refuse(p, [kind |-> "too few rides"])
    /\ Elsewhere

\* The rides with enough history for the personalized model.
WithEnough(cases) == {c.ride.id : c \in {x \in Range(cases) : Mode(x.history) = "personalized"}}

\* The blocks either prediction leads to for the balanced profile.
Downstream(rides, raws, step) == MetricsOf(rides, BlocksBy("balanced", rides, raws, step))

HasDownstream(cases, base, personal, step) ==
    \A raws \in {base, Fallback(base, personal, WithEnough(cases))} :
        /\ Comparable({"balanced"}, RidesOf(cases), raws, step)
        /\ HasMetrics(Downstream(RidesOf(cases), raws, step))

\* The model just fitted is evaluated with the other two parts of the split
\* before it is saved.
LearnCases(p) ==
    LET parts == Split(Sweeping(p).built)
        others == parts.validation \o parts.test
    IN
    /\ In(p, "learn cases")
    /\ IF Eligible(parts.train) = <<>> THEN Refuse(p, [kind |-> "no eligible rides"])
       ELSE \E base, personal \in [Ids(RidesOf(others)) -> models] :
            IF ~\A part \in {parts.validation, parts.test} :
                    HasDownstream(part, base, personal, Command(p).step)
            THEN Refuse(p, [kind |-> "no block"])
            ELSE desk' = [desk EXCEPT ![p].at = @ + 1,
                            ![p].lesson = [records |-> Sweeping(p).built, seed |-> Command(p).seed]]
    /\ Elsewhere

CasesReport(p, test, base, personal) ==
    LET rides == RidesOf(test)
        step == Command(p).step
        enough == WithEnough(test)
        column == Fallback(base, personal, enough)
    IN  [kind |-> "personalization", test |-> test,
         same |-> Sweeping(p).built = lessons["personalized"][desk[p].personalized[1]].records,
         overall |-> Cohort(test, base, personal, enough),
         depths |-> Grouped(ByDepth(test), base, personal, enough),
         segments |-> Grouped(BySegment(test, enough), base, personal, enough),
         downstream |-> <<Downstream(rides, base, step), Downstream(rides, column, step)>>]

EvaluateCases(p) ==
    LET test == Split(Sweeping(p).built).test IN
    /\ In(p, "evaluate cases")
    /\ \E base, personal \in [Ids(RidesOf(test)) -> models] :
        IF HasDownstream(test, base, personal, Command(p).step)
        THEN Report(p, CasesReport(p, test, base, personal))
        ELSE Refuse(p, [kind |-> "no block"])
    /\ Elsewhere

-----------------------------------------------------------------------------
CommandInit ==
    /\ ArtifactInit
    /\ \E session \in Sessions :
        /\ typed = session.typed
        /\ models = session.models
        /\ trained = session.trained
        /\ lessons = session.lessons
    /\ desk = [p \in Processes |-> NoDesk]

CommandNext ==
    \E p \in Processes :
        \/ Type(p) \/ ReadRide(p) \/ ReadRides(p) \/ Validate(p)
        \/ \E k \in Kinds : Load(p, k) \/ Save(p, k)
        \/ UseFiles(p) \/ LoadReturns(p) \/ SaveReturns(p) \/ Killed(p)
        \/ Learn(p) \/ EvaluatePredictor(p)
        \/ ProvideHistory(p) \/ Answer(p) \/ Compare(p)
        \/ ReadScenario(p) \/ ReadTrips(p) \/ Follow(p) \/ FollowTrips(p)
        \/ ReadCustomers(p) \/ CompareCustomer(p) \/ CustomersCompared(p)
        \/ BeginSweep(p) \/ SweepOn(p) \/ EndSweep(p) \/ LearnCases(p) \/ EvaluateCases(p)

CommandSpec == CommandInit /\ [][CommandNext]_commandVars

-----------------------------------------------------------------------------
(* Properties *)

Reported(p, kind) ==
    /\ desk[p].status \in {"done", "refused"}
    /\ desk[p].report.kind = kind

\* The answers on the desk, of this ride or of the customers of a scenario.
Answers(p) ==
    CASE Reported(p, "answer") -> {desk[p].report}
      [] Reported(p, "customers") -> Range(desk[p].report.answers)
      [] OTHER -> {}

Answered(block) == block \notin {Unreachable, TooManySteps}

\* Every block answered is the cheapest of the whole price range on offer that
\* meets the target, the smallest among equals, and a refusal means that there
\* is none: the candidates, the filter, the area and the tie-break together.
BlockIsBest ==
    \A p \in Processes : \A r \in Answers(p) :
        \A profile \in DOMAIN r.blocks :
            IsCheapest(r.est, r.q, r.step, TargetOf(profile), r.blocks[profile])

\* The probability reported with a block is that of the published quantiles:
\* these never cross however the models disagree and never fall below a
\* model's own, F runs straight between them, and a block chosen for a target
\* reaches the quantile of the target, but for the published ties.
CoverageIsHonest ==
    \A p \in Processes : \A r \in Answers(p) :
        /\ IsPublished(r.q)
        /\ \A i \in DOMAIN r.q : r.q[i] >= r.raw[i] /\ r.q[i] \in Amounts(r.raw)
        /\ IsInterpolated(r.q, 0, r.q[Top] + 1)
        /\ \A profile \in DOMAIN r.blocks :
            Answered(r.blocks[profile]) => ReachesQuantile(r.q, TargetOf(profile), r.blocks[profile])

\* A merchant who asks for more certainty never reserves less: block by block
\* in one comparison, and in the figures over many rides, where every profile
\* meets its target for each ride.
StricterProfileReservesMore ==
    \A p \in Processes : \A lax, strict \in Profiles :
        Target[lax] <= Target[strict] =>
            /\ Reported(p, "answer") /\ Profiles \subseteq DOMAIN desk[p].report.blocks =>
                LET blocks == desk[p].report.blocks IN
                Answered(blocks[strict]) => Answered(blocks[lax]) /\ blocks[lax] <= blocks[strict]
            /\ Reported(p, "comparison") /\ Profiles \subseteq DOMAIN desk[p].report.metrics =>
                LET metrics == desk[p].report.metrics IN
                /\ metrics[lax].successes <= metrics[strict].successes
                /\ metrics[lax].blocked <= metrics[strict].blocked
                /\ metrics[lax].averageExcess <= metrics[strict].averageExcess
                /\ desk[p].report.diagnostics[lax].satisfied = metrics[lax].count

\* No ride is predicted from what was not known when it started: the sweep
\* hands every ride the history that looking it up would give, in order of
\* time, and no part of the split reaches back before an earlier one.
SweepIsCausal ==
    \A p \in Processes :
        desk[p].status # "prompt" =>
            LET built == Sweeping(p).built
                parts == Split(built)
            IN  /\ \A i \in DOMAIN built :
                    /\ built[i].history = FeaturesFor(Rides(p), built[i].ride)
                    /\ AreFeatures(built[i].history)
                    /\ i > 1 => built[i - 1].ride.start <= built[i].ride.start
                /\ Sweeping(p).todo = <<>> /\ CanSplit(built) =>
                    /\ Range(RidesOf(built)) = Range(Rides(p))
                    /\ \A part \in {"train", "validation", "test"} : parts[part] # <<>>
                    /\ parts.train \o parts.validation \o parts.test = built

\* What is reported as held out was held out: the artifact, if its files are of
\* one training, was fitted on none of the rides it is evaluated with, whatever
\* was trained and saved meanwhile.
HeldOutIsUnseen ==
    \A p \in Processes : Reported(p, "predictor") =>
        LET r == desk[p].report
            seen == desk[p].base
            lesson == lessons["base"][seen[1]]
        IN  /\ r.evaluated # <<>>
            /\ r.scope = "held_out_test_split" /\ (\A i \in DOMAIN seen : seen[i] = seen[1]) =>
                Ids(r.evaluated) \cap Ids(Learnt(lesson.records, lesson.seed)) = {}

AddsUp(whole, parts, Figure(_)) ==
    Figure(whole) = SumFunction([g \in DOMAIN parts |-> Figure(parts[g])])

Gap(a, b) == Max({a - b, b - a})

MetricsAddUp(m) ==
    /\ m.successes + m.shortfalls = m.count
    /\ Gap(m.successRate + m.shortfallRate, RatioUnit) <= 1
    /\ Gap(m.count * (m.averageExcess - m.averageUnder), m.blocked - m.actual) <= m.count
    /\ 2 * Gap(m.efficiency * m.blocked, RatioUnit * (m.blocked - m.averageExcess * m.count))
            <= m.blocked + RatioUnit * m.count

QualityAddsUp(q) ==
    /\ \A i \in 1 .. Top - 1 : q.covered[i] <= q.covered[i + 1]
    /\ q.inside <= q.covered[LevelIndex(95)]
    /\ q.crossed <= q.crossedPairs
    /\ AddsUp(q, q.byCity, LAMBDA x : x.count)
    /\ SumFunction(q.loss) = SumFunction([city \in DOMAIN q.byCity |-> q.byCity[city].loss])

CohortAddsUp(c) ==
    /\ c.fallback + c.personalized = c.count
    /\ c.personalized = 0 => c.base = c.personal
    /\ QualityAddsUp(c.base) /\ QualityAddsUp(c.personal)

\* A ride's block never falls, and at its end is the largest block recommended
\* along the way if every increase was confirmed, and the first if none was.
SessionAddsUp(s, confirming) ==
    LET decisions == [i \in DOMAIN s.processed |-> s.processed[i].decision]
        targets == {decisions[i].target : i \in DOMAIN decisions}
    IN  /\ s.block = IF confirming THEN Max({s.initial} \cup targets) ELSE s.initial
        /\ Total(LAMBDA d : d.additional, decisions) >= s.block - s.initial
        /\ Len(s.additions) = s.updates /\ s.updates >= Len(s.processed)

\* Raising blocks along the way costs no collection that the first block would
\* have made: the rides it saves are all the difference between the columns.
DynamicAddsUp(count, r) ==
    LET saved == r.benefits[[static |-> FALSE, dynamic |-> TRUE]] IN
    /\ MetricsAddUp(r.static) /\ MetricsAddUp(r.dynamic)
    /\ r.static.actual = r.dynamic.actual /\ r.static.blocked <= r.dynamic.blocked
    /\ r.benefits[[static |-> TRUE, dynamic |-> FALSE]] = 0
    /\ r.dynamic.successes = r.static.successes + saved
    /\ SumFunction(r.benefits) = count
    /\ saved <= count - r.unchanged
    /\ Gap(r.averageFinal - r.averageInitial, r.averageRaise) <= 1
    /\ r.averageRaise <= r.averageTriggered /\ r.median <= r.largest
    /\ r.updates > 0 => Gap(r.sufficientRate + r.increaseRate, RatioUnit) <= 1
    /\ count - r.unchanged <= r.increases /\ r.increases <= r.updates

ComparisonAddsUp(r) ==
    /\ \A s \in DOMAIN r.metrics :
        /\ MetricsAddUp(r.metrics[s])
        /\ r.metrics[s].actual = r.metrics["exact_estimate"].actual
        /\ r.metrics[s].count = Len(r.rides)
    /\ r.metrics["exact_estimate"].successes <= r.metrics["fixed_buffer"].successes
    /\ \A s \in DOMAIN r.byCity : \A figure \in {"count", "successes", "blocked", "actual"} :
        r.metrics[s][figure] = SumFunction([c \in DOMAIN r.byCity[s] |-> r.byCity[s][c].metrics[figure]])

PersonalizationAddsUp(r) ==
    /\ CohortAddsUp(r.overall)
    /\ \A figure \in {"count", "fallback", "personalized"} :
        AddsUp(r.overall, r.depths, LAMBDA x : x[figure])
    /\ \A i \in DOMAIN Levels : AddsUp(r.overall, r.depths, LAMBDA x : x.personal.covered[i])
    /\ \A g \in DOMAIN r.segments :
        r.segments[g].fallback = 0 /\ r.segments[g].count <= r.overall.personalized
    /\ \A i \in 1 .. 2 : MetricsAddUp(r.downstream[i])

RideAddsUp(r) == SessionAddsUp(r.session, r.confirming) /\ (r.static => r.dynamic)

RidesAddUp(r) ==
    /\ DynamicAddsUp(r.count, r.figures)
    /\ \A i \in DOMAIN r.sessions : SessionAddsUp(r.sessions[i], TRUE)

\* The figures of a report agree with one another: successes and shortfalls,
\* averages and totals within their rounding, all strategies over the same
\* fares, cities and depths of history as parts of the whole, more coverage for
\* higher quantiles, equal columns where no ride has enough history, and blocks
\* of rides under way that are the largest recommended.
ReportsAddUp ==
    \A p \in Processes :
        LET r == desk[p].report IN
        /\ Reported(p, "comparison") => ComparisonAddsUp(r)
        /\ Reported(p, "personalization") => PersonalizationAddsUp(r)
        /\ Reported(p, "ride") => RideAddsUp(r)
        /\ Reported(p, "rides") => RidesAddUp(r)

IsAcceptedRide(ride, unknown) == IsObject(ride) /\ IsContext(ride) /\ unknown = {}

IsAccepted(customer) ==
    /\ customer.shape = "object" /\ IsAcceptedRide(customer.ride, customer.unknown)
    /\ \A i \in DOMAIN customer.file.records : IsRecord(customer.file.records[i])

\* The ride and the file a command was at when it ended: of a scenario, those of
\* the customer after the answered ones.
ComparesCustomers(d) == d.command.name = "compare-customer-personalization"
LookedAt(d) == IF ComparesCustomers(d) THEN d.command.customers[Len(d.answers) + 1] ELSE d.command

\* The fields of a ride that are at fault.
FaultyInRide(d) ==
    IF (~ComparesCustomers(d) /\ d.command.content = "no json") \/ ~IsObject(LookedAt(d).ride) THEN {"$"}
    ELSE Faulty(LookedAt(d).ride, AcceptedRide) \cup LookedAt(d).unknown

\* The command d ended with uses what is accepted, and tells all that is not.
FaultsAreTold(d) ==
    LET kind == d.report.kind
        command == d.command
        faults == d.report.faults
    IN
    /\ kind \in {"valid", "answer"} /\ ~ComparesCustomers(d) =>
        IsAcceptedRide(command.ride, command.unknown)
    /\ kind = "answer" /\ ComparesCustomers(d) =>
        \A i \in 1 .. Len(d.answers) + 1 : IsAccepted(command.customers[i])
    /\ kind = "customers" =>
        \A i \in DOMAIN command.customers : IsAccepted(command.customers[i])
    /\ kind \in {"comparison", "predictor", "personalization", "trained"} =>
        \A i \in DOMAIN command.file.records : IsRecord(command.file.records[i])
    /\ kind = "ride" => IsTrip(command.trip)
    /\ kind = "rides" => \A i \in DOMAIN command.file.records : IsTrip(command.file.records[i])
    /\ kind = "context" => {fault[1] : fault \in faults} = FaultyInRide(d)
    /\ kind = "file" =>
        {<<fault[1], <<fault[2][1], fault[2][2][1]>>>> : fault \in faults} = FaultyInFile(LookedAt(d).file)

\* A command uses a ride or a dataset only if the domain types accept all of it.
\* One that is refused, by itself or as a customer's of a scenario, is refused
\* with everything that is wrong at once: every faulty field of every record, of
\* its transaction and of its outcome, and no other; or, when its head is faulty,
\* every faulty field of that.  Trips are not told of in full, but used only if
\* accepted.
EveryFaultIsReported ==
    \A p \in Processes : desk[p].status \in {"done", "refused"} => FaultsAreTold(desk[p])
=============================================================================
