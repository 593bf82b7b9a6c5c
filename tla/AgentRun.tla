------------------------------ MODULE AgentRun ------------------------------
(***************************************************************************)
(* AgentOrchestrator.run behind agent_decide: the reserve agent's bounded  *)
(* loop over an agent model and the tool registry, the explanation that    *)
(* derives the decision a second time, the orchestrator's counters and the *)
(* stored run.  Every reading of the customer's history goes to the        *)
(* provider again, while other requests ingest completed rides.            *)
(***************************************************************************)
EXTENDS Integers, Sequences, FiniteSets

CONSTANTS
    Runs,           \* agent runs, each in a thread of its own
    Model,          \* for each run, the agent model: "deterministic" or "any"
    Profiles,       \* risk profiles
    Request,        \* the profile each run is asked for
    Outcomes,       \* block, probability and score of an optimization, as one value
    Optimum,        \* the outcome for a number of completed rides and a profile
    MinHistory,     \* MINIMUM_PERSONALIZATION_HISTORY
    MaxSteps,       \* max_steps
    Faults,         \* what the store may fail: a subset of {"read", "write"}
    MaxRides,       \* bound: completed rides of the customer
    None            \* the null of an optional result

ASSUME AgentAssumption ==
    /\ Model \in [Runs -> {"deterministic", "any"}] /\ Request \in [Runs -> Profiles]
    /\ MinHistory \in Nat \ {0} /\ MaxSteps \in Nat /\ MaxRides \in Nat
    /\ Optimum \in [0 .. MaxRides -> [Profiles -> Outcomes]]
    \* The base model knows nothing of the customer.
    /\ \A m, n \in 0 .. MaxRides :
           m < MinHistory /\ n < MinHistory => Optimum[m] = Optimum[n]
    /\ Faults \subseteq {"read", "write"}
    /\ None \notin Outcomes \cup (0 .. MaxRides)

VARIABLES
    rides,          \* completed rides in the customer's history
    runs,           \* the state of each run
    counts,         \* the orchestrator's counters
    stored          \* the runs save_agent_run has stored

agentVars == <<rides, runs, counts, stored>>

Tools == {"get_customer_history", "get_transaction_prediction", "calculate_risk",
          "optimize_block", "get_merchant_history"}

Modes == {"base", "personalized"}

Mode(n) == IF n < MinHistory THEN "base" ELSE "personalized"

Decision == [outcome : Outcomes, profile : Profiles, mode : Modes]

Ended == {"failed", "unexplained", "answered", "unsaved"}

NewRun == [at |-> "idle", step |-> 0, prediction |-> None,
           optimization |-> None, trace |-> <<>>, decision |-> None, explained |-> None]

\* The tool has answered in this run: its output is in the state.
Answered(run, tool) ==
    \E i \in DOMAIN run.trace : run.trace[i] = [tool |-> tool, status |-> "succeeded"]

InLoop(r) == runs[r].at = "deciding" /\ runs[r].step < MaxSteps

Counted(counter) == counts' = [counts EXCEPT ![counter] = @ + 1]

\* An exception leaves the loop.
Fails(r, run) ==
    /\ runs' = [runs EXCEPT ![r] = [run EXCEPT !.at = "failed", !.step = @ + 1]]
    /\ Counted("failed_runs")
    /\ UNCHANGED <<rides, stored>>

-----------------------------------------------------------------------------
(* The agent model and the tools *)

CanonicalOrder == <<"get_customer_history", "get_transaction_prediction",
                    "calculate_risk", "optimize_block">>

\* The deterministic model asks for the first result it misses.
MayCall(r, tool) ==
    \/ Model[r] = "any"
    \/ \E i \in DOMAIN CanonicalOrder :
           /\ tool = CanonicalOrder[i] /\ ~Answered(runs[r], tool)
           /\ \A j \in 1 .. i - 1 : Answered(runs[r], CanonicalOrder[j])

MayFinalize(r, decision) ==
    LET run == runs[r] IN
    \/ Model[r] = "any"
    \/ /\ \A i \in DOMAIN CanonicalOrder : Answered(run, CanonicalOrder[i])
       /\ decision = [outcome |-> run.optimization, profile |-> Request[r],
                      mode |-> run.prediction]

\* Slip: optimize_block does not ask for a risk assessment.
ReadyWithoutRisk(run, tool) ==
    CASE tool = "get_transaction_prediction" -> Answered(run, "get_customer_history")
      [] tool \in {"calculate_risk", "optimize_block"} ->
             Answered(run, "get_transaction_prediction")
      [] OTHER -> TRUE

Ready(run, tool) ==
    CASE tool = "get_transaction_prediction" -> Answered(run, "get_customer_history")
      [] tool = "calculate_risk" -> Answered(run, "get_transaction_prediction")
      [] tool = "optimize_block" ->
             /\ Answered(run, "get_transaction_prediction")
             /\ Answered(run, "calculate_risk")
      [] OTHER -> TRUE

ReadsHistory(tool) ==
    tool \in {"get_customer_history", "get_transaction_prediction", "optimize_block"}

\* The run after a tool has answered.  optimize_block predicts anew, and takes
\* the profile it is given, not the one of the request.
WithResult(run, tool, profile) ==
    LET called == [run EXCEPT !.step = @ + 1,
                              !.trace = Append(@, [tool |-> tool, status |-> "succeeded"])]
    IN  CASE tool = "get_transaction_prediction" ->
                 [called EXCEPT !.prediction = Mode(rides)]
          [] tool = "optimize_block" ->
                 [called EXCEPT !.optimization = Optimum[rides][profile]]
          [] OTHER -> called

Consistent(r, decision) ==
    /\ decision.outcome = runs[r].optimization
    /\ decision.profile = Request[r]
    /\ decision.mode = runs[r].prediction

-----------------------------------------------------------------------------
Start(r) ==
    /\ runs[r].at = "idle"
    /\ runs' = [runs EXCEPT ![r].at = "deciding"]
    /\ Counted("total_runs")
    /\ UNCHANGED <<rides, stored>>

CallTool(r, tool, profile) ==
    /\ InLoop(r)
    /\ MayCall(r, tool)
    /\ Ready(runs[r], tool)
    /\ Model[r] = "deterministic" => profile = Request[r]
    /\ runs' = [runs EXCEPT ![r] = WithResult(@, tool, profile)]
    /\ UNCHANGED <<rides, counts, stored>>

\* A failing tool leaves its record behind.
ToolFails(r, tool) ==
    /\ InLoop(r)
    /\ MayCall(r, tool)
    /\ Ready(runs[r], tool)
    /\ ReadsHistory(tool) /\ "read" \in Faults
    /\ Fails(r, [runs[r] EXCEPT !.trace = Append(@, [tool |-> tool, status |-> "failed"])])

\* A tool out of order is refused before it runs, and leaves no record.
CallTooEarly(r, tool) ==
    /\ InLoop(r)
    /\ MayCall(r, tool)
    /\ ~Ready(runs[r], tool)
    /\ Fails(r, runs[r])

\* An unknown tool or action, arguments that do not belong to the request, a
\* missing decision.
ActIsMalformed(r) ==
    /\ InLoop(r)
    /\ Model[r] = "any"
    /\ Fails(r, runs[r])

Finalize(r, decision) ==
    /\ InLoop(r)
    /\ MayFinalize(r, decision)
    /\ Consistent(r, decision)
    /\ runs' = [runs EXCEPT ![r] = [runs[r] EXCEPT !.at = "decided", !.step = @ + 1,
                                                   !.decision = decision]]
    /\ UNCHANGED <<rides, counts, stored>>

DecisionRefused(r, decision) ==
    /\ InLoop(r)
    /\ MayFinalize(r, decision)
    /\ ~Consistent(r, decision)
    /\ Fails(r, runs[r])

\* Slip: the limit is looked for beyond the last step.
StepLimitMissed(r) ==
    /\ runs[r].at = "deciding"
    /\ runs[r].step > MaxSteps
    /\ runs' = [runs EXCEPT ![r].at = "failed"]
    /\ Counted("failed_runs")
    /\ UNCHANGED <<rides, stored>>

StepLimitExceeded(r) ==
    /\ runs[r].at = "deciding"
    /\ runs[r].step = MaxSteps
    /\ runs' = [runs EXCEPT ![r].at = "failed"]
    /\ Counted("failed_runs")
    /\ UNCHANGED <<rides, stored>>

-----------------------------------------------------------------------------
\* Slip: the explanation compares the prediction mode only.
DerivedMode(decision) == decision.mode = Mode(rides)

\* The explanation predicts and optimizes again, for the decision's profile.
DerivedAgain(decision) ==
    /\ decision.outcome = Optimum[rides][decision.profile]
    /\ decision.mode = Mode(rides)

Explain(r) ==
    /\ runs[r].at = "decided"
    /\ DerivedAgain(runs[r].decision)
    /\ runs' = [runs EXCEPT ![r] = [runs[r] EXCEPT !.at = "explained", !.explained = rides]]
    /\ Counted("successful_runs")
    /\ UNCHANGED <<rides, stored>>

\* Slip: the exception of the explanation counts as a failed run as well.
ExplainFailsTwice(r) ==
    /\ runs[r].at = "decided"
    /\ ~DerivedAgain(runs[r].decision) \/ "read" \in Faults
    /\ runs' = [runs EXCEPT ![r].at = "unexplained"]
    /\ counts' = [counts EXCEPT !.explanation_fallbacks = @ + 1, !.failed_runs = @ + 1]
    /\ UNCHANGED <<rides, stored>>

ExplainFails(r) ==
    /\ runs[r].at = "decided"
    /\ ~DerivedAgain(runs[r].decision) \/ "read" \in Faults
    /\ runs' = [runs EXCEPT ![r].at = "unexplained"]
    /\ Counted("explanation_fallbacks")
    /\ UNCHANGED <<rides, stored>>

Save(r) ==
    /\ runs[r].at = "explained"
    /\ stored' = stored \cup {r}
    /\ runs' = [runs EXCEPT ![r].at = "answered"]
    /\ UNCHANGED <<rides, counts>>

\* The write may be applied although the handler sees an error.
SaveFails(r) ==
    /\ runs[r].at = "explained"
    /\ "write" \in Faults
    /\ stored' \in {stored, stored \cup {r}}
    /\ runs' = [runs EXCEPT ![r].at = "unsaved"]
    /\ UNCHANGED <<rides, counts>>

\* Another request stores a ride completed before the run's transaction.
Ingest ==
    /\ rides < MaxRides
    /\ rides' = rides + 1
    /\ UNCHANGED <<runs, counts, stored>>

-----------------------------------------------------------------------------
Continue(r) ==
    \/ \E tool \in Tools :
           \/ \E profile \in Profiles : CallTool(r, tool, profile)
           \/ ToolFails(r, tool) \/ CallTooEarly(r, tool)
    \/ ActIsMalformed(r)
    \/ \E decision \in Decision : Finalize(r, decision) \/ DecisionRefused(r, decision)
    \/ StepLimitExceeded(r)
    \/ Explain(r) \/ ExplainFails(r)
    \/ Save(r) \/ SaveFails(r)

AgentInit ==
    /\ rides \in 0 .. MaxRides
    /\ runs = [r \in Runs |-> NewRun]
    /\ counts = [total_runs |-> 0, successful_runs |-> 0, failed_runs |-> 0,
                 explanation_fallbacks |-> 0]
    /\ stored = {}

AgentNext ==
    \/ \E r \in Runs : Start(r) \/ Continue(r)
    \/ Ingest

\* A run is straight-line code in the thread of its request.  That the calls it
\* makes of the database and of the agent model return is assumed: nothing in
\* the code bounds a stalled one.
AgentSpec == AgentInit /\ [][AgentNext]_agentVars /\ \A r \in Runs : WF_agentVars(Continue(r))

-----------------------------------------------------------------------------
(* Properties *)

\* Whatever the agent model did, and whatever rides were ingested between the
\* tools, a run that is answered or stored carries the decision that follows
\* from the history it is explained with, for the profile that was asked for:
\* not the optimum of another profile, and no mixture of two histories.
AnswerFollowsFromHistory ==
    \A r \in Runs :
        r \in stored \/ runs[r].at \in {"explained", "answered", "unsaved"} =>
            LET run == runs[r] IN
            /\ run.explained # None
            /\ run.decision = [outcome |-> Optimum[run.explained][Request[r]],
                               profile |-> Request[r],
                               mode    |-> Mode(run.explained)]

\* The audit trail tells how a decision came about: every tool in it ran after
\* the tools whose results it rests on, only its last record can be of a
\* failure, a decision rests on an optimization in it, and no run takes more than
\* max_steps steps.
TraceTellsTheRun ==
    \A r \in Runs :
        LET trace == runs[r].trace
            Before(i, tool) ==
                \E j \in 1 .. i - 1 : trace[j] = [tool |-> tool, status |-> "succeeded"]
        IN  /\ \A i \in DOMAIN trace :
                   /\ trace[i].tool = "get_transaction_prediction" =>
                          Before(i, "get_customer_history")
                   /\ trace[i].tool = "calculate_risk" =>
                          Before(i, "get_transaction_prediction")
                   /\ trace[i].tool = "optimize_block" => Before(i, "calculate_risk")
                   /\ trace[i].status = "failed" =>
                          i = Len(trace) /\ runs[r].at = "failed"
            /\ runs[r].decision # None => Before(Len(trace) + 1, "optimize_block")
            /\ runs[r].step <= MaxSteps

\* The counters partition the runs: every run that was begun and is no longer
\* going on was counted once, as a success, a failure or a failed explanation.
RunsAreCounted ==
    LET Going == {r \in Runs : runs[r].at \in {"deciding", "decided"}}
        Ending == {r \in Runs : runs[r].at \in {"explained"} \cup Ended}
    IN  /\ counts.total_runs = Cardinality(Going) + Cardinality(Ending)
        /\ counts.successful_runs + counts.failed_runs + counts.explanation_fallbacks
               = Cardinality(Ending)

\* Every run whose calls return ends, also when the agent model never comes to a
\* decision: max_steps bounds the loop.
EveryRunEnds == \A r \in Runs : runs[r].at = "deciding" ~> runs[r].at \in Ended
=============================================================================
