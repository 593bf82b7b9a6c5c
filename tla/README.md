# A verification project for the Reserve Pay block optimizer

TLA+ models of the parts of `reserve-pay-block-optimizer` that move or promise
money, the TLC configurations that check them on small instances, and proofs
that hold for every instance. Paths below are relative to
`src/reserve_pay_optimizer/` unless they start with `docs/` or are `README.md`.

To check a module run `tlc -config X.cfg MCX`; to check the proofs run `tlapm`
on the modules whose names end in `_proofs` or `Facts`.

## 1. Inventory: the system and its hard parts

| component | state it keeps | operations | hard behaviour |
|---|---|---|---|
| Reserve provider (`reserve_pay/mock_provider.py`, `idempotency.py`, `state.py`, `models.py`) | blocks, idempotency registry, injected failures | create, increase, debit, release, status | replay, key conflicts, failures before execution, accounting boundaries, Money overflow |
| Reserve Pay service (`reserve_pay/service.py`) | audit events | the same operations with a retry loop | retries interleaving with other callers, errors of an unexpected family |
| Settlement (`service.py:375`) | settlement registry | status, debit, release in sequence | failing half way, being begun again under the same key |
| Dynamic ride session (`dynamic/service.py`) | an immutable session passed from call to call | context update, confirmation | duplicate, late and out-of-order events, dropped sessions |
| Dynamic execution (`service.py:276-373`, `cli.py`, `web/services.py`) | none of its own | request, increase, confirm | the session and the provider drifting apart |
| Dashboard (`web/services.py`, `web/app.py`) | one provider shared by all threads | authorize, optimize, what-if, demo, agent, ingest | check-then-act races in the thread pool |
| Application store (`web/storage.py`) | run records, completed rides | save, find, history features | races of processes, lost acknowledgements |
| Agents (`agents/`) | run state, counters | bounded tool loop, explanation | order of tools, step limit, history read twice |
| Optimizer and risk policy (`optimization/`, `policy/`, `strategies/`) | none | candidates, distribution function, objective, filter | boundaries, ties, quantiles published with one amount |
| Personalization and prediction (`personalization/`, `prediction/`) | trained models | histories, the sweep, splits, quantiles | time cut-offs, overlapping rides, monotone repair |
| Artifacts (`prediction/persistence.py`, `personalization/persistence.py`) | a directory of files per model | save and load, file by file | loads and saves overlapping saves, saves broken off, retraining in place |
| Evaluation (`services/`, `prediction/evaluation.py`, `personalization/evaluation.py`, `dynamic/evaluation.py`) | none | metrics, comparisons, cohorts, static against dynamic blocks | rounding, zero denominators, totals beyond the Money range |
| Record validation (`services/*_validation.py`, `evaluation_input.py`, `dynamic/serialization.py`, `domain/`) | none | parsers, domain types | several faults at once, parsers and types disagreeing |
| Command line (`cli.py`) | none of its own | the offline commands over files and artifacts | commands at several terminals over the same artifacts |
| Simulation, explainability, evidence, front end, Razorpay stub | none | data generation, wording, reports, views; the stub refuses everything | none a model checker reaches |

What makes each part correct:

- **provider**: a block's money is always accounted for; a key executes once; a
  replay answers what the first call was answered; a closed block never moves;
- **service**: an answer "failed" means not executed; the audit trail matches the
  money; every call returns;
- **settlement**: never beyond the fare, nothing due is released, "settled" means
  paid, the figures add up after partial failures;
- **session and execution**: the session is never ahead of the provider, every
  difference between them is accounted for, only the latest decision counts;
- **dashboard**: "authorized" is backed by a block, no block is overwritten;
- **store**: an answer is true of the collection, a stored ride never changes,
  every stored run rests on the customer's completed past and on all of it;
- **agents**: an answer rests on one history and the requested profile, however the
  model behaves; trace and counters are true; every run ends;
- **optimizer**: the block is the cheapest on offer that meets the target, its
  probability that of the published quantiles, more certainty never reserves less;
- **histories**: the sweep gives every ride what looking its history up would give;
- **artifacts**: nothing older than the metadata is loaded unless two trainings were
  saved at a time, and rides reported as held out were not trained on;
- **evaluation**: the figures of one report agree with each other;
- **validation**: a ride or a dataset is used only if all of it is acceptable, and
  refused with every field at fault.

`PROJECT.json` lists the components with what is left out of each, and every
hazard at the line where it bites.

## 2. Modules

```
BlockLedger                abstract: money authorized, collected, handed back
  ^ implemented by
MockReserveProvider        blocks, registry, failures
  ^ extended by
  +- ReservePayService     callers, retry loop, audit trail
  |    ^ extended by
  |    +- ReserveSettlement    settlement on top of the service
  +- DynamicExecution      also extends DynamicSession
DynamicSession             session of one ride
DashboardAuthorize         create_block again, at the grain of thread switches
CompletedRideStore         save_completed_ride over an external database
  ^ extended by
  +- OptimizationRuns      optimize, what-if and look-ups, over the same database
AgentRun                   an agent run, its tools, explanation and counters
CommandLine                the offline commands; extends
  +- ArtifactStore         models saved and loaded file by file
  +- RideHistory           joins, histories, the sweep, splits
  +- DynamicEvaluation     rides under way as values, and their evaluation; extends
       +- RecordValidation     parsers and domain types
       +- ReserveEvaluation    metrics, comparisons, cohorts; extends
            +- ReserveOptimizer   quantiles, candidates, objective, choice
Series                     sums, counts, selections and sorting, as both histories
                           and evaluations use them
SumFacts                   lemmas about the library's folds, and about ranks and
                           sums of squares, used by the proofs
AnswerFacts                lemmas about what the commands compute, in no state
X_proofs                   theorems about module X (ReservePayService_proofs is
                           also about the settlement, CommandLine_proofs about
                           all the modules the command line extends)
DashboardHandlers_proofs   theorems about DashboardAuthorize and AgentRun
MC*                        instances for TLC
```

**MockReserveProvider.** `blocks` is `_blocks`, a sequence since ids are numbered
from one; `registry` is `_records`, a function from operation and key to the request executed
and the block as its result holds it, and `File` assigns to it as the code does:
whatever was filed there before is overwritten; `failures` is `failure_config`. Each way a
request can end is an action, with guards in the order the code tests them:
`Replayed` and `Conflicted` (registry), `TimesOut`, `Unavailable`, `Rejected`
(`_inject_failure`, inside the action and so for fresh keys only), then `Denied`,
`Insufficient`, `Overflows` or the operation itself. Amounts are integers in
paise; the bound of `Money` is `MaxAmount`. A request is one step.

**BlockLedger** knows amounts only. `MockReserveProvider` maps a block to its
authorized, debited and released amounts; refusals, replays and injected
failures are stuttering steps.

**ReservePayService.** `calls` holds the last call of each caller, `audit` counts
REQUESTED, success and FAILED events per operation and key. An attempt is one
step of the provider; the other callers run between two attempts, where
`_invoke` sleeps. `Escapes` is the one error that passes the audit handler.

**ReserveSettlement.** `settling` holds the locals of `action()` while a service
call is out, `settled` the settlement registry. Keys of the debit and the release
are pairs of the settlement key and a suffix, as in the code's f-strings. After
the last answer `SettlementResult.__post_init__` is evaluated: `Broken` is its
`ValueError`.

**DynamicSession.** `session` is the session the caller goes on with. Sessions are
immutable, so the caller may keep a decision and drop the session that came with
it (`ApplyAndDrop`); `decisions` remembers every decision returned. Prediction and
optimization are the constant function `Target`: history snapshot, models and
policy are fixed for a session, so the recommended block depends on the context
alone. `previous_target_block` and the reported quantiles are left out.

**DynamicExecution.** `RequestGranted` and `RequestNotGranted` are
`request_additional_block`; `IncreaseFirst` with `ConfirmLate` is `increase_block`
followed later by `confirm_dynamic_increase`, as tests and the README present them.
The key of an increase is derived from its event. A call is its last attempt: the
retry loop is in `ReservePayService`. `dynamic_service` is always present.
Confirming without a provider, which only the offline evaluation does, is left out.

**DashboardAuthorize.** The handlers are plain functions run on a pool of threads
over one `MockReserveProvider`. CPython switches threads at calls and loops, so
look-up, test of the failure flag, its reset, numbering and storing are separate
steps. The increment of the counter and its reading have no call between them and
are one step; storing the block and filing the result are merged, because no
handler reads the blocks in between and a look-up before the filing is the same
as one before the step. Computing the recommendation precedes `Accept` and does
not touch the provider. `timeout_next_operation` and `transient_failures` are
never set here.

**CompletedRideStore.** The collection with its unique index is external; `Faults`
says whether it may fail reads, fail writes, or apply a write and lose the
acknowledgement. Every driver call is one step, any number of handlers (threads or
server processes) interleave.

**OptimizationRuns** adds the requests that read the collection. A result is what it
rests on, the ride asked about and the rides found, since model and optimizer are
functions. `Ask` is `_context`; `ReadHistory` is `features_for`, whose cursor is
read in one step; `SaveRun` is `save_optimization`, after which a what-if goes on
to its second run under an id of its own (`Revised`). `asking[a].known`, the rides
stored when the request came in, is a history variable. `WhatIf` gives the id with
the suffix `-WHATIF`, which a stored ride may have too (`web/schemas.py:105` bounds
only the length of an id).

**ReserveOptimizer** is operators only. Probabilities count hundredths of
1/`Scale`, areas halves of that, with `Scale` divisible by every difference of two
amounts, so each fraction the code forms is an integer; the code's 28-digit
decimals are taken to be exact. The second half of the module says what the
results are meant to be, without looking at how they are found: `IsInterpolated`,
the area under the inverse of the quantile function (`AreaBelow`), and the
cheapest block of the whole price range (`IsCheapest`).

**RideHistory**: joins, features (as the sums the code divides by the count),
`HistoryBefore` (the look-up of `history.py`) and the sweep of
`build_personalized_records`, whose heap is the set `pending`: `Release` pops one
completed ride, `Build` takes the next ride. Fare ratios are percents, rounded up, so
that a ratio is above zero, and above 100 exactly if the fare is above the estimate.

**Series** is what the code's generator expressions, `sum()` and `sorted()` do, in
terms a proof can use: what is sorted is given by ranks, and what is selected from a
sequence by the places of what passes the test (`SelectSeq` is recursive). Both
`RideHistory` and `ReserveEvaluation` extend it.

**ArtifactStore**: a file holds the number of the training that wrote it. Opening a
file for writing empties it, so a reader may find it torn; a save may be broken
off at any point. `WriteOrder` and `ReadOrder` are the orders of the code. Any
process may train any kind of artifact at any time: no lock and no temporary
directory keeps two savings of one kind apart. A file that two have open is left as
the one or the other wrote it, or `Mixed`, which a load takes for a model but not for
the metadata, a short JSON text. `alongside`, a history variable, keeps for each
training the savings of its kind that were under way when its own began.

**ReserveEvaluation**: `Evaluated`, `Aggregated`, `Compared`, `Diagnostics`,
`Quality`, `Cohort` and what they are made of, with `ROUND_HALF_UP` as `HalfUp`.

**RecordValidation**: a JSON value is its type with what the code looks at (a
number, the kind of a text); where an object is expected there may be none
(`NoObject`); a fault is a field and a code. Parsers answer sets of faults, with the
part of the record and the place of the record they were found in. The time of an
update is read from the text of whatever stands there, as `str()` makes it: a number
may be a date, without an offset. `IsContext`, `IsOutcome`, `IsUpdate` are the checks
of the domain types. The last section says for comparison what is acceptable, with
no look at the parsers: a field is at fault if a domain type refuses it next to
values it accepts (`Faulty`), and `FaultyInFile` names all such places of a dataset.

**DynamicEvaluation**: the service of `DynamicSession` once more, with the real
optimizer and as a fold over the updates of a ride, because `run-dynamic-ride` and
the evaluation use it without provider or interleaving.

**CommandLine**: `desk[p]` is the command a terminal is at, with the locals of
`main()` that later stages use. `Stages` gives the order of the reads, loads and
saves of each command; a stage is an action, loads and saves are the steps of
`ArtifactStore`. `compare-customer-personalization` reads its scenario
(`ReadCustomers`) and takes the customers one by one (`CompareCustomer`): a scenario
without customers, a customer that is no object and what the parsers refuse each end
it in its own way. A fitted regressor may predict any of the raw quantiles given:
fitting is library code. `lessons` is what the artifacts' metadata say of their
trainings.

**AgentRun.** `rides` is the length of the customer's history, which grows while
runs go on; a prediction and an optimization are functions of it (`Mode`,
`Optimum`), and block, probability and score, which the code always compares
together, are one value. Every step of `runs[r]` is one turn of the loop in
`ReserveIntelligenceAgent.decide` with at most one reading of the history, then
the explanation, then `save_agent_run`. `Model` is "deterministic" for the model
the repository ships, and "any" for what the `AgentModel` protocol admits and the
tests try: calls in any order with any supported profile, malformed actions,
fabricated decisions. Left out: `total_tool_calls`; `step_limit_failures`, which
stays zero because `orchestrator.py:92` looks for words that the message of
`StepLimitExceededError` does not contain; and the reported `history_count`,
`model_version` and reason, which nothing compares.

Definitions whose comment begins with "Slip" are mutations: each is a plausible
mistake in the definition that follows it, under which the property named for it
in `PROJECT.json` fails. They are used by nothing else.

## 3. Runs

The MC modules use model values for identities. All cfgs set
`CHECK_DEADLOCK FALSE`: the number of requests is bounded, so behaviours end, and
in the code an idle service is no error. Liveness is checked by the properties.

| run | shows | bounds |
|---|---|---|
| `provider` | accounting, at-most-once execution, stable results, refinement of the ledger | 2 transactions, 2 keys (8 results), 2 named blocks, amounts 1 and 2 and what is left, `MaxAmount` 3; no failures or every failure of one operation |
| `service` | answers, audit and money agree for two interleaved callers; calls return | 2 callers, 2 keys, 2 attempts, `MaxCalls` 3; one operation times out, then is unavailable, then is rejected |
| `service_unaudited` | *violation*: an overflow leaves no outcome in the audit trail | as `service` |
| `settlement` | safety and termination of settlements that fail half way and are repeated | 2 settlement keys with fares 2 and 3, 1 client key, blocks up to 4, rejections of debit and release, a timeout of the debit, `MaxCalls` 4, `MaxSettlementCalls` 5 |
| `settlement_releases_fare` | *violation*: a key presented with another fare releases money still due | as `settlement`, fares 1 and 2 under one key |
| `dynamic_execution` | session and provider never drift apart unnoticed | 2 events, 2 times, contexts with targets 1, 2 and 3, `MaxDecisions` 3; no failure, a rejected increase, or a timeout with a rejected create |
| `dashboard` | races never lose a block or answer with none | 3 threads, 2 keys, 2 payloads, `MaxRequests` 3 |
| `dashboard_one_block` | *violation*: one key can create two blocks | 2 threads |
| `ride_store` | true answers, a stable history, and runs that rest on it, under every fault | 2 handlers, 2 rides in 2 versions, `MaxSubmissions` 3, 1 thread with one request (`MaxAsks` 1) about a ride that may be stored, also by the id of its what-if, a ride that starts as another ends, another customer's and nobody's |
| `ride_store_conflict` | *violation*: a lost race with other data is answered 503 | 2 handlers, no faults, no requests but ingestions |
| `agents` | answers follow from one history, trace and counters are true, runs end | 2 runs (one model free, one deterministic, each asked for another profile), 2 profiles, 3 outcomes, `MaxSteps` 6, `MinHistory` 1, `MaxRides` 2, reads and writes may fail |
| `command_line` | blocks are optimal, histories causal, reports consistent, files refused with all their faults, artifacts mixed by overlapping savings only | 7 quantile levels, all shapes of raw quantiles from 3 amounts, estimates and fares from 2 to 16, `MaxAmount` 30, `MaxSteps` 3, `MinHistory` 2; transactions with faults in up to two fields, no objects and no JSON; datasets with a faulty head, records or parts that are no objects, faults in both parts; scenarios of up to 2 customers, some without an acceptable ride or history; files of up to 8 rides that overlap, end together or before they start; rides followed through up to 3 updates that are repeated, late or contradictory; two terminals, one training the base model twice while the other evaluates it, or the personalized model while the other predicts with it, or both training the base model at a time; `MaxTrainings` 3 |

Why the bounds suffice: the interesting cases of the provider need one or two
earlier operations on a block and a second key; `MaxAmount` 3 with amounts 1 and 2
reaches every boundary (exactly emptied, one left, overflow by one). Two attempts
give the loop both of its ends. Two settlements with one failure each in debit and
release reach every partial state. Two events with three targets give a rise, a
rise overtaken by another, and a fall. Three threads give every pair of races with
a third party changing the registry. Six steps are the canonical run and, for a free
model, one call more, such as a second prediction after the optimization; three
history lengths give a change of mode, a change of outcome, and one outcome that
two histories or two profiles share. For the command line the amounts 2, 5 and 8
in every order give flat, rising, tied and crossing quantiles, and estimates and
fares below, on, between and above them; three rides with all spans of three
times give every way two rides can lie to a third, four are the smallest number
that leaves each part of a split with a ride and a second training with another
split. Commands are typed one at a time over artifacts that are there, except where
trainings are to be overtaken. Named bounds on the length of behaviours:
`MaxCalls`, `MaxSettlementCalls`, `MaxDecisions`, `MaxRequests`, `MaxSubmissions`, `MaxAsks`,
`MaxRides`, `MaxTrainings`.

`SYMMETRY` over transactions and keys is used for `provider` only, whose
properties are all safety properties.

**Fairness.** Weak fairness on the attempts of a call in its retry loop
(`time.sleep` returns), on the continuation of a settlement (it runs in the
caller's thread), on the steps of a handler of mock authorizations (in-memory code of
a thread that is scheduled) and on those of an agent run. The last one takes for
granted that the calls of the database and of the agent model return, which no
setting guarantees: `MongoClient` is given a connect and a server-selection timeout
(storage.py:161-167) but no socket timeout, so a stalled read or write may never end.
What `EveryRunEnds` shows is that the loop itself is bounded. For ingestions and
optimization requests, which do nothing but such calls, nothing is claimed to happen
eventually. Nor is anything assumed about requests being made, or of the command
line, whose properties are safety properties.

## 4. Findings

1. `service_unaudited`: increasing a block beyond `MAX_AMOUNT_PAISE` raises
   `DomainValidationError` from the provider. It is no `ReservePayError`, so the
   service neither audits nor normalizes it, against README line 971. Money is
   not affected: `FailureMeansNotExecuted` covers the case.
2. `settlement_releases_fare`: a settlement whose release failed leaves its key
   free. Presented again with a larger fare, it may derive the very debit request
   it made before; the provider replays it, and what is still due of the fare is
   released (README lines 967 and 997). With one fare per key, as the
   repository's callers do, `ReleasesOnlyTheRest` holds.
3. `dashboard_one_block`: the registry's look-up and filing are not atomic, so two
   concurrent requests with one key create two blocks (README line 967).
4. `ride_store_conflict`: the loser of a race between two versions of a ride is
   answered 503, where `docs/PRODUCTION_MONGODB.md` line 51 promises 409.

### Observations

What the models show of the code and no property claims, because no document does:

- A block chosen for a target can lie below the quantile published for it, where two
  levels are published with one amount: F passes the target below that amount.
  `CoverageIsHonest` states the exception; README line 877 does not mention it.
- Retraining in place, or a retraining that is killed, leaves models of the new
  training beside the metadata of the old, which load without an error
  (`prediction/persistence.py:64-140`). Two trainings of one kind at a time leave the
  models of either, or a mixture, beside the metadata of either: that it takes two at
  a time is all the order of the files gives (`OlderOnlyIfOverlapping`).
  `evaluate-predictor` then may call rides "held_out_test_split" that the models beside
  its metadata were trained on; `HeldOutIsUnseen` is therefore about artifacts whose
  files are of one training.
- `evaluate-personalization` says "chronological_test_split" whether or not the
  fingerprint matches, and its base model may have been trained on those rides.
- Totals beyond the Money range make a comparison fail that has a result for each
  ride. Two customers of one label leave one answer in
  `compare-customer-personalization`.
- The two runs of a what-if may rest on different histories; the second counts a
  stored ride of the very id asked about, and leaves out one that is stored by the id
  with the suffix; the first stays stored when the override
  is refused. `RunsRestOnHistory` says how far they may differ.
- An update that a dynamic dataset repeats is harmless to the service, but if it
  asked for more, confirming it again is a conflict that ends the whole evaluation.
  Files of trips are answered with their first fault, evaluation files with all.

## 5. Proofs

Each of these holds for any values of the constants that satisfy the named
assumptions of the modules, and rests on nothing else.

`MockReserveProvider_proofs`, from `ProviderAssumption`:

- `TypeCorrect`: `ProviderSpec => []TypeOK`;
- `AccountingCorrect`: `ProviderSpec => []BlocksAreConsistent`;
- `ExecutedAtMostOnce`: `ProviderSpec => AtMostOnce`;
- `ResultsNeverChange`: `ProviderSpec => ResultsAreKept`;
- `EveryPaiseIsAccountedFor`: `ProviderSpec => []EveryPaiseIsFiled`;
- `ProviderImplementsLedger`: `ProviderSpec => Ledger!Spec`.

A request that passes its guards is well-formed (`AmountsArePositive`,
`RequestsAreTyped`), each operation maps well-formed blocks to well-formed blocks
(`OperationsAreTyped`), which makes `TypeOK` inductive by itself. Given it,
`BlocksAreConsistent` is inductive too: balance and the agreement of status and
amounts need each other, since only a consistent `PARTIALLY_DEBITED` block stays
consistent when debited again (one lemma per operation, `CreatedIsConsistent` to
`ReleasedIsConsistent`). Filing assigns to a function and may overwrite, so
`ResultsAreKept` needs that whatever files passed `Fresh` (`ExecutedIsFiled`): what it adds
is new and what was there stays (`FilingKeepsResults`). `AtMostOnce` says of the same
steps that the money moves only with such an addition. As a filed result carries the
operation and key it is filed under, no two results have the same
(`KeysTellResults`). `EveryPaiseIsFiled` compares a block
with sums over the registry; its inductive form is `PaiseAreFiled`, which also says
that the registry is finite and a result on file is of a block that exists, so that
a new block starts from empty sums. Each operation adds one result to one of the sums. The refinement needs both
invariants: a block that may be operated on has money left, which is what the
ledger's actions ask for in place of a status.

`OptimizationRuns_proofs`, from `StoreAssumption`, `AsksAssumption` and
`WhatIfAssumption`:

- `RecommendationsRestOnHistory`: `RunsSpec => []RunsRestOnHistory`;
- `AnswersStayTrue`: `RunsSpec => []AnswersAreTrue`;
- `StoredRidesKeepTheirData`: `RunsSpec => HistoryIsStable`.

`StoreInOrder` (types, one ride per id, true answers) is inductive for the
ingestion. `RunsInOrder` adds what every request at each of its steps knows: that
the history it read is past of its ride and holds all of the past known when it
came in, and that its answers so far rest likewise (`AnswerRests`). Of the id of a
what-if `WhatIfAssumption` says that it is not the id asked about, as an id with a
suffix is not: the ride that its second run leaves out is part of `AnswerRests`. Since rides are
only added, what held when a history was read goes on to hold
(`AnswersKeepResting`), so ingestions disturb no request.

`CommandLine_proofs`, about artifacts, from `ArtifactAssumption`:

- `OnlyOverlappingSavesMix`: `ArtifactSpec => []OlderOnlyIfOverlapping`;
- `CommandsMixOnlyOverlapping`: `CommandSpec => []OlderOnlyIfOverlapping`.

The invariant is `ArtifactsInOrder`, for any number of savings at a time. With
`Fits(k, f, g)`, that a file is torn or holds nothing older than training g but what
was saved alongside, `DiskInOrder` says it of every file and the training the metadata
name, `SaverInOrder` of the files a saving has passed and its own training, and of the
file it has open that it is torn unless savings overlapped; `LoaderInOrder` says it of what a load has read and the metadata it began
with. Each is inductive only with the others: when a saving writes its metadata it has
passed everything else, which is what makes the new metadata fit the disk. A training
that began later is no older, one that began earlier and still writes is in
`alongside`, and that never changes (`NoOlderStays`). `SaversDiffer` tells
savings of one kind apart by their trainings. Every step of a command is a step of the
store or leaves it alone (`CommandStepIsArtifactStep`), which carries the first theorem
over to the second.

The same module, about what the commands answer, from all assumptions of
`CommandLine` and the modules it extends:

- `FaultsAreReported`: `CommandSpec => []EveryFaultIsReported`;
- `ReportedCoverageIsHonest`: `CommandSpec => []CoverageIsHonest`;
- `BlocksAreBest`: `CommandSpec => []BlockIsBest`;
- `CertaintyCostsMore`: `CommandSpec => []StricterProfileReservesMore`;
- `ReportedRidesAreUnseen`: `CommandSpec => []HeldOutIsUnseen`;
- `SweepsAreCausal`: `CommandSpec => []SweepIsCausal`;
- `ReportsAreConsistent`: `CommandSpec => []ReportsAddUp`, and before it
  `ReportedComparisonsAddUp` and `ReportedPersonalizationAddsUp`, its parts about
  comparisons and about personalized predictions.

`SessionAssumption` says what may be typed: any parsed JSON in the files
(`AreParsed`, `IsParsedFile`), any command of the parser, a step that
`OptimizationConfig` accepts, a seed by which any number of rides can be shuffled,
and models whose raw quantiles are positive amounts. Of the artifacts there were
before it says what their training has checked: at least three rides, of different
ids (`IsLesson`).
That is all the code grants, but for the divisibility in `IsRaw`, which is no
restriction: for finitely many amounts there is always a `Scale` that serves them.

`EveryFaultIsReported` compares what a refused command tells with `FaultyInRide` or
`FaultyInFile`, place by place: each record, each part of it, each field, and
nothing else. A dataset whose head is faulty is told of its head alone, since
`parse_evaluation_dataset` raises before it looks at a record; files of trips, whose
parser raises at the first group of faults, are only claimed to be used if
acceptable. The theorem needs `CommandsInOrder`: a command that is past a stage of
reading has read, and what it holds has passed the parser (`Passed`); of a scenario it
keeps that every customer answered was acceptable and that a refusal is about the next
one (`CustomerIsRefusedOrAnswered`). With it the theorem reduces to the parsers: the
fields they name are those the domain types would refuse, one lemma per field kind
and record. `CoverageIsHonest` and
`BlockIsBest` rest on `AnswersAreMade`: every answer on a desk, filed or still in the
making, is `RecommendFor` of the ride's estimate and the repaired quantiles of some
model. The actions that answer nothing are dealt with together: `Moves` says which
fields of a desk a step may change and how it may end.

What remains is about the optimizer alone, for every distribution
(`IsDistribution`). That a block reaches its quantile follows from F being
straight between published amounts and monotone (`CdfRises`). That the block is the
cheapest needs that the code's sum of squared segments, `ExpectedExcess`, is the
area under the inverse of the quantile function, `AreaBelow`, which counts
amounts one by one: both are zero at zero, and from a block to the next both grow by
the probability of the amount between (`ExcessGrows`), so they agree by induction
on the block (`ExcessIsArea`). Then the code's score orders blocks as
`CostOf` does, its candidates are the blocks `IsCheapest` has on offer
(`OfferedAreCandidates`), and its choice is a least one of them.

`StricterProfileReservesMore` is this choice made twice: the candidates of the
stricter target are among those of the laxer one, and if the laxer choice were the
larger block it would meet the stricter target too, so that each choice would be
better than the other (`StricterIsLarger`). For a comparison `AnswersAreMade` says
further that what is reported is `ComparisonReport` of joined rides, of which there is
at least one. That the join gives a sequence at all, each ride having one rank among
the ids of its file, is `JoinGivesRides`; then the totals rise with the blocks and
their rounded quotients with the totals (`MetricsRise`).

`HeldOutIsUnseen` relates a report to a training that may have been another
terminal's. `DesksAreLearnt` says what a command knows at each stage: about to save,
that it was fitted to rides that can be split (`IsLesson`); about to evaluate, that
the metadata it read are those of a training on record, for a load that succeeded has
read the metadata at least (`LoadsHaveRead`), and these are of no training to come
(`LoaderInOrder`). Trainings are only added to the record, so later ones change nothing
(`OneMoreLesson`). The rest is the split: a permutation sends no two rides to one
place, rides of a join have different ids, and the last part begins behind the first
and is never empty (`HeldOutIsSeparate`).

`SweepIsCausal` compares two ways to one history: the sweep over time with a queue of
rides under way, and the look-up among all rides of the file. `SweepHolds` is what
is true of a sweep at each step: what is to come is sorted and starts no earlier than
what was built (`InTime`), what was released is in order of ending, ended before all that
is to come starts and before all that is still pending ends, and every ride is to
come, pending or released (`NoneIsLost`). When nothing pending is due, the rides
released are therefore those that ended before the ride at hand, in the order
`HistoryBefore` sorts them; of two lists of the same rides in the same strict order
each entry has the same rank, so they are one (`ListsAgree`). That no ride ends
before it starts, which `Malformed` has checked, is needed: such a ride would be
in its own history. That the features are those `CustomerHistoryFeatures` accepts is
the inequality between the square of a sum and the sum of squares, by induction on
finite sets (`SquareOfSum`). `RidesCanBeSwept` takes what the sweep needs from the
parsers: rides of a join have distinct ids and times that are numbers. The split cuts
at two places that leave three parts, none of them empty (`SplitsWhole`).

What reports say of themselves is proved from what they were made of. Of a comparison
`AnswersAreMade` says that it is `ComparisonReport` of joined rides; rounding half up
moves a quotient by a half at most, which bounds the gap between averages and totals,
and a sum over the rides is the sum over the cities of the sums over their rides
(`SumOfParts`). Of personalized predictions `DesksAddUp` keeps that they are evaluated
only on a sweep that can be split, because the stage before is the sweep
(`InOrderAt`) and the sweep ends the command if it cannot. What is then held out are
rides with fares and counted histories (`TestIsBuilt`), so every ride is at one depth
of history (`DepthIsOne`) and in one city, and each figure, being a cardinality or a
sum over rides, is the sum of the parts; sums of losses over levels and rides may be
taken in either order (`SumsSwap`).

A ride under way is followed by a recursive function over its updates, and what holds
of its session after each of them is `SessionHolds`: its context is the one the models
were asked about (`Course`), every event seen so far has its decision, the block is the
largest target so far, and every decision that asked for more has been confirmed at a
total the block has not fallen below. The last is needed for updates that are replayed: a decision
confirmed once conflicts with a second confirmation unless it asks for nothing, so a ride
that goes on has not been raised twice for one update (`ReplayChangesNothing`). That the
targets are amounts comes from the optimizer (`TargetsAreAmounts`), that fares are from
the parsers (`TripIsAccepted`). The report compares two columns over the same fares,
and the last block is never below the first: so successes are kept (`LastCollects`), the
four kinds of benefit share out the rides (`BenefitsAddUp`), and each ride that was
raised has an increase of its own among those asked for (`RaisedAreAsked`), which bounds
the rides saved and raised. A mean over fewer rides with the same sum is no smaller
(`RaisesAddUp`), and the median is halfway between values the list has
(`MedianIsBounded`).

`ReservePayService_proofs`, from `ProviderAssumption` and `ServiceAssumption`, for
any set of callers:

- `ServiceTypeCorrect`: `ServiceSpec => []ServiceTypeOK`;
- `OutcomesAreTold`: `ServiceSpec => []OutcomesAreAudited`;
- `AuditTellsTheMoney`: `ServiceSpec => []AuditMatchesProvider`;
- `FailuresAreNotExecuted`: `ServiceSpec => FailureMeansNotExecuted`;
- `ServiceImplementsLedger`: `ServiceSpec => ImplementsLedger`;
- `SettledRidesArePaid`: `SettlementSpec => []SettledMeansPaid`;
- `SettlementImplementsLedger`: `SettlementSpec => ImplementsLedger`;
- `CollectsTheFareAtMost`: `OneCaller => (SettlementSpec => NeverCollectsBeyondFare)`;
- `SettlementFiguresAddUp`: `OneCaller /\ OneFare /\ OwnKeys => (SettlementSpec => []FiguresAddUp)`;
- `OnlyTheRestIsReleased`: the same for `ReleasesOnlyTheRest`.

The provider's invariants are proved inductive for `ProviderStep`, a step for any
well-formed request, which contains the steps of `ProviderNext` and those a service
call makes of its provider, also when the request was chosen long before. The audit
counts calls under way: that only finitely many are under way under one operation
and key (`FinitelyManyFly`) is part of the invariant, so the callers themselves need
not be finitely many. `TurnedDownIsNotExecuted` is where `AtMostOnce` is needed: a
request refused for its key has no result because another payload has.

`SettledMeansPaid` holds whoever else uses the block: `SettlementKept` says that each
phase of a settlement fits the call that is out for it (`SettlingFits`) and that an
answer is what is filed for it (`AnswersAreFiled`); a result of an emptied block says
what the block is, since it never moves again (`EmptyResultIsCurrent`).
The other three are about a settlement while it runs, where another thread may debit
the same block between its status and its debit. `OneCaller` excludes that, as
the repository's callers do: a ride is settled by the thread that serves it, after its
increases. `Undisturbed` says that the block is as the settlement read it until its
own debit has been executed. `OneFare` and `OwnKeys` say that a settlement key
belongs to a ride and that nobody debits under the keys derived from it: `cli.py:649`
and the tests derive the key from the ride. Without `OneFare` the last
two are false, which is what the run `settlement_releases_fare` shows.
`SettlementSound` adds that what was debited under a settlement's key paid its fare,
that only settlements debit under their keys, and that the figures of one under way
are those of its block.

`DynamicExecution_proofs`, from `SessionAssumption`, `ProviderAssumption` and
`ExecutionAssumption`:

- `ExecutionTypeCorrect`: `ExecutionSpec => []ExecutionTypeOK`;
- `IncreasesAreKept`: `ExecutionSpec => []NoIncreaseIsLost`;
- `SessionStaysBehind`: `ExecutionSpec => []SessionNeverAhead`;
- `DifferencesAreExplained`: `ExecutionSpec => []DifferenceIsExplained`;
- `LatestIsConfirmed`: `ExecutionSpec => OnlyLatestIsConfirmed`.

`Kept` adds to the types that every answer on its way was filed for its decision
(`WaitingIsFiled`), and only one can have been (`AtMostOnce`), so what is confirmed
late is what the provider did. `SessionNeverAhead` is not inductive: `Behind` adds
that the block covers every answer an increase was ever given, which holds on
because blocks never shrink (`BlocksGrow`), and that the session stands at the
initial block until the ride has one. `DifferenceIsExplained` compares the session
with a sum over the decisions ever made; `Explained` says
the same of what is filed and not confirmed, and that only what was executed is
confirmed, so that an answer leaves the sum and enters the session in one step.

`DashboardHandlers_proofs`, about authorize, from `DashboardAssumption`, for any
number of threads:

- `BlocksAreKept`: `DashboardSpec => []NoBlockIsOverwritten`;
- `AnswersHaveBlocks`: `DashboardSpec => []AnswersAreBacked`.

`DashboardInv` says which block numbers were given out, to whom, and that no two
threads on their way to storing hold the same one.

The same module, about agent runs, from `AgentAssumption`, for any number of runs and models:

- `AnswersFollow`: `AgentSpec => []AnswerFollowsFromHistory`;
- `TracesTell`: `AgentSpec => []TraceTellsTheRun`;
- `CountersPartition`: `AgentSpec => []RunsAreCounted`.

`Stories` tells for each status of a run what its trace and its readings must be by
then: a decision that is explained is the one derived from the history read last.
The counters count finite sets of runs that grow by one run at a time.

**Sums.** `SumFacts` proves what the others need of the folds of the community
modules. Induction over the natural numbers is a lemma about a set that holds zero
and successors (`Induction`), from the well-foundedness of `<`. From it: the fold
over a finite set is a sum that does not depend on the order the elements are
taken in (`SumsAgree`, `SumsExist`, `SumEquation`), what it is without an element, of a
difference, of steps between neighbours, and that it grows with its weights. The
elements of a finite set in a strict order have the ranks below its size, each of
them once (`RanksAreTaken`), so a list of them in this order is the only one
(`ListsAgree`), and what `InOrder` makes of them is it (`RankedLists`).
Weights are functions there; a sum whose weight is an expression is brought into
this form where it is used.

**Only model-checked.** All liveness properties, which are outside the prover's reach, and
with them that every call, settlement, request and run ends.

## 6. Not modelled

Fitting regressors, the generators of synthetic data (`simulation/`,
`dynamic/simulation.py`), the wording of explanations, the evidence reports and the
front end are library calls, random numbers, arithmetic over files or presentation,
without protocol or shared state. The Razorpay provider refuses every operation.
The dashboard's `dynamic_demo` runs the calls of `DynamicExecution` in order over a
provider of its own; the handlers for scenarios, evidence and capabilities read
files. Two settlements running at the same time are not modelled: the repository
runs them one after the other. The registries live in memory, so a crash loses
provider and registry together and there is no recovery to model; what is persisted
is modelled with crashes (`ArtifactStore`, and lost acknowledgements of the store).

## 7. Plan

Done, in this order: provider and ledger, service, settlement, session and
execution, dashboard, store, agents; then optimization requests, optimizer and
histories, artifacts, evaluation, validation, rides under way, and the command line
that composes them; then proofs of the provider, of the requests and the store, of
the artifacts and commands, of dashboard, agents, service and execution; then of sums
over the registry, of the settlement, and of what the commands answer: faults,
coverage, the choice of the block, the rides held out and the sweep.

Left, most useful first:

- a property of a settlement answered from its registry after its block was increased
  (`INSUFFICIENT` under its key for good), once a document says what is meant;
- `dynamic_demo` of the dashboard, as a composition of `DynamicExecution` with
  `DashboardAuthorize`;
- the evidence pipeline, as a caller of the operators of `ReserveEvaluation`.
