------------------------ MODULE DashboardHandlers_proofs ------------------------
(***************************************************************************)
(* What two handlers of the dashboard guarantee by themselves.  However    *)
(* many threads serve authorize and however they are switched, blocks are  *)
(* not overwritten and answers name blocks that exist.  And what AgentRun  *)
(* guarantees for any number of runs, any agent model, any function from   *)
(* histories to optima and any step limit.                                 *)
(***************************************************************************)
EXTENDS DashboardAuthorize, AgentRun, FiniteSetTheorems, TLAPS

-----------------------------------------------------------------------------
(* authorize                                                               *)

Job == [step : Steps, key : Keys, payload : Payloads, id : Nat]

BlockOf(job) == [id |-> job.id, payload |-> job.payload]

Storing == {t \in Threads : At(t, "store")}

\* The state is what the registry and the handlers can hold.
DashboardTypeOK ==
    /\ thread \in [Threads -> Job]
    /\ counter \in Nat
    /\ blocks \subseteq [id : Nat, payload : Payloads]
    /\ results \subseteq [key : Keys, payload : Payloads, id : Nat]
    /\ failNextCreate \in BOOLEAN
    /\ requests \in Nat

\* A number is given out once: it names one stored block, or it is in the hands
\* of one thread, never both.
NumbersAreUnique ==
    /\ \A b \in blocks : b.id \in 1 .. counter
    /\ \A t \in Storing : thread[t].id \in 1 .. counter
    /\ \A b, c \in blocks : b.id = c.id => b = c
    /\ \A t \in Storing, b \in blocks : b.id # thread[t].id
    /\ \A t, u \in Storing : thread[t].id = thread[u].id => t = u

\* Every filed result and every answer names a stored block with its payload.
ResultsAreBacked == \A r \in results : [id |-> r.id, payload |-> r.payload] \in blocks

\* Only finitely many blocks are stored or about to be.
FinitelyMany == IsFiniteSet(blocks) /\ IsFiniteSet(Storing)

DashboardInv ==
    /\ DashboardTypeOK
    /\ NumbersAreUnique
    /\ ResultsAreBacked
    /\ AnswersAreBacked
    /\ FinitelyMany
    /\ NoBlockIsOverwritten

-----------------------------------------------------------------------------
(* Steps that neither store a block nor give out a number *)

\* A step of one thread that leaves the blocks alone, does not come from nor
\* lead to "store", and answers only with a block that exists.
Harmless(t) ==
    /\ ~At(t, "store")
    /\ thread'[t].step # "store"
    /\ thread' = [thread EXCEPT ![t] = thread'[t]]
    /\ thread'[t] \in Job
    /\ thread'[t].step = "authorized" => BlockOf(thread'[t]) \in blocks
    /\ UNCHANGED <<counter, blocks, results>>
    /\ failNextCreate' \in BOOLEAN
    /\ requests' \in Nat

LEMMA HarmlessStep ==
    ASSUME DashboardInv, NEW t \in Threads, Harmless(t)
    PROVE  DashboardInv'
<1> USE DEF DashboardInv
<1>1. DashboardTypeOK'
  BY DEF Harmless, DashboardTypeOK
<1>2. \A u \in Threads : u # t => thread'[u] = thread[u]
  BY DEF Harmless, DashboardTypeOK
<1>3. Storing' = Storing
  BY <1>2 DEF Storing, At, Harmless
<1>4. \A u \in Storing : thread'[u] = thread[u]
  BY <1>2 DEF Storing, At, Harmless
<1>5. NumbersAreUnique'
  BY <1>3, <1>4 DEF NumbersAreUnique, Harmless
<1>6. ResultsAreBacked'
  BY DEF ResultsAreBacked, Harmless
<1>7. AnswersAreBacked'
  BY <1>2 DEF AnswersAreBacked, Harmless, At, BlockOf
<1>8. FinitelyMany'
  BY <1>3 DEF FinitelyMany, Harmless
<1>9. NoBlockIsOverwritten'
  BY <1>3 DEF NoBlockIsOverwritten, Harmless, Storing
<1> QED
  BY <1>1, <1>5, <1>6, <1>7, <1>8, <1>9

-----------------------------------------------------------------------------
(* Numbering and storing *)

LEMMA NumberStep ==
    ASSUME DashboardInv, NEW t \in Threads, NumberBlock(t)
    PROVE  DashboardInv'
<1> USE DEF DashboardInv
<1> DEFINE me == [thread[t] EXCEPT !.step = "store", !.id = counter + 1]
<1>1. /\ thread \in [Threads -> Job] /\ counter \in Nat
      /\ thread[t] \in Job /\ thread[t].step = "number"
  BY DEF DashboardTypeOK, NumberBlock, At
<1>2. /\ thread' = [thread EXCEPT ![t] = me]
      /\ counter' = counter + 1
      /\ UNCHANGED <<blocks, results, failNextCreate, requests>>
  BY DEF NumberBlock
<1>3. me \in Job /\ me.id = counter + 1 /\ me.step = "store"
  <2>1. counter + 1 \in Nat
    BY <1>1
  <2> QED
    BY <1>1, <2>1 DEF Job, Steps
<1> HIDE DEF me
<1>4. thread'[t] = me /\ \A u \in Threads : u # t => thread'[u] = thread[u]
  BY <1>1, <1>2
<1>5. t \notin Storing /\ Storing' = Storing \cup {t}
  BY <1>1, <1>3, <1>4 DEF Storing, At
<1>6. DashboardTypeOK'
  BY <1>1, <1>2, <1>3 DEF DashboardTypeOK
<1>7. NumbersAreUnique'
  <2>1. \A u \in Storing : u # t /\ thread'[u] = thread[u] /\ thread[u].id \in 1 .. counter
    BY <1>4, <1>5 DEF NumbersAreUnique, Storing
  <2>2. \A b \in blocks' : b.id \in 1 .. counter' /\ b.id # counter + 1
    BY <1>1, <1>2 DEF NumbersAreUnique
  <2>3. \A u \in Storing' : u = t \/ u \in Storing
    BY <1>5
  <2>4. \A u \in Storing' : thread'[u].id \in 1 .. counter'
    BY <1>1, <1>2, <1>3, <1>4, <2>1, <2>3
  <2>5. \A u \in Storing', b \in blocks' : b.id # thread'[u].id
    BY <1>2, <1>3, <1>4, <2>1, <2>2, <2>3 DEF NumbersAreUnique
  <2>6. \A u, v \in Storing' : thread'[u].id = thread'[v].id => u = v
    BY <1>1, <1>3, <1>4, <2>1, <2>3 DEF NumbersAreUnique
  <2> QED
    BY <1>2, <2>2, <2>4, <2>5, <2>6 DEF NumbersAreUnique
<1>8. ResultsAreBacked'
  BY <1>2 DEF ResultsAreBacked
<1>9. AnswersAreBacked'
  BY <1>2, <1>3, <1>4 DEF AnswersAreBacked, At
<1>10. FinitelyMany'
  BY <1>2, <1>5, FS_AddElement DEF FinitelyMany
<1>11. NoBlockIsOverwritten'
  <2>1. Cardinality(Storing') = Cardinality(Storing) + 1
    BY <1>5, FS_AddElement DEF FinitelyMany
  <2>2. Cardinality(Storing) \in Nat /\ Cardinality(blocks) \in Nat
    BY FS_CardinalityType DEF FinitelyMany
  <2> QED
    BY <1>1, <1>2, <2>1, <2>2 DEF NoBlockIsOverwritten, Storing
<1> QED
  BY <1>6, <1>7, <1>8, <1>9, <1>10, <1>11

LEMMA StoreStep ==
    ASSUME DashboardInv, NEW t \in Threads, StoreBlock(t)
    PROVE  DashboardInv'
<1> USE DEF DashboardInv
<1> DEFINE me == thread[t]
           mine == BlockOf(me)
<1>1. /\ thread \in [Threads -> Job] /\ counter \in Nat
      /\ me \in Job /\ me.step = "store" /\ t \in Storing
  BY DEF DashboardTypeOK, StoreBlock, At, Storing
<1>2. /\ thread' = [thread EXCEPT ![t].step = "authorized"]
      /\ blocks' = {b \in blocks : b.id # me.id} \cup {mine}
      /\ results' = (results \ ResultsOf(me.key))
                       \cup {[key |-> me.key, payload |-> me.payload, id |-> me.id]}
      /\ UNCHANGED <<counter, failNextCreate, requests>>
  BY DEF StoreBlock, GoTo, BlockOf
<1>3. /\ thread'[t] = [me EXCEPT !.step = "authorized"]
      /\ \A u \in Threads : u # t => thread'[u] = thread[u]
  BY <1>1, <1>2
<1>4. mine \notin blocks /\ blocks' = blocks \cup {mine}
  BY <1>1, <1>2 DEF NumbersAreUnique, BlockOf, Job
<1>5. Storing' = Storing \ {t}
  BY <1>1, <1>3 DEF Storing, At, Job
<1>6. mine.id = me.id /\ mine.payload = me.payload /\ mine \in [id : Nat, payload : Payloads]
  BY <1>1 DEF BlockOf, Job
<1>7. DashboardTypeOK'
  <2>1. thread' \in [Threads -> Job]
    BY <1>1, <1>2 DEF Job, Steps
  <2>2. results' \subseteq [key : Keys, payload : Payloads, id : Nat]
    BY <1>1, <1>2 DEF DashboardTypeOK, Job
  <2> QED
    BY <1>2, <1>4, <1>6, <2>1, <2>2 DEF DashboardTypeOK
<1>8. NumbersAreUnique'
  <2>1. \A u \in Storing' : u \in Storing /\ u # t /\ thread'[u] = thread[u]
    BY <1>3, <1>5 DEF Storing
  <2>2. \A b \in blocks' : b \in blocks \/ b = mine
    BY <1>4
  <2>3. mine.id \in 1 .. counter' /\ \A b \in blocks : b.id # mine.id
    BY <1>1, <1>2, <1>6 DEF NumbersAreUnique
  <2>4. \A u \in Storing' : thread'[u].id # mine.id
    BY <1>1, <1>6, <2>1 DEF NumbersAreUnique
  <2> HIDE DEF mine
  <2>5. \A b \in blocks' : b.id \in 1 .. counter'
    BY <1>2, <2>2, <2>3 DEF NumbersAreUnique
  <2>6. \A b, c \in blocks' : b.id = c.id => b = c
    BY <2>2, <2>3 DEF NumbersAreUnique
  <2>7. \A u \in Storing', b \in blocks' : b.id # thread'[u].id
    BY <2>1, <2>2, <2>4 DEF NumbersAreUnique
  <2>8. \A u \in Storing' : thread'[u].id \in 1 .. counter'
    BY <1>2, <2>1 DEF NumbersAreUnique
  <2>9. \A u, v \in Storing' : thread'[u].id = thread'[v].id => u = v
    BY <2>1 DEF NumbersAreUnique
  <2> QED
    BY <2>5, <2>6, <2>7, <2>8, <2>9 DEF NumbersAreUnique
<1>9. ResultsAreBacked'
  <2> SUFFICES ASSUME NEW r \in results'
               PROVE  [id |-> r.id, payload |-> r.payload] \in blocks'
    BY DEF ResultsAreBacked
  <2>1. CASE r \in results
    BY <1>4, <2>1 DEF ResultsAreBacked
  <2>2. CASE r = [key |-> me.key, payload |-> me.payload, id |-> me.id]
    <3>1. r.id = me.id /\ r.payload = me.payload
      BY <2>2
    <3> QED
      BY <1>4, <3>1 DEF BlockOf
  <2> QED
    BY <1>2, <2>1, <2>2
<1>10. AnswersAreBacked'
  <2> SUFFICES ASSUME NEW u \in Threads, thread'[u].step = "authorized"
               PROVE  [id |-> thread'[u].id, payload |-> thread'[u].payload] \in blocks'
    BY DEF AnswersAreBacked, At
  <2>1. CASE u = t
    BY <1>1, <1>3, <1>4, <2>1 DEF BlockOf, Job
  <2>2. CASE u # t
    BY <1>3, <1>4, <2>2 DEF AnswersAreBacked, At
  <2> QED
    BY <2>1, <2>2
<1>11. FinitelyMany'
  BY <1>4, <1>5, FS_AddElement, FS_RemoveElement DEF FinitelyMany
<1>12. NoBlockIsOverwritten'
  <2>1. Cardinality(blocks') = Cardinality(blocks) + 1
    BY <1>4, FS_AddElement DEF FinitelyMany
  <2>2. Cardinality(Storing') = Cardinality(Storing) - 1
    BY <1>1, <1>5, FS_RemoveElement DEF FinitelyMany
  <2>3. Cardinality(Storing) \in Nat /\ Cardinality(blocks) \in Nat
    BY FS_CardinalityType DEF FinitelyMany
  <2> QED
    BY <1>1, <1>2, <2>1, <2>2, <2>3 DEF NoBlockIsOverwritten, Storing
<1> QED
  BY <1>7, <1>8, <1>9, <1>10, <1>11, <1>12

-----------------------------------------------------------------------------
(* The remaining steps are harmless *)

LEMMA AcceptIsHarmless ==
    ASSUME DashboardTypeOK, NEW t \in Threads, NEW key \in Keys, NEW payload \in Payloads,
           NEW simulateFailure \in BOOLEAN, Accept(t, key, payload, simulateFailure)
    PROVE  Harmless(t)
BY DEF Accept, Over, At, Harmless, DashboardTypeOK, Job, Steps

LEMMA LookupIsHarmless ==
    ASSUME DashboardTypeOK, ResultsAreBacked, NEW t \in Threads, LookupFinds(t)
    PROVE  Harmless(t)
<1>1. PICK r \in ResultsOf(thread[t].key) :
         thread' = [thread EXCEPT
                      ![t].step = IF r.payload = thread[t].payload
                                  THEN "authorized" ELSE "conflict",
                      ![t].id = IF r.payload = thread[t].payload THEN r.id ELSE 0]
  BY DEF LookupFinds
<1>2. r \in results /\ r \in [key : Keys, payload : Payloads, id : Nat] /\ thread[t] \in Job
  BY DEF ResultsOf, DashboardTypeOK
<1>3. [id |-> r.id, payload |-> r.payload] \in blocks
  BY <1>2 DEF ResultsAreBacked
<1>4. CASE r.payload = thread[t].payload
  <2>1. thread'[t] = [thread[t] EXCEPT !.step = "authorized", !.id = r.id]
    BY <1>1, <1>4 DEF DashboardTypeOK
  <2> QED
    BY <1>1, <1>2, <1>3, <1>4, <2>1
    DEF LookupFinds, At, Harmless, DashboardTypeOK, Job, Steps, BlockOf
<1>5. CASE r.payload # thread[t].payload
  <2>1. thread'[t] = [thread[t] EXCEPT !.step = "conflict", !.id = 0]
    BY <1>1, <1>5 DEF DashboardTypeOK
  <2> QED
    BY <1>1, <1>2, <1>5, <2>1
    DEF LookupFinds, At, Harmless, DashboardTypeOK, Job, Steps, BlockOf
<1> QED
  BY <1>4, <1>5

LEMMA FlagStepsAreHarmless ==
    ASSUME DashboardTypeOK, NEW t \in Threads,
           LookupMisses(t) \/ TestFlag(t) \/ ResetFlag(t)
    PROVE  Harmless(t)
<1>1. CASE LookupMisses(t)
  BY <1>1 DEF LookupMisses, GoTo, At, Harmless, DashboardTypeOK, Job, Steps
<1>2. CASE TestFlag(t)
  BY <1>2 DEF TestFlag, GoTo, At, Harmless, DashboardTypeOK, Job, Steps
<1>3. CASE ResetFlag(t)
  BY <1>3 DEF ResetFlag, GoTo, At, Harmless, DashboardTypeOK, Job, Steps
<1> QED
  BY <1>1, <1>2, <1>3

-----------------------------------------------------------------------------
LEMMA DashboardInitInv == DashboardInit => DashboardInv
<1> SUFFICES ASSUME DashboardInit PROVE DashboardInv
  OBVIOUS
<1>1. DashboardTypeOK
  BY DashboardAssumption DEF DashboardInit, DashboardTypeOK, Job, Steps
<1>2. \A t \in Threads : thread[t].step = "idle"
  BY DEF DashboardInit
<1>3. Storing = {}
  BY <1>2 DEF Storing, At
<1>4. NumbersAreUnique /\ ResultsAreBacked
  BY <1>3 DEF NumbersAreUnique, ResultsAreBacked, DashboardInit
<1>5. AnswersAreBacked
  BY <1>2 DEF AnswersAreBacked, At
<1>6. FinitelyMany
  BY <1>3, FS_EmptySet DEF FinitelyMany, DashboardInit
<1>7. NoBlockIsOverwritten
  BY <1>3, FS_EmptySet DEF NoBlockIsOverwritten, DashboardInit, Storing
<1> QED
  BY <1>1, <1>4, <1>5, <1>6, <1>7 DEF DashboardInv

LEMMA DashboardStepInv == DashboardInv /\ [DashboardNext]_dashboardVars => DashboardInv'
<1> SUFFICES ASSUME DashboardInv, [DashboardNext]_dashboardVars PROVE DashboardInv'
  OBVIOUS
<1>1. CASE UNCHANGED dashboardVars
  BY <1>1 DEF DashboardInv, dashboardVars, DashboardTypeOK, NumbersAreUnique, ResultsAreBacked,
              AnswersAreBacked, FinitelyMany, NoBlockIsOverwritten, Storing, At
<1>2. ASSUME NEW t \in Threads, NEW key \in Keys, NEW payload \in Payloads,
             NEW simulateFailure \in BOOLEAN, Accept(t, key, payload, simulateFailure)
      PROVE  DashboardInv'
  BY <1>2, AcceptIsHarmless, HarmlessStep DEF DashboardInv
<1>3. ASSUME NEW t \in Threads, LookupFinds(t) PROVE DashboardInv'
  BY <1>3, LookupIsHarmless, HarmlessStep DEF DashboardInv
<1>4. ASSUME NEW t \in Threads, LookupMisses(t) \/ TestFlag(t) \/ ResetFlag(t)
      PROVE  DashboardInv'
  BY <1>4, FlagStepsAreHarmless, HarmlessStep DEF DashboardInv
<1>5. ASSUME NEW t \in Threads, NumberBlock(t) \/ StoreBlock(t) PROVE DashboardInv'
  BY <1>5, NumberStep, StoreStep
<1> QED
  BY <1>1, <1>2, <1>3, <1>4, <1>5 DEF DashboardNext, Proceed

\* The inductive invariant of the dashboard's authorizations.
THEOREM DashboardInvariant == DashboardSpec => []DashboardInv
BY DashboardInitInv, DashboardStepInv, PTL DEF DashboardSpec

\* With any number of threads, as many blocks are stored or about to be as
\* numbers were given out: none replaces another.
THEOREM BlocksAreKept == DashboardSpec => []NoBlockIsOverwritten
<1>1. DashboardInv => NoBlockIsOverwritten
  BY DEF DashboardInv
<1> QED
  BY <1>1, DashboardInvariant, PTL

\* Whoever is told "authorized" holds a block that exists, with its payload.
THEOREM AnswersHaveBlocks == DashboardSpec => []AnswersAreBacked
<1>1. DashboardInv => AnswersAreBacked
  BY DEF DashboardInv
<1> QED
  BY <1>1, DashboardInvariant, PTL

-----------------------------------------------------------------------------
(* agent_decide                                                            *)

Record == [tool : Tools, status : {"succeeded", "failed"}]

Run == [at : {"idle", "deciding", "decided", "explained"} \cup Ended,
        step : 0 .. MaxSteps,
        prediction : Modes \cup {None}, optimization : Outcomes \cup {None},
        trace : Seq(Record),
        decision : Decision \cup {None}, explained : (0 .. MaxRides) \cup {None}]

\* A record of the tool's success is among the first n.
Within(trace, n, tool) ==
    \E j \in 1 .. n : trace[j] = [tool |-> tool, status |-> "succeeded"]

InOrder(trace) ==
    \A i \in 1 .. Len(trace) :
        /\ trace[i].tool = "get_transaction_prediction" =>
               Within(trace, i - 1, "get_customer_history")
        /\ trace[i].tool = "calculate_risk" =>
               Within(trace, i - 1, "get_transaction_prediction")
        /\ trace[i].tool = "optimize_block" => Within(trace, i - 1, "calculate_risk")

FailureIsLast(run) ==
    \A i \in 1 .. Len(run.trace) :
        run.trace[i].status = "failed" => i = Len(run.trace) /\ run.at = "failed"

Resting(run) ==
    /\ run.optimization # None => Within(run.trace, Len(run.trace), "optimize_block")
    /\ run.decision # None => Within(run.trace, Len(run.trace), "optimize_block")

Deciding == {"decided", "explained", "unexplained", "answered", "unsaved"}

Explained == {"explained", "answered", "unsaved"}

\* The decision is the one that follows from the history it is explained with.
Follows(r, run) ==
    /\ run.explained \in 0 .. MaxRides
    /\ run.decision = [outcome |-> Optimum[run.explained][Request[r]],
                       profile |-> Request[r],
                       mode    |-> Mode(run.explained)]

\* What holds of each run by itself.
Story(r, run) ==
    /\ run \in Run
    /\ InOrder(run.trace)
    /\ FailureIsLast(run)
    /\ Resting(run)
    /\ run.at \in Deciding => run.decision \in Decision /\ run.decision.profile = Request[r]
    /\ run.at \in Explained => Follows(r, run)

Stories ==
    /\ rides \in 0 .. MaxRides
    /\ runs \in [Runs -> Run]
    /\ \A r \in Runs : Story(r, runs[r])
    /\ \A r \in stored : r \in Runs /\ runs[r].at \in {"answered", "unsaved"}

-----------------------------------------------------------------------------
(* Records are appended *)

LEMMA AppendRecord ==
    ASSUME NEW trace \in Seq(Record), NEW rec \in Record
    PROVE  /\ Append(trace, rec) \in Seq(Record)
           /\ Len(Append(trace, rec)) = Len(trace) + 1
           /\ Append(trace, rec)[Len(trace) + 1] = rec
           /\ \A i \in 1 .. Len(trace) : Append(trace, rec)[i] = trace[i]
           /\ Len(trace) \in Nat
           /\ \A i \in 1 .. Len(trace) : trace[i] \in Record
OBVIOUS

LEMMA WithinAppended ==
    ASSUME NEW trace \in Seq(Record), NEW rec \in Record, NEW tool,
           NEW n \in 0 .. Len(trace), Within(trace, n, tool)
    PROVE  Within(Append(trace, rec), n, tool)
<1>1. PICK j \in 1 .. n : trace[j] = [tool |-> tool, status |-> "succeeded"]
  BY DEF Within
<1>2. Append(trace, rec)[j] = trace[j]
  BY AppendRecord
<1> QED
  BY <1>1, <1>2 DEF Within

\* A tool that may be called comes after those it rests on.
LEMMA ReadyIsInOrder ==
    ASSUME NEW run \in Run, NEW rec \in Record, InOrder(run.trace), Ready(run, rec.tool)
    PROVE  InOrder(Append(run.trace, rec))
<1> DEFINE trace == run.trace
           longer == Append(trace, rec)
<1>1. trace \in Seq(Record)
  BY DEF Run
<1>2. \A tool : Answered(run, tool) <=> Within(trace, Len(trace), tool)
  BY <1>1 DEF Answered, Within
<1>3. /\ rec.tool = "get_transaction_prediction" =>
             Within(trace, Len(trace), "get_customer_history")
      /\ rec.tool = "calculate_risk" =>
             Within(trace, Len(trace), "get_transaction_prediction")
      /\ rec.tool = "optimize_block" => Within(trace, Len(trace), "calculate_risk")
  BY <1>2 DEF Ready
<1> HIDE DEF trace
<1>4. InOrder(trace)
  BY DEF trace
<1>5. Len(trace) \in Nat /\ Len(longer) = Len(trace) + 1
  BY <1>1, AppendRecord
<1>6. \A tool, n : n \in 0 .. Len(trace) /\ Within(trace, n, tool) => Within(longer, n, tool)
  BY <1>1, WithinAppended
<1> SUFFICES ASSUME NEW i \in 1 .. Len(longer)
             PROVE  /\ longer[i].tool = "get_transaction_prediction" =>
                           Within(longer, i - 1, "get_customer_history")
                    /\ longer[i].tool = "calculate_risk" =>
                           Within(longer, i - 1, "get_transaction_prediction")
                    /\ longer[i].tool = "optimize_block" =>
                           Within(longer, i - 1, "calculate_risk")
  BY DEF InOrder, trace
<1>7. CASE i = Len(trace) + 1
  <2>1. longer[i] = rec /\ i - 1 = Len(trace) /\ i - 1 \in 0 .. Len(trace)
    BY <1>1, <1>5, <1>7, AppendRecord
  <2> HIDE DEF longer
  <2> QED
    BY <1>3, <1>6, <2>1
<1>8. CASE i # Len(trace) + 1
  <2>1. i \in 1 .. Len(trace) /\ i - 1 \in 0 .. Len(trace)
    BY <1>5, <1>8
  <2>2. longer[i] = trace[i]
    BY <1>1, <2>1, AppendRecord
  <2> HIDE DEF longer
  <2> QED
    BY <1>4, <1>6, <2>1, <2>2 DEF InOrder
<1> QED
  BY <1>7, <1>8

-----------------------------------------------------------------------------
(* The run after a step *)

\* Bodies of the actions on one run.
LEMMA FailedStory ==
    ASSUME NEW r \in Runs, NEW run, Story(r, run), run.at = "deciding", run.step < MaxSteps
    PROVE  Story(r, [run EXCEPT !.at = "failed", !.step = @ + 1])
<1> DEFINE new == [run EXCEPT !.at = "failed", !.step = @ + 1]
<1>1. run \in Run /\ MaxSteps \in Nat
  BY AgentAssumption DEF Story
<1>2. new \in Run
  <2>1. run.step + 1 \in 0 .. MaxSteps
    BY <1>1 DEF Run
  <2> QED
    BY <1>1, <2>1 DEF Run, Ended
<1>3. /\ new.at = "failed" /\ new.trace = run.trace
      /\ new.optimization = run.optimization /\ new.decision = run.decision
  BY <1>1 DEF Run
<1> HIDE DEF new
<1>4. InOrder(new.trace) /\ Resting(new)
  BY <1>3 DEF Story, Resting
<1>5. FailureIsLast(new)
  BY <1>3 DEF Story, FailureIsLast
<1>6. new.at \notin Deciding /\ new.at \notin Explained
  BY <1>3 DEF Deciding, Explained
<1>7. Story(r, new)
  BY <1>2, <1>4, <1>5, <1>6 DEF Story
<1> QED
  BY <1>7 DEF new

LEMMA ToolFailedStory ==
    ASSUME NEW r \in Runs, NEW run, Story(r, run), run.at = "deciding", run.step < MaxSteps,
           NEW tool \in Tools, Ready(run, tool)
    PROVE  Story(r, [[run EXCEPT !.trace = Append(@, [tool |-> tool, status |-> "failed"])]
                        EXCEPT !.at = "failed", !.step = @ + 1])
<1> DEFINE rec == [tool |-> tool, status |-> "failed"]
           new == [[run EXCEPT !.trace = Append(@, rec)] EXCEPT !.at = "failed", !.step = @ + 1]
<1>1. run \in Run /\ MaxSteps \in Nat /\ run.trace \in Seq(Record) /\ rec \in Record
  BY AgentAssumption DEF Story, Run, Record
<1>2. rec.tool = tool
  OBVIOUS
<1> HIDE DEF rec
<1>3. Append(run.trace, rec) \in Seq(Record)
  BY <1>1, AppendRecord
<1>4. new \in Run
  <2>1. run.step + 1 \in 0 .. MaxSteps
    BY <1>1 DEF Run
  <2> DEFINE longer == [run EXCEPT !.trace = Append(@, rec)]
  <2>2. longer \in Run /\ longer.step = run.step
    BY <1>1, <1>3 DEF Run
  <2> HIDE DEF longer
  <2>3. [longer EXCEPT !.at = "failed", !.step = @ + 1] \in Run
    BY <2>1, <2>2 DEF Run, Ended
  <2> QED
    BY <2>3 DEF longer
<1>5. /\ new.at = "failed" /\ new.trace = Append(run.trace, rec)
      /\ new.optimization = run.optimization /\ new.decision = run.decision
  BY <1>1 DEF Run
<1> HIDE DEF new
<1>6. InOrder(new.trace)
  BY <1>1, <1>2, <1>5, ReadyIsInOrder DEF Story
<1>7. FailureIsLast(new)
  <2>1. \A i \in 1 .. Len(run.trace) : run.trace[i].status # "failed"
    BY DEF Story, FailureIsLast
  <2>2. /\ Len(new.trace) = Len(run.trace) + 1 /\ Len(run.trace) \in Nat
        /\ \A i \in 1 .. Len(run.trace) : new.trace[i] = run.trace[i]
    BY <1>1, <1>5, AppendRecord
  <2> QED
    BY <1>5, <2>1, <2>2 DEF FailureIsLast
<1>8. Resting(new)
  <2>1. Len(run.trace) \in Nat /\ Len(new.trace) = Len(run.trace) + 1
    BY <1>1, <1>5, AppendRecord
  <2>2. Within(run.trace, Len(run.trace), "optimize_block") =>
            Within(new.trace, Len(run.trace), "optimize_block")
    BY <1>1, <1>5, <2>1, WithinAppended
  <2> QED
    BY <1>5, <2>1, <2>2 DEF Story, Resting, Within
<1>9. new.at \notin Deciding /\ new.at \notin Explained
  BY <1>5 DEF Deciding, Explained
<1>10. Story(r, new)
  BY <1>4, <1>6, <1>7, <1>8, <1>9 DEF Story
<1> QED
  BY <1>10 DEF new, rec

LEMMA CalledStory ==
    ASSUME Stories, NEW r \in Runs, NEW tool \in Tools, NEW profile \in Profiles,
           CallTool(r, tool, profile)
    PROVE  Story(r, WithResult(runs[r], tool, profile))
<1> DEFINE run == runs[r]
           rec == [tool |-> tool, status |-> "succeeded"]
           new == WithResult(run, tool, profile)
<1>1. /\ run \in Run /\ MaxSteps \in Nat /\ run.trace \in Seq(Record) /\ rec \in Record
      /\ run.at = "deciding" /\ run.step < MaxSteps /\ Ready(run, tool)
      /\ rides \in 0 .. MaxRides
  BY AgentAssumption DEF Stories, Run, Record, CallTool, InLoop
<1>2. Optimum[rides][profile] \in Outcomes /\ Mode(rides) \in Modes
  BY <1>1, AgentAssumption DEF Mode, Modes
<1>3. rec.tool = tool /\ rec.status = "succeeded"
  OBVIOUS
<1>4. Story(r, run)
  BY DEF Stories
<1>5. new \in Run
  <2>1. Append(run.trace, rec) \in Seq(Record) /\ run.step + 1 \in 0 .. MaxSteps
    BY <1>1, AppendRecord DEF Run
  <2> DEFINE called == [run EXCEPT !.step = @ + 1, !.trace = Append(@, rec)]
  <2>2. called \in Run
    BY <1>1, <2>1 DEF Run
  <2>3. /\ [called EXCEPT !.prediction = Mode(rides)] \in Run
        /\ [called EXCEPT !.optimization = Optimum[rides][profile]] \in Run
    BY <1>2, <2>2 DEF Run
  <2>4. \/ new = called
        \/ new = [called EXCEPT !.prediction = Mode(rides)]
        \/ new = [called EXCEPT !.optimization = Optimum[rides][profile]]
    BY DEF WithResult
  <2> QED
    BY <2>2, <2>3, <2>4
<1>6. /\ new.at = "deciding" /\ new.trace = Append(run.trace, rec)
      /\ new.decision = run.decision
      /\ new.optimization = run.optimization \/ tool = "optimize_block"
  BY <1>1 DEF WithResult, Run
<1> HIDE DEF new, run
<1>7. InOrder(new.trace)
  <2> HIDE DEF rec
  <2> QED
    BY <1>1, <1>3, <1>4, <1>6, ReadyIsInOrder DEF Story
<1>8. /\ Len(run.trace) \in Nat /\ Len(new.trace) = Len(run.trace) + 1
      /\ new.trace[Len(run.trace) + 1] = rec
      /\ \A i \in 1 .. Len(run.trace) : new.trace[i] = run.trace[i]
  <2> HIDE DEF rec
  <2> QED
    BY <1>1, <1>6, AppendRecord
<1>9. FailureIsLast(new)
  <2>1. \A i \in 1 .. Len(run.trace) : run.trace[i].status # "failed"
    BY <1>1, <1>4 DEF Story, FailureIsLast
  <2> HIDE DEF rec
  <2> QED
    BY <1>3, <1>8, <2>1 DEF FailureIsLast
<1>10. Resting(new)
  <2>1. tool = "optimize_block" => Within(new.trace, Len(new.trace), "optimize_block")
    BY <1>8 DEF Within
  <2>2. Within(run.trace, Len(run.trace), "optimize_block") =>
            Within(new.trace, Len(run.trace), "optimize_block")
    BY <1>1, <1>6, <1>8, WithinAppended
  <2> QED
    BY <1>4, <1>6, <1>8, <2>1, <2>2 DEF Story, Resting, Within
<1>11. new.at \notin Deciding /\ new.at \notin Explained
  BY <1>6 DEF Deciding, Explained
<1>12. Story(r, new)
  BY <1>5, <1>7, <1>9, <1>10, <1>11 DEF Story
<1> QED
  BY <1>12 DEF new, run

LEMMA DecidedStory ==
    ASSUME Stories, NEW r \in Runs, NEW decision \in Decision, Finalize(r, decision)
    PROVE  Story(r, [runs[r] EXCEPT !.at = "decided", !.step = @ + 1, !.decision = decision])
<1> DEFINE run == runs[r]
           new == [run EXCEPT !.at = "decided", !.step = @ + 1, !.decision = decision]
<1>1. /\ run \in Run /\ MaxSteps \in Nat /\ Story(r, run)
      /\ run.at = "deciding" /\ run.step < MaxSteps
  BY AgentAssumption DEF Stories, Finalize, InLoop
<1>2. /\ decision.outcome = run.optimization /\ decision.profile = Request[r]
      /\ decision.outcome \in Outcomes
  BY DEF Finalize, Consistent, Decision
<1>3. run.optimization # None
  BY <1>2, AgentAssumption
<1>4. new \in Run
  <2>1. run.step + 1 \in 0 .. MaxSteps
    BY <1>1 DEF Run
  <2> QED
    BY <1>1, <2>1 DEF Run
<1>5. /\ new.at = "decided" /\ new.trace = run.trace
      /\ new.optimization = run.optimization /\ new.decision = decision
  BY <1>1 DEF Run
<1> HIDE DEF new, run
<1>6. InOrder(new.trace) /\ Resting(new)
  BY <1>1, <1>3, <1>5 DEF Story, Resting
<1>7. FailureIsLast(new)
  BY <1>1, <1>5 DEF Story, FailureIsLast
<1>8. new.at \in Deciding /\ new.at \notin Explained
  BY <1>5 DEF Deciding, Explained
<1>9. Story(r, new)
  BY <1>2, <1>4, <1>5, <1>6, <1>7, <1>8 DEF Story
<1> QED
  BY <1>9 DEF new, run

LEMMA ExplainedStory ==
    ASSUME Stories, NEW r \in Runs, Explain(r)
    PROVE  Story(r, [runs[r] EXCEPT !.at = "explained", !.explained = rides])
<1> DEFINE run == runs[r]
           new == [run EXCEPT !.at = "explained", !.explained = rides]
<1>1. /\ run \in Run /\ Story(r, run) /\ rides \in 0 .. MaxRides /\ run.at = "decided"
      /\ DerivedAgain(run.decision)
  BY DEF Stories, Explain
<1>2. run.decision \in Decision /\ run.decision.profile = Request[r]
  BY <1>1 DEF Story, Deciding
<1>3. new \in Run
  BY <1>1 DEF Run
<1>4. /\ new.at = "explained" /\ new.trace = run.trace /\ new.explained = rides
      /\ new.optimization = run.optimization /\ new.decision = run.decision
  BY <1>1 DEF Run
<1> HIDE DEF new, run
<1>5. run.decision = [outcome |-> Optimum[rides][Request[r]], profile |-> Request[r],
                      mode |-> Mode(rides)]
  BY <1>1, <1>2 DEF DerivedAgain, Decision
<1>6. Follows(r, new)
  BY <1>1, <1>4, <1>5 DEF Follows
<1>7. InOrder(new.trace) /\ Resting(new)
  BY <1>1, <1>4 DEF Story, Resting
<1>8. FailureIsLast(new)
  BY <1>1, <1>4 DEF Story, FailureIsLast
<1>9. Story(r, new)
  BY <1>2, <1>3, <1>4, <1>6, <1>7, <1>8 DEF Story
<1> QED
  BY <1>9 DEF new, run

\* A run that only goes on to another stage.
LEMMA StageStory ==
    ASSUME NEW r \in Runs, NEW run, Story(r, run), NEW stage,
           \/ run.at = "idle" /\ stage = "deciding"
           \/ run.at = "deciding" /\ stage = "failed"
           \/ run.at = "decided" /\ stage = "unexplained"
           \/ run.at = "explained" /\ stage \in {"answered", "unsaved"}
    PROVE  Story(r, [run EXCEPT !.at = stage])
<1> DEFINE new == [run EXCEPT !.at = stage]
<1>1. run \in Run
  BY DEF Story
<1>2. new \in Run
  BY <1>1 DEF Run, Ended
<1>3. /\ new.at = stage /\ new.trace = run.trace /\ new.explained = run.explained
      /\ new.optimization = run.optimization /\ new.decision = run.decision
  BY <1>1 DEF Run
<1> HIDE DEF new
<1>4. InOrder(new.trace) /\ Resting(new)
  BY <1>3 DEF Story, Resting
<1>5. FailureIsLast(new)
  BY <1>3 DEF Story, FailureIsLast
<1>6. new.at \in Deciding => run.at \in Deciding
  BY <1>3 DEF Deciding
<1>7. new.at \in Explained => run.at \in Explained
  BY <1>3 DEF Explained
<1>8. Story(r, new)
  BY <1>2, <1>3, <1>4, <1>5, <1>6, <1>7 DEF Story, Follows
<1> QED
  BY <1>8 DEF new

-----------------------------------------------------------------------------
(* Every step keeps every run's story *)

LEMMA OthersKeepTheirStory ==
    ASSUME Stories, NEW r \in Runs, NEW new, Story(r, new),
           runs' = [runs EXCEPT ![r] = new], rides' = rides,
           \/ stored' = stored /\ (runs[r].at \in {"answered", "unsaved"} =>
                                      new.at \in {"answered", "unsaved"})
           \/ stored' \in {stored, stored \cup {r}} /\ new.at \in {"answered", "unsaved"}
    PROVE  Stories'
<1>1. new \in Run
  BY DEF Story
<1>2. runs' \in [Runs -> Run] /\ runs'[r] = new
  BY <1>1 DEF Stories
<1>3. \A q \in Runs : q # r => runs'[q] = runs[q]
  BY DEF Stories
<1>4. \A q \in Runs : Story(q, runs'[q])
  BY <1>2, <1>3 DEF Stories
<1>5. \A q \in stored' : q \in Runs /\ runs'[q].at \in {"answered", "unsaved"}
  BY <1>2, <1>3 DEF Stories
<1>6. \A q \in Runs : Story(q, runs'[q]) <=> Story(q, runs[q])'
  BY DEF Story, InOrder, FailureIsLast, Resting, Follows
<1> QED
  BY <1>2, <1>4, <1>5, <1>6 DEF Stories

LEMMA StoriesInit == AgentInit => Stories
<1> SUFFICES ASSUME AgentInit PROVE Stories
  OBVIOUS
<1>1. NewRun \in Run
  <2>1. << >> \in Seq(Record) /\ 0 \in 0 .. MaxSteps
    BY AgentAssumption
  <2> QED
    BY <2>1 DEF NewRun, Run
<1>2. /\ NewRun.trace = << >> /\ NewRun.optimization = None /\ NewRun.decision = None
      /\ NewRun.at = "idle"
  BY DEF NewRun
<1>3. InOrder(NewRun.trace) /\ FailureIsLast(NewRun) /\ Resting(NewRun)
  BY <1>2 DEF InOrder, FailureIsLast, Resting
<1>4. \A r \in Runs : Story(r, NewRun)
  BY <1>1, <1>2, <1>3 DEF Story, Deciding, Explained
<1> QED
  BY <1>1, <1>4 DEF AgentInit, Stories

LEMMA StoriesStep == Stories /\ [AgentNext]_agentVars => Stories'
<1> SUFFICES ASSUME Stories, [AgentNext]_agentVars PROVE Stories'
  OBVIOUS
<1>0. \A r \in Runs : Story(r, runs[r])
  BY DEF Stories
<1>1. CASE UNCHANGED agentVars
  BY <1>1 DEF Stories, Story, InOrder, FailureIsLast, Resting, Follows, agentVars
<1>2. ASSUME NEW r \in Runs, Start(r) PROVE Stories'
  <2>1. runs' = [runs EXCEPT ![r] = [runs[r] EXCEPT !.at = "deciding"]]
    BY <1>2 DEF Start
  <2>2. Story(r, [runs[r] EXCEPT !.at = "deciding"])
    BY <1>0, <1>2, StageStory DEF Start
  <2> QED
    BY <1>2, <2>1, <2>2, OthersKeepTheirStory DEF Start
<1>3. ASSUME NEW r \in Runs, NEW tool \in Tools, NEW profile \in Profiles,
             CallTool(r, tool, profile)
      PROVE  Stories'
  <2>1. runs' = [runs EXCEPT ![r] = WithResult(runs[r], tool, profile)]
    BY <1>3 DEF CallTool
  <2> QED
    BY <1>3, <2>1, CalledStory, OthersKeepTheirStory DEF CallTool, InLoop
<1>4. ASSUME NEW r \in Runs, NEW tool \in Tools, ToolFails(r, tool) PROVE Stories'
  <2> DEFINE rec == [tool |-> tool, status |-> "failed"]
             new == [[runs[r] EXCEPT !.trace = Append(@, rec)]
                        EXCEPT !.at = "failed", !.step = @ + 1]
  <2>1. /\ runs' = [runs EXCEPT ![r] = new] /\ rides' = rides /\ stored' = stored
        /\ runs[r].at = "deciding" /\ runs[r].step < MaxSteps /\ Ready(runs[r], tool)
    BY <1>4 DEF ToolFails, Fails, InLoop
  <2>2. Story(r, new)
    BY <1>0, <2>1, ToolFailedStory
  <2> HIDE DEF new
  <2> QED
    BY <2>1, <2>2, OthersKeepTheirStory
<1>5. ASSUME NEW r \in Runs, InLoop(r), Fails(r, runs[r]) PROVE Stories'
  <2> DEFINE new == [runs[r] EXCEPT !.at = "failed", !.step = @ + 1]
  <2>1. /\ runs' = [runs EXCEPT ![r] = new] /\ rides' = rides /\ stored' = stored
        /\ runs[r].at = "deciding" /\ runs[r].step < MaxSteps
    BY <1>5 DEF Fails, InLoop
  <2>2. Story(r, new)
    BY <1>0, <2>1, FailedStory
  <2> HIDE DEF new
  <2> QED
    BY <2>1, <2>2, OthersKeepTheirStory
<1>6. ASSUME NEW r \in Runs, NEW decision \in Decision, Finalize(r, decision) PROVE Stories'
  <2> DEFINE new == [runs[r] EXCEPT !.at = "decided", !.step = @ + 1, !.decision = decision]
  <2>1. runs' = [runs EXCEPT ![r] = new]
    BY <1>6 DEF Finalize
  <2>2. rides' = rides /\ stored' = stored /\ runs[r].at = "deciding"
    BY <1>6 DEF Finalize, InLoop
  <2>3. Story(r, new)
    BY <1>6, DecidedStory
  <2> HIDE DEF new
  <2> QED
    BY <2>1, <2>2, <2>3, OthersKeepTheirStory
<1>7. ASSUME NEW r \in Runs, Explain(r) PROVE Stories'
  <2> DEFINE new == [runs[r] EXCEPT !.at = "explained", !.explained = rides]
  <2>1. /\ runs' = [runs EXCEPT ![r] = new] /\ rides' = rides /\ stored' = stored
        /\ runs[r].at = "decided"
    BY <1>7 DEF Explain
  <2>2. Story(r, new)
    BY <1>7, ExplainedStory
  <2> HIDE DEF new
  <2> QED
    BY <2>1, <2>2, OthersKeepTheirStory
<1>8. ASSUME NEW r \in Runs, StepLimitExceeded(r) \/ ExplainFails(r) PROVE Stories'
  <2>1. PICK stage \in {"failed", "unexplained"} :
           /\ runs' = [runs EXCEPT ![r] = [runs[r] EXCEPT !.at = stage]]
           /\ rides' = rides /\ stored' = stored
           /\ \/ runs[r].at = "deciding" /\ stage = "failed"
              \/ runs[r].at = "decided" /\ stage = "unexplained"
    BY <1>8 DEF StepLimitExceeded, ExplainFails
  <2>2. Story(r, [runs[r] EXCEPT !.at = stage])
    BY <1>0, <2>1, StageStory
  <2> QED
    BY <2>1, <2>2, OthersKeepTheirStory
<1>9. ASSUME NEW r \in Runs, Save(r) \/ SaveFails(r) PROVE Stories'
  <2>1. PICK stage \in {"answered", "unsaved"} :
           /\ runs' = [runs EXCEPT ![r] = [runs[r] EXCEPT !.at = stage]]
           /\ rides' = rides /\ stored' \in {stored, stored \cup {r}}
           /\ runs[r].at = "explained"
    BY <1>9 DEF Save, SaveFails
  <2>2. Story(r, [runs[r] EXCEPT !.at = stage])
    BY <1>0, <2>1, StageStory
  <2>3. [runs[r] EXCEPT !.at = stage].at = stage
    BY DEF Stories, Run
  <2> QED
    BY <2>1, <2>2, <2>3, OthersKeepTheirStory
<1>10. ASSUME Ingest PROVE Stories'
  <2>1. rides' \in 0 .. MaxRides
    BY <1>10, AgentAssumption DEF Ingest, Stories
  <2> QED
    BY <1>10, <2>1 DEF Ingest, Stories, Story, InOrder, FailureIsLast, Resting, Follows
<1>11. CASE AgentNext
  <2>1. ASSUME NEW r \in Runs, NEW tool \in Tools, CallTooEarly(r, tool) PROVE Stories'
    BY <2>1, <1>5 DEF CallTooEarly
  <2>2. ASSUME NEW r \in Runs, ActIsMalformed(r) PROVE Stories'
    BY <2>2, <1>5 DEF ActIsMalformed
  <2>3. ASSUME NEW r \in Runs, NEW decision \in Decision, DecisionRefused(r, decision)
        PROVE  Stories'
    BY <2>3, <1>5 DEF DecisionRefused
  <2>4. ASSUME NEW r \in Runs, Continue(r) PROVE Stories'
    BY <2>4, <1>3, <1>4, <1>6, <1>7, <1>8, <1>9, <2>1, <2>2, <2>3 DEF Continue
  <2> QED
    BY <1>2, <1>10, <1>11, <2>4 DEF AgentNext
<1> QED
  BY <1>1, <1>11

\* The inductive invariant of the agent runs.
THEOREM StoriesInvariant == AgentSpec => []Stories
BY StoriesInit, StoriesStep, PTL DEF AgentSpec

\* Whatever the agent model does and whatever is ingested, a run is answered and
\* stored only with the decision that follows from the history it is explained with.
THEOREM AnswersFollow == AgentSpec => []AnswerFollowsFromHistory
<1>1. Stories => AnswerFollowsFromHistory
  <2> SUFFICES ASSUME Stories, NEW r \in Runs,
                      r \in stored \/ runs[r].at \in {"explained", "answered", "unsaved"}
               PROVE  /\ runs[r].explained # None
                      /\ runs[r].decision =
                            [outcome |-> Optimum[runs[r].explained][Request[r]],
                             profile |-> Request[r],
                             mode    |-> Mode(runs[r].explained)]
    BY DEF AnswerFollowsFromHistory
  <2>1. Follows(r, runs[r])
    BY DEF Stories, Story, Explained
  <2> QED
    BY <2>1, AgentAssumption DEF Follows
<1> QED
  BY <1>1, StoriesInvariant, PTL

\* The audit trail of every run is in order, for every step limit and every model.
THEOREM TracesTell == AgentSpec => []TraceTellsTheRun
<1>1. Stories => TraceTellsTheRun
  <2> SUFFICES ASSUME Stories PROVE TraceTellsTheRun
    OBVIOUS
  <2>1. ASSUME NEW r \in Runs
        PROVE  /\ runs[r].trace \in Seq(Record) /\ runs[r].step \in 0 .. MaxSteps
               /\ InOrder(runs[r].trace) /\ FailureIsLast(runs[r]) /\ Resting(runs[r])
    BY DEF Stories, Story, Run
  <2>2. ASSUME NEW r \in Runs
        PROVE  /\ DOMAIN runs[r].trace = 1 .. Len(runs[r].trace)
               /\ Len(runs[r].trace) + 1 - 1 = Len(runs[r].trace)
               /\ runs[r].step <= MaxSteps
    BY <2>1, AgentAssumption
  <2> QED
    BY <2>1, <2>2 DEF TraceTellsTheRun, InOrder, FailureIsLast, Resting, Within
<1> QED
  BY <1>1, StoriesInvariant, PTL

-----------------------------------------------------------------------------
(* The counters *)

Going == {r \in Runs : runs[r].at \in {"deciding", "decided"}}

Ending == {r \in Runs : runs[r].at \in {"explained"} \cup Ended}

Counters == [total_runs : Nat, successful_runs : Nat, failed_runs : Nat,
             explanation_fallbacks : Nat]

\* Only runs that were started count, and they are finitely many.
Counting ==
    /\ counts \in Counters
    /\ IsFiniteSet(Going) /\ IsFiniteSet(Ending)
    /\ RunsAreCounted

\* One run goes to another stage.
Moves(r, from, to) ==
    /\ runs[r].at = from /\ runs'[r].at = to
    /\ \A q \in Runs : q # r => runs'[q].at = runs[q].at

\* A run begins, goes on, or ends in one of three ways, each with its counter.
Begins(r) == Moves(r, "idle", "deciding") /\ Counted("total_runs")

GoesOn(r) ==
    /\ \E from, to \in {"deciding", "decided"} : Moves(r, from, to)
    /\ counts' = counts

StaysEnded(r) ==
    /\ \E from, to \in {"explained"} \cup Ended : Moves(r, from, to)
    /\ counts' = counts

Ends(r) ==
    \E from \in {"deciding", "decided"}, to \in {"explained"} \cup Ended,
       tally \in {"successful_runs", "failed_runs", "explanation_fallbacks"} :
        Moves(r, from, to) /\ Counted(tally)

LEMMA CountedBeginning ==
    ASSUME Counting, NEW r \in Runs, Begins(r)
    PROVE  Counting'
<1>1. r \notin Going /\ Going' = Going \cup {r} /\ Ending' = Ending
  BY DEF Begins, Moves, Going, Ending, Ended
<1>2. IsFiniteSet(Going') /\ Cardinality(Going') = Cardinality(Going) + 1
  BY <1>1, FS_AddElement DEF Counting
<1>3. Cardinality(Going) \in Nat /\ Cardinality(Ending) \in Nat
  BY FS_CardinalityType DEF Counting
<1>4. /\ counts.total_runs = Cardinality(Going) + Cardinality(Ending)
      /\ counts.successful_runs + counts.failed_runs + counts.explanation_fallbacks
             = Cardinality(Ending)
  BY DEF Counting, RunsAreCounted, Going, Ending
<1>5. counts' = [counts EXCEPT !.total_runs = counts.total_runs + 1]
  BY DEF Begins, Counted
<1>6. counts' \in Counters /\ IsFiniteSet(Ending')
  BY <1>1, <1>5 DEF Counting, Counters
<1>7. /\ counts'.total_runs = Cardinality(Going') + Cardinality(Ending')
      /\ counts'.successful_runs + counts'.failed_runs + counts'.explanation_fallbacks
             = Cardinality(Ending')
  BY <1>1, <1>2, <1>3, <1>4, <1>5 DEF Counting, Counters
<1>8. RunsAreCounted'
  BY <1>7 DEF RunsAreCounted, Going, Ending
<1> QED
  BY <1>2, <1>6, <1>8 DEF Counting

LEMMA CountedGoingOn ==
    ASSUME Counting, counts' = counts,
           NEW r \in Runs, GoesOn(r) \/ StaysEnded(r)
    PROVE  Counting'
<1>1. Going' = Going /\ Ending' = Ending
  BY DEF GoesOn, StaysEnded, Moves, Going, Ending, Ended
<1> QED
  BY <1>1 DEF Counting, RunsAreCounted, Going, Ending

LEMMA CountedEnding ==
    ASSUME Counting, NEW r \in Runs, Ends(r)
    PROVE  Counting'
<1>1. /\ r \in Going /\ Going' = Going \ {r}
      /\ r \notin Ending /\ Ending' = Ending \cup {r}
  BY DEF Ends, Moves, Going, Ending, Ended
<1>2. /\ IsFiniteSet(Going') /\ Cardinality(Going') = Cardinality(Going) - 1
      /\ IsFiniteSet(Ending') /\ Cardinality(Ending') = Cardinality(Ending) + 1
  BY <1>1, FS_AddElement, FS_RemoveElement DEF Counting
<1>3. Cardinality(Going) \in Nat /\ Cardinality(Ending) \in Nat
  BY FS_CardinalityType DEF Counting
<1>4. /\ counts.total_runs = Cardinality(Going) + Cardinality(Ending)
      /\ counts.successful_runs + counts.failed_runs + counts.explanation_fallbacks
             = Cardinality(Ending)
  BY DEF Counting, RunsAreCounted, Going, Ending
<1>5. PICK tally \in {"successful_runs", "failed_runs", "explanation_fallbacks"} :
         counts' = [counts EXCEPT ![tally] = counts[tally] + 1]
  BY DEF Ends, Counted
<1>6. /\ counts' \in Counters
      /\ counts'.total_runs = counts.total_runs
      /\ counts'.successful_runs + counts'.failed_runs + counts'.explanation_fallbacks
             = counts.successful_runs + counts.failed_runs + counts.explanation_fallbacks + 1
  <2>1. CASE tally = "successful_runs"
    BY <1>5, <2>1 DEF Counting, Counters
  <2>2. CASE tally = "failed_runs"
    BY <1>5, <2>2 DEF Counting, Counters
  <2>3. CASE tally = "explanation_fallbacks"
    BY <1>5, <2>3 DEF Counting, Counters
  <2> QED
    BY <2>1, <2>2, <2>3
<1>7. /\ counts'.total_runs = Cardinality(Going') + Cardinality(Ending')
      /\ counts'.successful_runs + counts'.failed_runs + counts'.explanation_fallbacks
             = Cardinality(Ending')
  BY <1>2, <1>3, <1>4, <1>6 DEF Counting, Counters
<1>8. RunsAreCounted'
  BY <1>7 DEF RunsAreCounted, Going, Ending
<1> QED
  BY <1>2, <1>6, <1>8 DEF Counting

\* Which step is which.
LEMMA StepsAreCounted ==
    ASSUME Stories, NEW r \in Runs, Start(r) \/ Continue(r)
    PROVE  Begins(r) \/ GoesOn(r) \/ StaysEnded(r) \/ Ends(r)
<1>1. runs \in [Runs -> Run] /\ runs[r] \in Run
  BY DEF Stories
<1>2. \A new : runs' = [runs EXCEPT ![r] = new] =>
         runs'[r] = new /\ \A q \in Runs : q # r => runs'[q].at = runs[q].at
  BY <1>1
<1>3. CASE Start(r)
  <2>1. runs[r].at = "idle" /\ runs' = [runs EXCEPT ![r] = [runs[r] EXCEPT !.at = "deciding"]]
    BY <1>3 DEF Start
  <2>2. [runs[r] EXCEPT !.at = "deciding"].at = "deciding"
    BY <1>1 DEF Run
  <2> QED
    BY <1>2, <1>3, <2>1, <2>2 DEF Start, Begins, Moves
<1>4. ASSUME NEW tool \in Tools, NEW profile \in Profiles, CallTool(r, tool, profile)
      PROVE  GoesOn(r)
  <2>1. /\ runs' = [runs EXCEPT ![r] = WithResult(runs[r], tool, profile)]
        /\ runs[r].at = "deciding" /\ counts' = counts
    BY <1>4 DEF CallTool, InLoop
  <2>2. WithResult(runs[r], tool, profile).at = "deciding"
    BY <1>1, <2>1 DEF WithResult, Run
  <2> QED
    BY <1>2, <2>1, <2>2 DEF GoesOn, Moves
<1>5. ASSUME NEW run \in Run, InLoop(r), Fails(r, run) PROVE Ends(r)
  <2>1. /\ runs' = [runs EXCEPT ![r] = [run EXCEPT !.at = "failed", !.step = @ + 1]]
        /\ runs[r].at = "deciding" /\ Counted("failed_runs")
    BY <1>5 DEF Fails, InLoop
  <2>2. [run EXCEPT !.at = "failed", !.step = @ + 1].at = "failed"
    BY DEF Run
  <2>3. Moves(r, "deciding", "failed")
    BY <1>2, <2>1, <2>2 DEF Moves
  <2> QED
    BY <2>1, <2>3 DEF Ends, Ended
<1>6. ASSUME NEW tool \in Tools, ToolFails(r, tool) PROVE Ends(r)
  <2> DEFINE rec == [tool |-> tool, status |-> "failed"]
             longer == [runs[r] EXCEPT !.trace = Append(@, rec)]
  <2>1. rec \in Record /\ runs[r].trace \in Seq(Record)
    BY <1>1 DEF Record, Run
  <2>2. Append(runs[r].trace, rec) \in Seq(Record)
    BY <2>1, AppendRecord
  <2>3. longer \in Run
    BY <1>1, <2>2 DEF Run
  <2>4. InLoop(r) /\ Fails(r, longer)
    BY <1>6 DEF ToolFails
  <2> QED
    BY <1>5, <2>3, <2>4
<1>7. ASSUME NEW decision \in Decision, Finalize(r, decision) PROVE GoesOn(r)
  <2> DEFINE new == [runs[r] EXCEPT !.at = "decided", !.step = @ + 1, !.decision = decision]
  <2>1. runs' = [runs EXCEPT ![r] = new]
    BY <1>7 DEF Finalize
  <2>2. runs[r].at = "deciding" /\ counts' = counts /\ new.at = "decided"
    BY <1>1, <1>7 DEF Finalize, InLoop, Run
  <2> QED
    BY <1>2, <2>1, <2>2 DEF GoesOn, Moves
<1>8. ASSUME NEW stage, runs' = [runs EXCEPT ![r] = [runs[r] EXCEPT !.at = stage]]
      PROVE  Moves(r, runs[r].at, stage)
  <2>1. [runs[r] EXCEPT !.at = stage].at = stage
    BY <1>1 DEF Run
  <2> QED
    BY <1>2, <1>8, <2>1 DEF Moves
<1>9. CASE StepLimitExceeded(r)
  BY <1>8, <1>9 DEF StepLimitExceeded, Ends, Ended
<1>10. CASE ExplainFails(r)
  BY <1>8, <1>10 DEF ExplainFails, Ends, Ended
<1>11. CASE Explain(r)
  <2> DEFINE new == [runs[r] EXCEPT !.at = "explained", !.explained = rides]
  <2>1. runs' = [runs EXCEPT ![r] = new] /\ runs[r].at = "decided" /\ Counted("successful_runs")
    BY <1>11 DEF Explain
  <2>2. new.at = "explained"
    BY <1>1 DEF Run
  <2>3. Moves(r, "decided", "explained")
    BY <1>2, <2>1, <2>2 DEF Moves
  <2> QED
    BY <2>1, <2>3 DEF Ends
<1>12. CASE Save(r)
  BY <1>8, <1>12 DEF Save, StaysEnded, Ended
<1>13. CASE SaveFails(r)
  BY <1>8, <1>13 DEF SaveFails, StaysEnded, Ended
<1>14. ASSUME NEW tool \in Tools, CallTooEarly(r, tool) PROVE Ends(r)
  BY <1>1, <1>5, <1>14 DEF CallTooEarly
<1>15. CASE ActIsMalformed(r)
  BY <1>1, <1>5, <1>15 DEF ActIsMalformed
<1>16. ASSUME NEW decision \in Decision, DecisionRefused(r, decision) PROVE Ends(r)
  BY <1>1, <1>5, <1>16 DEF DecisionRefused
<1> QED
  BY <1>3, <1>4, <1>6, <1>7, <1>9, <1>10, <1>11, <1>12, <1>13, <1>14, <1>15, <1>16 DEF Continue

LEMMA CountingInit == AgentInit => Counting
<1> SUFFICES ASSUME AgentInit PROVE Counting
  OBVIOUS
<1>1. \A r \in Runs : runs[r].at = "idle"
  BY DEF AgentInit, NewRun
<1>2. Going = {} /\ Ending = {}
  BY <1>1 DEF Going, Ending, Ended
<1>3. IsFiniteSet(Going) /\ IsFiniteSet(Ending)
      /\ Cardinality(Going) = 0 /\ Cardinality(Ending) = 0
  BY <1>2, FS_EmptySet
<1>4. counts \in Counters /\ counts.total_runs = 0 /\ counts.successful_runs = 0
      /\ counts.failed_runs = 0 /\ counts.explanation_fallbacks = 0
  BY DEF AgentInit, Counters
<1> QED
  BY <1>3, <1>4 DEF Counting, RunsAreCounted, Going, Ending

LEMMA CountingStep == Stories /\ Counting /\ [AgentNext]_agentVars => Counting'
<1> SUFFICES ASSUME Stories, Counting, [AgentNext]_agentVars PROVE Counting'
  OBVIOUS
<1>1. CASE UNCHANGED <<runs, counts>>
  BY <1>1 DEF Counting, RunsAreCounted, Going, Ending
<1>2. ASSUME NEW r \in Runs, Start(r) \/ Continue(r) PROVE Counting'
  <2>1. Begins(r) \/ GoesOn(r) \/ StaysEnded(r) \/ Ends(r)
    BY <1>2, StepsAreCounted
  <2>2. CASE GoesOn(r) \/ StaysEnded(r)
    BY <2>2, CountedGoingOn DEF GoesOn, StaysEnded
  <2> QED
    BY <2>1, <2>2, CountedBeginning, CountedEnding
<1> QED
  BY <1>1, <1>2 DEF AgentNext, Ingest, agentVars

\* The counters partition the runs, however many there are.
THEOREM CountersPartition == AgentSpec => []RunsAreCounted
<1>1. Counting => RunsAreCounted
  BY DEF Counting
<1>2. AgentSpec => []Counting
  BY CountingInit, CountingStep, StoriesInvariant, PTL DEF AgentSpec
<1> QED
  BY <1>1, <1>2, PTL
=============================================================================
