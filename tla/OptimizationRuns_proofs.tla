------------------------ MODULE OptimizationRuns_proofs ------------------------
(***************************************************************************)
(* For any number of handlers, rides, customers and requests: what is      *)
(* answered about a completed ride is true, a ride once stored keeps its   *)
(* data, and a stored optimization rests on the history it should.         *)
(***************************************************************************)
EXTENDS OptimizationRuns, TLAPS

\* One version of each ride.
OneEach == \A r, s \in rides : r.id = s.id => r = s

StoreInOrder == StoreTypeOK /\ OneEach /\ AnswersAreTrue

-----------------------------------------------------------------------------
(* Ingestion.                                                              *)

LEMMA StoreInitInOrder == StoreInit => StoreInOrder
<1> SUFFICES ASSUME StoreInit PROVE StoreInOrder
  OBVIOUS
<1>1. (CHOOSE r \in Ride : TRUE) \in Ride
  <2>1. \E r \in Ride : TRUE
    <3>1. PICK id \in RideIds, data \in Data : TRUE
      BY StoreAssumption
    <3>2. [id |-> id, data |-> data] \in Ride
      BY DEF Ride
    <3> QED
      BY <3>2
  <2> QED
    BY <2>1
<1>2. StoreTypeOK
  <2>1. handler \in [Handlers -> Handler]
    BY <1>1 DEF StoreInit, Handler
  <2> QED
    BY <2>1, StoreAssumption DEF StoreInit, StoreTypeOK
<1> QED
  BY <1>2 DEF StoreInOrder, StoreInit, OneEach, AnswersAreTrue, At

\* A handler that is between two answers, or gives one that is true.
LEMMA AnswerStep ==
    ASSUME StoreInOrder, NEW h \in Handlers, NEW step,
           step \in {"insert", "find again"} \cup Answers,
           handler' = [handler EXCEPT ![h].step = step],
           step \in {"created", "replayed"} => handler[h].ride \in rides',
           step = "conflict" => Stored(handler[h].ride.id)' /\ handler[h].ride \notin rides',
           UNCHANGED submissions,
           \/ UNCHANGED rides
           \/ /\ rides' = rides \cup {handler[h].ride}
              /\ ~Stored(handler[h].ride.id)
    PROVE  StoreInOrder'
<1>1. handler[h] \in Handler /\ handler[h].ride \in Ride
  BY DEF StoreInOrder, StoreTypeOK, Handler
<1>2. /\ handler'[h].step = step /\ handler'[h].ride = handler[h].ride
      /\ \A g \in Handlers : g # h => handler'[g] = handler[g]
      /\ handler' \in [Handlers -> Handler]
  BY <1>1 DEF StoreInOrder, StoreTypeOK, Handler
<1>3. StoreTypeOK'
  BY <1>1, <1>2 DEF StoreInOrder, StoreTypeOK
<1>4. OneEach'
  BY DEF StoreInOrder, OneEach, Stored
<1>5. AnswersAreTrue'
  <2> SUFFICES ASSUME NEW g \in Handlers
               PROVE  (/\ handler[g].step \in {"created", "replayed"} => handler[g].ride \in rides
                       /\ At(g, "conflict") => Stored(handler[g].ride.id) /\ handler[g].ride \notin rides)'
    BY DEF AnswersAreTrue
  <2>1. CASE g = h
    BY <1>2, <2>1 DEF At, Stored
  <2>2. CASE g # h
    <3>1. handler'[g] = handler[g]
      BY <1>2, <2>2
    <3> QED
      BY <3>1 DEF StoreInOrder, AnswersAreTrue, At, Stored
  <2> QED
    BY <2>1, <2>2
<1> QED
  BY <1>3, <1>4, <1>5 DEF StoreInOrder

LEMMA StoreStepInOrder == StoreInOrder /\ [StoreNext]_storeVars => StoreInOrder'
<1> SUFFICES ASSUME StoreInOrder, [StoreNext]_storeVars PROVE StoreInOrder'
  OBVIOUS
<1>1. CASE UNCHANGED storeVars
  BY <1>1 DEF storeVars, StoreInOrder, StoreTypeOK, OneEach, AnswersAreTrue, At, Stored
<1>2. ASSUME NEW h \in Handlers, NEW ride \in Ride, Submit(h, ride)
      PROVE  StoreInOrder'
  <2>1. /\ handler'[h] = [step |-> "find", ride |-> ride]
        /\ \A g \in Handlers : g # h => handler'[g] = handler[g]
        /\ rides' = rides
    BY <1>2 DEF Submit, StoreInOrder, StoreTypeOK
  <2>2. StoreTypeOK'
    <3>1. [step |-> "find", ride |-> ride] \in Handler
      BY DEF Handler
    <3>2. submissions' \in 0 .. MaxSubmissions
      BY <1>2, StoreAssumption DEF Submit, StoreInOrder, StoreTypeOK
    <3> QED
      BY <1>2, <3>1, <3>2 DEF Submit, StoreInOrder, StoreTypeOK
  <2>3. AnswersAreTrue'
    <3> SUFFICES ASSUME NEW g \in Handlers
                 PROVE  (/\ handler[g].step \in {"created", "replayed"} => handler[g].ride \in rides
                         /\ At(g, "conflict") => Stored(handler[g].ride.id) /\ handler[g].ride \notin rides)'
      BY DEF AnswersAreTrue
    <3>1. CASE g = h
      BY <2>1, <3>1 DEF At
    <3>2. CASE g # h
      BY <2>1, <3>2 DEF StoreInOrder, AnswersAreTrue, At, Stored
    <3> QED
      BY <3>1, <3>2
  <2> QED
    BY <2>1, <2>2, <2>3 DEF StoreInOrder, OneEach
<1>3. ASSUME NEW h \in Handlers, Handle(h) PROVE StoreInOrder'
  <2>1. CASE FindNothing(h)
    BY <2>1, AnswerStep DEF FindNothing, GoTo
  <2>2. CASE FindRide(h)
    <3> DEFINE answer == IF handler[h].ride \in rides THEN "replayed" ELSE "conflict"
    <3>1. /\ handler' = [handler EXCEPT ![h].step = answer]
          /\ UNCHANGED <<rides, submissions>> /\ Stored(handler[h].ride.id)
      BY <2>2 DEF FindRide, GoTo
    <3>2. answer \in {"insert", "find again"} \cup Answers /\ answer \notin {"created"}
      BY DEF Answers
    <3>3. Stored(handler[h].ride.id)'
      <4>1. PICK id : id = handler[h].ride.id
        OBVIOUS
      <4> QED
        BY <3>1 DEF Stored
    <3> QED
      BY <3>1, <3>2, <3>3, AnswerStep
  <2>3. CASE FindFails(h)
    BY <2>3, AnswerStep DEF FindFails, GoTo, Answers
  <2>4. CASE Insert(h)
    BY <2>4, AnswerStep DEF Insert, GoTo, Answers
  <2>5. CASE InsertFails(h)
    BY <2>5, AnswerStep DEF InsertFails, GoTo
  <2>6. CASE FindAgain(h)
    BY <2>6, AnswerStep DEF FindAgain, GoTo, Answers
  <2>7. CASE FindAgainFails(h)
    BY <2>7, AnswerStep DEF FindAgainFails, GoTo, Answers
  <2> QED
    BY <1>3, <2>1, <2>2, <2>3, <2>4, <2>5, <2>6, <2>7 DEF Handle
<1> QED
  BY <1>1, <1>2, <1>3 DEF StoreNext

-----------------------------------------------------------------------------
(* Optimization.                                                           *)

Steps == Settled \cup {"read", "save"}

Request == [step : Steps, kind : {"optimize", "what-if"}, ask : Asks, fits : BOOLEAN,
            known : SUBSET Ride, history : SUBSET Ride, answers : Seq(Nat)]
NoRequest == [step |-> "idle", answers |-> <<>>]

Run == [ask : Asks \cup {Revised(ask) : ask \in Asks}, history : SUBSET Ride]

RunsTyped == runs \in Seq(Run) /\ asking \in [Askers -> Request \cup {NoRequest}]

\* What is about to be stored rests on the past, on all of it that was known,
\* and on what the run before did, but for a ride it takes for its own.
HistoryInOrder(a) ==
    /\ RestsOnPast([ask |-> Subject(a), history |-> asking[a].history])
    /\ \A r \in asking[a].known : IsPast(r, Subject(a)) => r \in asking[a].history
    /\ asking[a].answers # <<>> =>
        \A r \in Basis(a, 1) : r \in asking[a].history \/ r.id = WhatIf[asking[a].ask.id]

AskerInOrder(a) ==
    /\ \A n \in DOMAIN asking[a].answers : AnswerRests(a, n)
    /\ asking[a] # NoRequest => asking[a].known \subseteq rides
    /\ asking[a].step = "save" => HistoryInOrder(a)

RunsInOrder ==
    /\ StoreInOrder
    /\ RunsTyped
    /\ \A i \in DOMAIN runs : RestsOnPast(runs[i])
    /\ \A a \in Askers : AskerInOrder(a)

\* A request under way is not the absence of one.
LEMMA RequestFields ==
    ASSUME RunsTyped, NEW a \in Askers, asking[a].step # "idle"
    PROVE  /\ asking[a] \in Request /\ asking[a] # NoRequest
           /\ asking[a].ask \in Asks /\ asking[a].answers \in Seq(Nat)
           /\ asking[a].known \subseteq Ride /\ asking[a].history \subseteq Ride
           /\ asking[a].kind \in {"optimize", "what-if"} /\ asking[a].fits \in BOOLEAN
           /\ Subject(a) \in Asks \cup {Revised(ask) : ask \in Asks}
<1>1. asking[a] \in Request /\ asking[a] # NoRequest
  BY DEF RunsTyped, NoRequest
<1>2. asking[a].ask \in Asks
  BY <1>1 DEF Request
<1> QED
  BY <1>1, <1>2 DEF Request, Subject

\* An answer keeps resting on the same while rides, runs and answers are added.
LEMMA AnswersKeepResting ==
    ASSUME RunsInOrder, NEW a \in Askers, NEW n \in DOMAIN asking[a].answers,
           asking'[a].ask = asking[a].ask, asking'[a].known = asking[a].known,
           \A m \in DOMAIN asking[a].answers : asking'[a].answers[m] = asking[a].answers[m],
           Len(runs) <= Len(runs'), runs' \in Seq(Run),
           \A i \in DOMAIN runs : runs'[i] = runs[i]
    PROVE  AnswerRests(a, n)'
<1>1. runs \in Seq(Run) /\ \A i \in DOMAIN runs : i \in DOMAIN runs'
  BY DEF RunsInOrder, RunsTyped
<1>2. \A m \in DOMAIN asking[a].answers : AnswerRests(a, m) /\ asking[a].answers[m] \in DOMAIN runs
  BY DEF RunsInOrder, AskerInOrder, AnswerRests
<1>3. n = 2 => 1 \in DOMAIN asking[a].answers
  <2>1. CASE asking[a] = NoRequest
    BY <2>1 DEF NoRequest
  <2>2. CASE asking[a] \in Request
    <3>1. asking[a].answers \in Seq(Nat)
      BY <2>2 DEF Request
    <3> QED
      BY <3>1
  <2> QED
    BY <2>1, <2>2 DEF RunsInOrder, RunsTyped
<1> QED
  BY <1>1, <1>2, <1>3 DEF AnswerRests, Basis

\* A request at rest keeps its order while rides and runs are added.
LEMMA OthersKeepOrder ==
    ASSUME RunsInOrder, NEW a \in Askers, asking'[a] = asking[a],
           rides \subseteq rides', Len(runs) <= Len(runs'), runs' \in Seq(Run),
           \A i \in DOMAIN runs : runs'[i] = runs[i]
    PROVE  AskerInOrder(a)'
<1>1. runs \in Seq(Run) /\ \A i \in DOMAIN runs : i \in DOMAIN runs'
  BY DEF RunsInOrder, RunsTyped
<1>2. AskerInOrder(a)
  BY DEF RunsInOrder
<1>3. \A n \in DOMAIN asking[a].answers : asking[a].answers[n] \in DOMAIN runs
  BY <1>2 DEF AskerInOrder, AnswerRests
<1>4. asking[a].answers \in Seq(Nat)
  <2>1. CASE asking[a] = NoRequest
    BY <2>1 DEF NoRequest
  <2>2. CASE asking[a] \in Request
    BY <2>2 DEF Request
  <2> QED
    BY <2>1, <2>2 DEF RunsInOrder, RunsTyped
<1>5. \A n \in DOMAIN asking[a].answers : AnswerRests(a, n)'
  BY AnswersKeepResting
<1>6. asking[a].step = "save" => HistoryInOrder(a)'
  <2>1. asking[a].answers # <<>> => 1 \in DOMAIN asking[a].answers
    BY <1>4
  <2> QED
    BY <1>1, <1>2, <1>3, <2>1 DEF AskerInOrder, HistoryInOrder, RestsOnPast, Subject, Basis
<1> QED
  BY <1>2, <1>5, <1>6 DEF AskerInOrder

LEMMA RunsInitInOrder == RunsInit => RunsInOrder
<1> SUFFICES ASSUME RunsInit PROVE RunsInOrder
  OBVIOUS
<1>1. RunsTyped
  BY DEF RunsInit, RunsTyped, NoRequest
<1>2. \A a \in Askers : AskerInOrder(a)
  BY DEF RunsInit, AskerInOrder, NoRequest
<1> QED
  BY <1>1, <1>2, StoreInitInOrder DEF RunsInit, RunsInOrder

\* A step of one request that leaves the rides alone.
LEMMA AskerStep ==
    ASSUME RunsInOrder, NEW a \in Askers, NEW request \in Request, Kept,
           asking' = [asking EXCEPT ![a] = request],
           runs' \in Seq(Run), Len(runs) <= Len(runs'),
           \A i \in DOMAIN runs : runs'[i] = runs[i],
           \A i \in DOMAIN runs' : i \notin DOMAIN runs => RestsOnPast(runs'[i]),
           AskerInOrder(a)'
    PROVE  RunsInOrder'
<1>1. /\ asking' \in [Askers -> Request \cup {NoRequest}]
      /\ \A b \in Askers : b # a => asking'[b] = asking[b]
  BY DEF RunsInOrder, RunsTyped
<1>2. StoreInOrder'
  BY DEF RunsInOrder, Kept, StoreInOrder, StoreTypeOK, OneEach, AnswersAreTrue, At, Stored
<1>3. \A i \in DOMAIN runs' : RestsOnPast(runs[i])'
  BY DEF RunsInOrder, Kept, RestsOnPast
<1>4. ASSUME NEW b \in Askers, b # a PROVE AskerInOrder(b)'
  BY <1>1, <1>4, OthersKeepOrder DEF Kept
<1> QED
  BY <1>1, <1>2, <1>3, <1>4 DEF RunsInOrder, RunsTyped

LEMMA AskInOrder ==
    ASSUME RunsInOrder, NEW a \in Askers, NEW kind \in {"optimize", "what-if"},
           NEW ask \in Asks, NEW fits \in BOOLEAN, Ask(a, kind, ask, fits)
    PROVE  RunsInOrder'
<1> DEFINE step == IF ask.customer = Anonymous THEN "customer_id_required" ELSE "read"
<1>1. step \in Steps /\ step # "save"
  <2>1. CASE ask.customer = Anonymous
    BY <2>1 DEF Steps, Settled
  <2>2. CASE ask.customer # Anonymous
    BY <2>2 DEF Steps, Settled
  <2> QED
    BY <2>1, <2>2
<1> DEFINE request == [step |-> step, kind |-> kind, ask |-> ask, fits |-> fits,
                       known |-> rides, history |-> {}, answers |-> <<>>]
<1>2. asking' = [asking EXCEPT ![a] = request] /\ Kept /\ runs' = runs
  BY DEF Ask
<1>3. request \in Request
  BY <1>1 DEF Request, RunsInOrder, StoreInOrder, StoreTypeOK
<1>4. asking'[a] = request
  BY <1>2 DEF RunsInOrder, RunsTyped
<1>5. AskerInOrder(a)'
  BY <1>1, <1>2, <1>4 DEF AskerInOrder, Kept
<1>6. /\ runs' \in Seq(Run) /\ Len(runs) <= Len(runs')
      /\ \A i \in DOMAIN runs : runs'[i] = runs[i]
      /\ \A i \in DOMAIN runs' : i \notin DOMAIN runs => RestsOnPast(runs'[i])
  BY <1>2 DEF RunsInOrder, RunsTyped
<1> HIDE DEF request
<1> QED
  BY <1>2, <1>3, <1>5, <1>6, AskerStep

\* A request that only goes on to another step, and not to storing a run.
LEMMA GoesOn ==
    ASSUME RunsInOrder, NEW a \in Askers, NEW step \in Steps, asking[a].step # "idle",
           step # "save", asking' = [asking EXCEPT ![a].step = step], UNCHANGED runs, Kept
    PROVE  RunsInOrder'
<1>1. asking[a] \in Request /\ asking[a] # NoRequest
  BY RequestFields DEF RunsInOrder
<1> DEFINE request == [asking[a] EXCEPT !.step = step]
<1>2. request \in Request /\ asking' = [asking EXCEPT ![a] = request]
  BY <1>1 DEF Request
<1>3. asking'[a] = request
  BY <1>2 DEF RunsInOrder, RunsTyped
<1>4. /\ asking'[a].ask = asking[a].ask /\ asking'[a].answers = asking[a].answers
      /\ asking'[a].known = asking[a].known /\ asking'[a].step = step
  BY <1>1, <1>3 DEF Request
<1>5. AskerInOrder(a)'
  <2>1. AskerInOrder(a)
    BY DEF RunsInOrder
  <2> QED
    BY <1>1, <1>4, <2>1 DEF AskerInOrder, AnswerRests, Basis, Kept
<1>6. /\ runs' \in Seq(Run) /\ Len(runs) <= Len(runs')
      /\ \A i \in DOMAIN runs : runs'[i] = runs[i]
      /\ \A i \in DOMAIN runs' : i \notin DOMAIN runs => RestsOnPast(runs'[i])
  BY DEF RunsInOrder, RunsTyped
<1> HIDE DEF request
<1> QED
  BY <1>2, <1>5, <1>6, AskerStep

\* The past of a ride and that of the ride revised differ by those two.
LEMMA PastOfRevised ==
    ASSUME NEW ask \in Asks
    PROVE  /\ \A r \in Ride : IsPast(r, ask) /\ r.id # WhatIf[ask.id] => IsPast(r, Revised(ask))
           /\ \A r \in Ride : IsPast(r, Revised(ask)) /\ r.id # ask.id => IsPast(r, ask)
<1>1. Revised(ask) = [ask EXCEPT !.id = WhatIf[ask.id]]
  BY DEF Revised
<1>2. /\ Revised(ask).customer = ask.customer /\ Revised(ask).start = ask.start
      /\ Revised(ask).id = WhatIf[ask.id]
  BY <1>1, AsksAssumption
<1> QED
  BY <1>2 DEF IsPast

LEMMA ReadHistoryInOrder ==
    ASSUME RunsInOrder, NEW a \in Askers, ReadHistory(a)
    PROVE  RunsInOrder'
<1>1. asking[a].step = "read"
  BY DEF ReadHistory, AtStep
<1>2. /\ asking[a] \in Request /\ asking[a] # NoRequest /\ asking[a].ask \in Asks
      /\ asking[a].answers \in Seq(Nat)
  BY <1>1, RequestFields DEF RunsInOrder
<1>3. PICK past : past = HistoryOf(Subject(a)) /\ past \subseteq rides
  BY DEF HistoryOf
<1>4. rides \subseteq Ride
  BY DEF RunsInOrder, StoreInOrder, StoreTypeOK
<1> DEFINE request == [asking[a] EXCEPT !.step = "save", !.history = past]
<1>5. request \in Request
  BY <1>2, <1>3, <1>4 DEF Request, Steps
<1>6. asking' = [asking EXCEPT ![a] = request] /\ UNCHANGED runs /\ Kept
  BY <1>3 DEF ReadHistory
<1>7. /\ asking'[a].ask = asking[a].ask /\ asking'[a].known = asking[a].known
      /\ asking'[a].answers = asking[a].answers /\ asking'[a].history = past
  BY <1>2, <1>6 DEF RunsInOrder, RunsTyped, Request
<1>8. /\ runs' \in Seq(Run) /\ Len(runs) <= Len(runs')
      /\ \A i \in DOMAIN runs : runs'[i] = runs[i]
      /\ \A i \in DOMAIN runs' : i \notin DOMAIN runs => RestsOnPast(runs'[i])
  BY <1>6 DEF RunsInOrder, RunsTyped
<1>9. \A n \in DOMAIN asking'[a].answers : AnswerRests(a, n)'
  BY <1>7, <1>8, AnswersKeepResting
<1>10. \A r \in rides : r \in past <=> IsPast(r, Subject(a))
  BY <1>3 DEF HistoryOf, IsPast
<1>11. \A r \in rides : IsPast(r, asking[a].ask) /\ r.id # WhatIf[asking[a].ask.id] => IsPast(r, Subject(a))
  BY <1>2, <1>4, PastOfRevised DEF Subject
<1>12. asking[a].known \subseteq rides
  BY <1>2 DEF RunsInOrder, AskerInOrder
<1>13. asking[a].answers # <<>> => \A r \in Basis(a, 1) : r \in past \/ r.id = WhatIf[asking[a].ask.id]
  <2> SUFFICES ASSUME asking[a].answers # <<>>, NEW r \in Basis(a, 1)
               PROVE  r \in past \/ r.id = WhatIf[asking[a].ask.id]
    OBVIOUS
  <2>1. 1 \in DOMAIN asking[a].answers
    BY <1>2
  <2>2. AnswerRests(a, 1)
    BY <2>1 DEF RunsInOrder, AskerInOrder
  <2>3. /\ asking[a].answers[1] \in DOMAIN runs
        /\ runs[asking[a].answers[1]].ask = asking[a].ask
    BY <2>2 DEF AnswerRests
  <2>4. r \in rides /\ IsPast(r, asking[a].ask)
    BY <2>3 DEF RunsInOrder, RestsOnPast, Basis
  <2> QED
    BY <1>10, <1>11, <2>4
<1>14. HistoryInOrder(a)'
  <2>1. RestsOnPast([ask |-> Subject(a), history |-> past])
    BY <1>3, <1>10 DEF RestsOnPast
  <2>2. RestsOnPast([ask |-> Subject(a), history |-> asking[a].history])'
    BY <1>6, <1>7, <2>1 DEF RestsOnPast, Subject, Kept
  <2>3. (\A r \in asking[a].known : IsPast(r, Subject(a)) => r \in asking[a].history)'
    BY <1>7, <1>10, <1>12 DEF IsPast, Subject
  <2>4. (asking[a].answers # <<>> =>
            \A r \in Basis(a, 1) : r \in asking[a].history \/ r.id = WhatIf[asking[a].ask.id])'
    BY <1>6, <1>7, <1>13 DEF Basis
  <2> QED
    BY <2>2, <2>3, <2>4 DEF HistoryInOrder
<1>15. AskerInOrder(a)'
  BY <1>6, <1>7, <1>9, <1>12, <1>14 DEF AskerInOrder, Kept
<1> HIDE DEF request
<1> QED
  BY <1>5, <1>6, <1>8, <1>15, AskerStep

\* The run stored is the one whose basis was at hand.
LEMMA SaveRunInOrder ==
    ASSUME RunsInOrder, NEW a \in Askers, SaveRun(a)
    PROVE  RunsInOrder'
<1>1. asking[a].step = "save"
  BY DEF SaveRun, AtStep
<1>2. /\ asking[a] \in Request /\ asking[a] # NoRequest /\ asking[a].ask \in Asks
      /\ asking[a].answers \in Seq(Nat) /\ asking[a].history \subseteq Ride
      /\ Subject(a) \in Asks \cup {Revised(ask) : ask \in Asks}
  BY <1>1, RequestFields DEF RunsInOrder
<1>3. HistoryInOrder(a) /\ asking[a].known \subseteq rides
      /\ \A n \in DOMAIN asking[a].answers : AnswerRests(a, n)
  BY <1>1, <1>2 DEF RunsInOrder, AskerInOrder
<1>4. runs \in Seq(Run) /\ Len(runs) \in Nat
  BY DEF RunsInOrder, RunsTyped
<1>5. PICK run \in Run : run = [ask |-> Subject(a), history |-> asking[a].history]
  BY <1>2 DEF Run
<1>6. /\ runs' = Append(runs, run)
      /\ runs' \in Seq(Run) /\ Len(runs') = Len(runs) + 1 /\ runs'[Len(runs) + 1] = run
      /\ \A i \in DOMAIN runs : runs'[i] = runs[i]
      /\ \A i \in DOMAIN runs' : i \notin DOMAIN runs => runs'[i] = run
  BY <1>4, <1>5 DEF SaveRun
<1>7. RestsOnPast(run) /\ Kept
  BY <1>3, <1>5 DEF HistoryInOrder, SaveRun
<1>8. /\ Len(runs) <= Len(runs')
      /\ \A i \in DOMAIN runs' : i \notin DOMAIN runs => RestsOnPast(runs'[i])
  BY <1>4, <1>6, <1>7
<1>9. ASSUME "ack" \in Faults, asking' = [asking EXCEPT ![a].step = "optimization_write_failed"]
      PROVE  RunsInOrder'
  <2> DEFINE request == [asking[a] EXCEPT !.step = "optimization_write_failed"]
  <2>1. request \in Request /\ asking' = [asking EXCEPT ![a] = request]
    BY <1>2, <1>9 DEF Request, Steps, Settled
  <2>2. /\ asking'[a].ask = asking[a].ask /\ asking'[a].known = asking[a].known
        /\ asking'[a].answers = asking[a].answers
        /\ asking'[a].step = "optimization_write_failed"
    BY <1>2, <2>1 DEF RunsInOrder, RunsTyped, Request
  <2>3. \A n \in DOMAIN asking'[a].answers : AnswerRests(a, n)'
    BY <1>6, <1>8, <2>2, AnswersKeepResting
  <2>4. AskerInOrder(a)'
    BY <1>3, <1>7, <2>2, <2>3 DEF AskerInOrder, Kept
  <2> HIDE DEF request
  <2> QED
    BY <1>6, <1>7, <1>8, <2>1, <2>4, AskerStep
<1>10. ASSUME asking' = [asking EXCEPT ![a].step = Onward(a), ![a].answers = Append(@, Len(runs) + 1)]
       PROVE  RunsInOrder'
  <2>1. PICK step \in Steps : step = Onward(a) /\ step # "save"
    <3>1. Onward(a) \in {"answered", "read", "invalid_what_if_override"}
      BY DEF Onward
    <3> QED
      BY <3>1 DEF Steps, Settled
  <2>2. PICK answers \in Seq(Nat) : answers = Append(asking[a].answers, Len(runs) + 1)
    <3>1. Len(runs) + 1 \in Nat /\ asking[a].answers \in Seq(Nat)
      BY <1>2, <1>4
    <3>2. Append(asking[a].answers, Len(runs) + 1) \in Seq(Nat)
      BY <3>1
    <3> QED
      BY <3>2
  <2>3. /\ \A n \in DOMAIN asking[a].answers : n \in DOMAIN answers /\ answers[n] = asking[a].answers[n]
        /\ \A n \in DOMAIN answers : n \notin DOMAIN asking[a].answers =>
                answers[n] = Len(runs) + 1 /\ n = Len(asking[a].answers) + 1
        /\ asking[a].answers = <<>> <=> Len(asking[a].answers) = 0
    BY <1>2, <1>4, <2>2
  <2> DEFINE request == [asking[a] EXCEPT !.step = step, !.answers = answers]
  <2>4. request \in Request /\ asking' = [asking EXCEPT ![a] = request]
    BY <1>2, <1>10, <2>1, <2>2 DEF Request
  <2>5. /\ asking'[a].ask = asking[a].ask /\ asking'[a].known = asking[a].known
        /\ asking'[a].answers = answers /\ asking'[a].step = step
    BY <1>2, <2>4 DEF RunsInOrder, RunsTyped, Request
  <2>6. \A n \in DOMAIN asking[a].answers : AnswerRests(a, n)'
    BY <1>6, <1>8, <2>3, <2>5, AnswersKeepResting
  <2>7. ASSUME NEW n \in DOMAIN answers, n \notin DOMAIN asking[a].answers
        PROVE  AnswerRests(a, n)'
    <3>1. /\ asking'[a].answers[n] = Len(runs) + 1
          /\ n = Len(asking[a].answers) + 1
      BY <2>3, <2>5, <2>7
    <3>2. asking'[a].answers[n] \in DOMAIN runs' /\ runs'[asking'[a].answers[n]] = run
      BY <1>4, <1>6, <3>1
    <3>3. run.ask = IF n = 1 THEN asking[a].ask ELSE Revised(asking[a].ask)
      BY <1>2, <1>5, <2>3, <3>1 DEF Subject
    <3>4. run.history = asking[a].history
      BY <1>5
    <3>5. \A r \in asking[a].known : IsPast(r, run.ask) => r \in run.history
      BY <1>3, <1>5, <3>4 DEF HistoryInOrder
    <3>6. ASSUME n = 2
          PROVE  /\ Basis(a, 1)' = Basis(a, 1)
                 /\ \A r \in Basis(a, 1) \ run.history : r.id = WhatIf[asking[a].ask.id]
                 /\ \A r \in run.history \ Basis(a, 1) : r \notin asking[a].known \/ r.id = asking[a].ask.id
      <4>1. 1 \in DOMAIN asking[a].answers /\ asking[a].answers # <<>>
        BY <1>2, <3>1, <3>6
      <4>2. AnswerRests(a, 1)
        BY <1>3, <4>1
      <4>3. Basis(a, 1)' = Basis(a, 1)
        BY <1>6, <2>3, <2>5, <4>1, <4>2 DEF Basis, AnswerRests
      <4>4. \A r \in Basis(a, 1) \ run.history : r.id = WhatIf[asking[a].ask.id]
        BY <1>3, <3>4, <4>1 DEF HistoryInOrder
      <4>5. \A r \in run.history : IsPast(r, Revised(asking[a].ask)) /\ r \in Ride
        BY <1>2, <1>7, <3>3, <3>4, <3>6 DEF RestsOnPast
      <4>6. \A r \in run.history \ Basis(a, 1) : r \notin asking[a].known \/ r.id = asking[a].ask.id
        BY <1>2, <4>2, <4>5, PastOfRevised DEF AnswerRests
      <4> QED
        BY <4>3, <4>4, <4>6
    <3>7. Basis(a, n)' = run.history
      BY <3>2 DEF Basis
    <3> QED
      BY <2>5, <3>2, <3>3, <3>5, <3>6, <3>7 DEF AnswerRests, IsPast
  <2>8. \A n \in DOMAIN asking'[a].answers : AnswerRests(a, n)'
    BY <2>5, <2>6, <2>7
  <2>9. AskerInOrder(a)'
    BY <1>3, <1>7, <2>1, <2>5, <2>8 DEF AskerInOrder, Kept
  <2> HIDE DEF request
  <2> QED
    BY <1>6, <1>7, <1>8, <2>4, <2>9, AskerStep
<1> QED
  BY <1>9, <1>10 DEF SaveRun

LEMMA RunsStepInOrder == RunsInOrder /\ [RunsNext]_runsVars => RunsInOrder'
<1> SUFFICES ASSUME RunsInOrder, [RunsNext]_runsVars PROVE RunsInOrder'
  OBVIOUS
<1>1. runs \in Seq(Run) /\ Len(runs) <= Len(runs)
  BY DEF RunsInOrder, RunsTyped
\* Rides may be added while all requests rest.
<1>2. ASSUME [StoreNext]_storeVars, UNCHANGED <<asking, runs>> PROVE RunsInOrder'
  <2>1. StoreInOrder'
    BY <1>2, StoreStepInOrder DEF RunsInOrder
  <2>2. rides \subseteq rides'
    BY <1>2 DEF storeVars, StoreNext, Submit, Handle, FindNothing, FindRide, FindFails,
                Insert, InsertFails, FindAgain, FindAgainFails
  <2>3. \A a \in Askers : AskerInOrder(a)'
    BY <1>1, <1>2, <2>2, OthersKeepOrder
  <2>4. \A i \in DOMAIN runs' : RestsOnPast(runs[i])'
    BY <1>2, <2>2 DEF RunsInOrder, RestsOnPast
  <2> QED
    BY <1>2, <2>1, <2>3, <2>4 DEF RunsInOrder, RunsTyped
<1>3. CASE UNCHANGED runsVars
  BY <1>2, <1>3 DEF runsVars, storeVars
<1>4. ASSUME NEW a \in Askers, NEW id \in 1 .. Len(runs) + 1, LookUp(a, id) PROVE RunsInOrder'
  <2>1. PICK step : /\ step \in {"found", "optimization_run_not_found", "optimization_read_failed"}
                    /\ asking' = [asking EXCEPT ![a].step = step]
    <3>1. PICK step \in {IF id \in DOMAIN runs THEN "found" ELSE "optimization_run_not_found"}
                        \cup (IF "read" \in Faults THEN {"optimization_read_failed"} ELSE {}) :
                asking' = [asking EXCEPT ![a].step = step]
      BY <1>4 DEF LookUp
    <3>2. step \in {"found", "optimization_run_not_found", "optimization_read_failed"}
      OBVIOUS
    <3> QED
      BY <3>1, <3>2
  <2>2. step \in Steps /\ step # "save"
    BY <2>1 DEF Steps, Settled
  <2>3. asking[a].step # "idle" /\ UNCHANGED runs /\ Kept
    BY <1>4 DEF LookUp, AtStep
  <2> QED
    BY <2>1, <2>2, <2>3, GoesOn
<1>5. ASSUME NEW a \in Askers, ReadFails(a) \/ SaveFails(a) PROVE RunsInOrder'
  <2>1. PICK step : /\ step \in {"customer_history_read_failed", "optimization_write_failed"}
                    /\ asking' = [asking EXCEPT ![a].step = step]
    BY <1>5 DEF ReadFails, SaveFails
  <2>2. step \in Steps /\ step # "save"
    BY <2>1 DEF Steps, Settled
  <2>3. asking[a].step # "idle" /\ UNCHANGED runs /\ Kept
    BY <1>5 DEF ReadFails, SaveFails, AtStep
  <2> QED
    BY <2>1, <2>2, <2>3, GoesOn
<1>6. CASE StoreNext /\ UNCHANGED <<asking, runs, asked>>
  BY <1>2, <1>6
<1>7. ASSUME NEW a \in Askers, NEW kind \in {"optimize", "what-if"}, NEW ask \in Asks,
             NEW fits \in BOOLEAN, Ask(a, kind, ask, fits)
      PROVE  RunsInOrder'
  BY <1>7, AskInOrder
<1>8. ASSUME NEW a \in Askers, Serve(a) PROVE RunsInOrder'
  BY <1>5, <1>8, ReadHistoryInOrder, SaveRunInOrder DEF Serve
<1> QED
  BY <1>3, <1>4, <1>6, <1>7, <1>8 DEF RunsNext

-----------------------------------------------------------------------------
(* What the proof is about.                                                *)

\* RunsInOrder is inductive: what a request is about to store rests on the
\* past, on all of it that was known, and on what its run before did, but for a
\* ride it takes for its own; and of each ride there is one version, which no
\* answer contradicts.
THEOREM RequestsAreInOrder == RunsSpec => []RunsInOrder
<1>1. RunsInOrder /\ [RunsNext]_runsVars => RunsInOrder'
  BY RunsStepInOrder
<1> QED
  BY RunsInitInOrder, <1>1, PTL DEF RunsSpec

\* A recommendation rests on all of the customer's past and on nothing else,
\* and the two runs of a what-if on the same past, but for rides ingested in
\* between and for a ride that goes by the id asked about or by that id with
\* the suffix (optimize and what_if of web/services.py, features_for of
\* web/storage.py).
THEOREM RecommendationsRestOnHistory == RunsSpec => []RunsRestOnHistory
<1>1. RunsInOrder => RunsRestOnHistory
  BY DEF RunsInOrder, AskerInOrder, RunsRestOnHistory
<1> QED
  BY RequestsAreInOrder, <1>1, PTL

\* What a handler of save_completed_ride answers is true of the collection.
THEOREM AnswersStayTrue == RunsSpec => []AnswersAreTrue
<1>1. RunsInOrder => AnswersAreTrue
  BY DEF RunsInOrder, StoreInOrder
<1> QED
  BY RequestsAreInOrder, <1>1, PTL

\* No race or retry of save_completed_ride replaces a ride or doubles it.
THEOREM StoredRidesKeepTheirData == RunsSpec => HistoryIsStable
<1>1. RunsInOrder /\ [RunsNext]_runsVars =>
        [/\ rides \subseteq rides' /\ \A r, s \in rides' : r.id = s.id => r = s]_storeVars
  <2> SUFFICES ASSUME RunsInOrder, [RunsNext]_runsVars
               PROVE  rides \subseteq rides' /\ \A r, s \in rides' : r.id = s.id => r = s
    OBVIOUS
  <2>1. rides \subseteq rides'
    BY DEF runsVars, RunsNext, StoreNext, Submit, Handle, FindNothing, FindRide, FindFails,
           Insert, InsertFails, FindAgain, FindAgainFails, Ask, LookUp, Serve, ReadHistory,
           ReadFails, SaveRun, SaveFails, Kept
  <2>2. RunsInOrder'
    BY RunsStepInOrder
  <2> QED
    BY <2>1, <2>2 DEF RunsInOrder, StoreInOrder, OneEach
<1> QED
  BY RequestsAreInOrder, <1>1, PTL DEF RunsSpec, HistoryIsStable
=============================================================================
