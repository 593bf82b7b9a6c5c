--------------------------- MODULE OptimizationRuns ---------------------------
(***************************************************************************)
(* The optimize, what_if and optimization_run requests of the dashboard in *)
(* MongoDB mode (web/services.py), while completed rides are ingested: the *)
(* context, the customer's history found in the collection of rides, the   *)
(* stored run.  Model and optimizer are functions, so a result is what it  *)
(* rests on: the ride asked about and the rides found.  The database is    *)
(* external and fails as it does for CompletedRideStore.                   *)
(***************************************************************************)
EXTENDS CompletedRideStore, Sequences

CONSTANTS
    Askers,         \* threads with such a request
    Asks,           \* rides that may be asked about
    Anonymous,      \* the customer of a request that names none
    WhatIf,         \* the id that a what-if gives its ride, a function of the ride's own
    MaxAsks         \* bound: requests in one behaviour

\* The data of a ride are its customer and the time of its completion.
ASSUME AsksAssumption ==
    /\ \A d \in Data : DOMAIN d = {"customer", "completed"} /\ d.completed \in Int
    /\ \A ask \in Asks : DOMAIN ask = {"id", "customer", "start"} /\ ask.start \in Int
    /\ MaxAsks \in Nat

\* An id with a suffix is another id; a ride may well be stored by it.
ASSUME WhatIfAssumption ==
    \A ask \in Asks : ask.id \in DOMAIN WhatIf /\ WhatIf[ask.id] # ask.id

VARIABLES
    asking,         \* the request each thread is at, or was at last
    runs,           \* the collection optimization_runs; a run's id is its index
    asked           \* requests so far, for the bound

runsVars == <<rides, handler, submissions, asking, runs, asked>>

Kept == UNCHANGED <<rides, handler, submissions>>

Settled == {"idle", "customer_id_required", "customer_history_read_failed",
            "optimization_write_failed", "invalid_what_if_override", "answered",
            "found", "optimization_run_not_found", "optimization_read_failed"}

AtStep(a, step) == asking[a].step = step

\* The ride of a what-if goes by an id of its own.
Revised(ask) == [ask EXCEPT !.id = WhatIf[@]]

\* The ride at hand: the one asked about, or after a first run the revised one.
Subject(a) == IF asking[a].answers = <<>> THEN asking[a].ask ELSE Revised(asking[a].ask)

\* Slip: a ride completed at the very moment counts.
HistoryUpTo(ask) ==
    {r \in rides : r.data.customer = ask.customer /\ r.id # ask.id /\ r.data.completed <= ask.start}
\* The customer's other rides that were completed strictly before.
HistoryOf(ask) ==
    {r \in rides : r.data.customer = ask.customer /\ r.id # ask.id /\ r.data.completed < ask.start}

-----------------------------------------------------------------------------
\* kind is "optimize" or "what-if"; in a what-if, fits says whether the
\* duration projected from the traffic is in range.  known, the rides stored
\* when the request came in, is a history variable.
Ask(a, kind, ask, fits) ==
    /\ asking[a].step \in Settled
    /\ asked < MaxAsks
    /\ asked' = asked + 1
    /\ asking' = [asking EXCEPT ![a] =
            [step |-> IF ask.customer = Anonymous THEN "customer_id_required" ELSE "read",
             kind |-> kind, ask |-> ask, fits |-> fits, known |-> rides,
             history |-> {}, answers |-> <<>>]]
    /\ UNCHANGED runs /\ Kept

ReadHistory(a) ==
    /\ AtStep(a, "read")
    /\ asking' = [asking EXCEPT ![a].step = "save", ![a].history = HistoryOf(Subject(a))]
    /\ UNCHANGED <<runs, asked>> /\ Kept

ReadFails(a) ==
    /\ AtStep(a, "read")
    /\ "read" \in Faults
    /\ asking' = [asking EXCEPT ![a].step = "customer_history_read_failed"]
    /\ UNCHANGED <<runs, asked>> /\ Kept

\* After a run is stored: a what-if goes on to its second run.
Onward(a) ==
    IF asking[a].kind = "optimize" \/ Len(asking[a].answers) = 1 THEN "answered"
    ELSE IF asking[a].fits THEN "read"
    ELSE "invalid_what_if_override"

\* Without its acknowledgement the request fails, although the run is stored.
SaveRun(a) ==
    /\ AtStep(a, "save")
    /\ runs' = Append(runs, [ask |-> Subject(a), history |-> asking[a].history])
    /\ \/ asking' = [asking EXCEPT ![a].step = Onward(a), ![a].answers = Append(@, Len(runs) + 1)]
       \/ /\ "ack" \in Faults
          /\ asking' = [asking EXCEPT ![a].step = "optimization_write_failed"]
    /\ UNCHANGED asked /\ Kept

SaveFails(a) ==
    /\ AtStep(a, "save")
    /\ "write" \in Faults
    /\ asking' = [asking EXCEPT ![a].step = "optimization_write_failed"]
    /\ UNCHANGED <<runs, asked>> /\ Kept

\* optimization_run, for a run that may be there or not.
LookUp(a, id) ==
    /\ AtStep(a, "answered")
    /\ \E step \in {IF id \in DOMAIN runs THEN "found" ELSE "optimization_run_not_found"}
                   \cup (IF "read" \in Faults THEN {"optimization_read_failed"} ELSE {}) :
        asking' = [asking EXCEPT ![a].step = step]
    /\ UNCHANGED <<runs, asked>> /\ Kept

Serve(a) == ReadHistory(a) \/ ReadFails(a) \/ SaveRun(a) \/ SaveFails(a)

RunsInit ==
    /\ StoreInit
    /\ asking = [a \in Askers |-> [step |-> "idle", answers |-> <<>>]]
    /\ runs = <<>>
    /\ asked = 0

RunsNext ==
    \/ StoreNext /\ UNCHANGED <<asking, runs, asked>>
    \/ \E a \in Askers :
        \/ \E kind \in {"optimize", "what-if"}, ask \in Asks, fits \in BOOLEAN :
            (kind = "optimize" => fits) /\ Ask(a, kind, ask, fits)
        \/ \E id \in 1 .. Len(runs) + 1 : LookUp(a, id)
        \/ Serve(a)

\* No fairness: the driver is given no socket timeout, so a database call may
\* never return and its request never end.
RunsSpec == RunsInit /\ [][RunsNext]_runsVars

-----------------------------------------------------------------------------
(* Properties *)

\* Of the customer, completed before, and not the ride itself.
IsPast(r, ask) == r.data.customer = ask.customer /\ r.data.completed < ask.start /\ r.id # ask.id

RestsOnPast(run) == run.history \subseteq rides /\ \A r \in run.history : IsPast(r, run.ask)

\* What answer n of a request rests on.
Basis(a, n) == runs[asking[a].answers[n]].history

AnswerRests(a, n) ==
    LET ask == asking[a].ask
        subject == IF n = 1 THEN ask ELSE Revised(ask)
        known == asking[a].known
    IN  /\ asking[a].answers[n] \in DOMAIN runs
        /\ runs[asking[a].answers[n]].ask = subject
        /\ \A r \in known : IsPast(r, subject) => r \in Basis(a, n)
        /\ n = 2 => /\ \A r \in Basis(a, 1) \ Basis(a, 2) : r.id = WhatIf[ask.id]
                    /\ \A r \in Basis(a, 2) \ Basis(a, 1) : r \notin known \/ r.id = ask.id

\* A block is recommended from the customer's past and from all of it: every
\* ride stored before the request came in counts, if it was completed before
\* the ride asked about; none counts that was not, nor that ride itself, nor
\* another customer's; and what is stored is what was answered.  The two runs
\* of a what-if differ in history only by rides ingested in between and by the
\* ride each leaves out as its own: the first a stored ride with the very id
\* asked about, the second one that is stored by that id with the suffix.
RunsRestOnHistory ==
    /\ \A i \in DOMAIN runs : RestsOnPast(runs[i])
    /\ \A a \in Askers : \A n \in DOMAIN asking[a].answers : AnswerRests(a, n)
=============================================================================
