------------------------- MODULE CompletedRideStore -------------------------
(***************************************************************************)
(* MongoApplicationStore.save_completed_ride (web/storage.py) behind       *)
(* ingest_completed_ride: find the ride, compare, insert, and after an     *)
(* error look again.  Handlers of several threads or server processes      *)
(* share one database, whose unique index on transaction_id is all that    *)
(* coordinates them.  The database is external: it may fail a read, fail a *)
(* write, apply a write and lose the acknowledgement, or never answer.     *)
(***************************************************************************)
EXTENDS Integers, FiniteSets

CONSTANTS
    Handlers,       \* request handlers
    RideIds,        \* transaction ids
    Data,           \* payload fingerprints
    Faults,         \* what may go wrong: a subset of {"read", "write", "ack"}
    MaxSubmissions  \* bound: requests in one behaviour

ASSUME StoreAssumption ==
    /\ RideIds # {} /\ Data # {}
    /\ Faults \subseteq {"read", "write", "ack"}
    /\ MaxSubmissions \in Nat

VARIABLES
    rides,          \* the collection completed_rides
    handler,        \* what each handler is at
    submissions     \* requests so far, for the bound

storeVars == <<rides, handler, submissions>>

Ride == [id : RideIds, data : Data]

Answers == {"created", "replayed", "conflict", "read_failed", "write_failed"}

Handler == [step : {"idle", "find", "insert", "find again"} \cup Answers, ride : Ride]

Finished(h) == handler[h].step \in {"idle"} \cup Answers

At(h, step) == handler[h].step = step

\* Go on to another step of the handler, or answer.
GoTo(h, step) == handler' = [handler EXCEPT ![h].step = step]

Stored(id) == \E r \in rides : r.id = id

-----------------------------------------------------------------------------
Submit(h, ride) ==
    /\ Finished(h)
    /\ submissions < MaxSubmissions
    /\ submissions' = submissions + 1
    /\ handler' = [handler EXCEPT ![h] = [step |-> "find", ride |-> ride]]
    /\ UNCHANGED rides

FindNothing(h) ==
    /\ At(h, "find")
    /\ ~Stored(handler[h].ride.id)
    /\ GoTo(h, "insert")
    /\ UNCHANGED <<rides, submissions>>

FindRide(h) ==
    LET ride == handler[h].ride IN
    /\ At(h, "find")
    /\ Stored(ride.id)
    /\ GoTo(h, IF ride \in rides THEN "replayed" ELSE "conflict")
    /\ UNCHANGED <<rides, submissions>>

FindFails(h) ==
    /\ At(h, "find")
    /\ "read" \in Faults
    /\ GoTo(h, "read_failed")
    /\ UNCHANGED <<rides, submissions>>

\* Slip: the collection has no unique index.
InsertUnindexed(h) ==
    /\ At(h, "insert")
    /\ rides' = rides \cup {handler[h].ride}
    /\ \/ GoTo(h, "created")
       \/ "ack" \in Faults /\ GoTo(h, "find again")
    /\ UNCHANGED submissions

\* The write is applied; without its acknowledgement the handler sees an error.
Insert(h) ==
    /\ At(h, "insert")
    /\ ~Stored(handler[h].ride.id)
    /\ rides' = rides \cup {handler[h].ride}
    /\ \/ GoTo(h, "created")
       \/ "ack" \in Faults /\ GoTo(h, "find again")
    /\ UNCHANGED submissions

\* The unique index refuses the write, or the database cannot be reached.
InsertFails(h) ==
    /\ At(h, "insert")
    /\ Stored(handler[h].ride.id) \/ "write" \in Faults
    /\ GoTo(h, "find again")
    /\ UNCHANGED <<rides, submissions>>

\* Slip: any ride of that id passes for a replay.
FindAgainAny(h) ==
    /\ At(h, "find again")
    /\ GoTo(h, IF Stored(handler[h].ride.id) THEN "replayed" ELSE "write_failed")
    /\ UNCHANGED <<rides, submissions>>

FindAgain(h) ==
    LET ride == handler[h].ride IN
    /\ At(h, "find again")
    /\ GoTo(h, IF ride \in rides THEN "replayed" ELSE "write_failed")
    /\ UNCHANGED <<rides, submissions>>

FindAgainFails(h) ==
    /\ At(h, "find again")
    /\ "read" \in Faults
    /\ GoTo(h, "write_failed")
    /\ UNCHANGED <<rides, submissions>>

Handle(h) ==
    \/ FindNothing(h) \/ FindRide(h) \/ FindFails(h)
    \/ Insert(h) \/ InsertFails(h) \/ FindAgain(h) \/ FindAgainFails(h)

-----------------------------------------------------------------------------
StoreInit ==
    /\ rides = {}
    /\ handler \in [Handlers -> [step : {"idle"}, ride : {CHOOSE r \in Ride : TRUE}]]
    /\ submissions = 0

StoreNext ==
    \E h \in Handlers :
        \/ \E ride \in Ride : Submit(h, ride)
        \/ Handle(h)

-----------------------------------------------------------------------------
(* Properties *)

\* The collection and the handlers hold rides and answers.
StoreTypeOK ==
    /\ rides \subseteq Ride
    /\ handler \in [Handlers -> Handler]
    /\ submissions \in 0 .. MaxSubmissions

\* The answer can be relied on: what was accepted is stored, also when the
\* acknowledgement was lost or another handler stored it first, and what was
\* refused as a conflict differs from what is stored.
AnswersAreTrue ==
    \A h \in Handlers :
        LET ride == handler[h].ride IN
        /\ handler[h].step \in {"created", "replayed"} => ride \in rides
        /\ At(h, "conflict") => Stored(ride.id) /\ ride \notin rides

\* A ride once stored keeps its data: no race or retry replaces it or adds a
\* second version that would count twice in the customer's history.
HistoryIsStable ==
    [][/\ rides \subseteq rides'
       /\ \A r, s \in rides' : r.id = s.id => r = s]_storeVars

\* "Changed data for the same ID returns HTTP 409" (docs/PRODUCTION_MONGODB.md):
\* a handler whose ride is stored with other data does not answer 503 instead.
ChangedDataConflicts ==
    \A h \in Handlers :
        At(h, "write_failed") =>
            ~\E r \in rides : r.id = handler[h].ride.id /\ r.data # handler[h].ride.data
=============================================================================
