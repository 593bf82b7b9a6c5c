--------------------------- MODULE RecordValidation ---------------------------
(***************************************************************************)
(* What the parsers accept of a transaction, an outcome and a dataset      *)
(* (services/mobility_validation.py, services/evaluation_input.py), and    *)
(* what the domain types accept when they are built from it                *)
(* (domain/mobility.py, domain/money.py).  A fault does not end the        *)
(* parsing: all faults of a payload are answered together.                 *)
(*                                                                         *)
(* A payload is a function from fields to values, an absent field having   *)
(* the value Missing, or else no object.  A value is a JSON type with what *)
(* the code looks at: a number, or the kind of a text (of a number's text  *)
(* too, where the code makes it one).  A fault is a field with a code.     *)
(***************************************************************************)
EXTENDS Integers, Sequences, FiniteSets

CONSTANT MaxPaise   \* MAX_AMOUNT_PAISE

ASSUME PaiseAssumption == MaxPaise \in Nat \ {0}

Number(n) == [type |-> "int", number |-> n, text |-> "-"]
Real(n) == [type |-> "float", number |-> n, text |-> "-"]
Text(t) == [type |-> "text", number |-> 0, text |-> t]
Other(type) == [type |-> type, number |-> 0, text |-> "-"]
Missing == Other("absent")
IsMissing(value) == value.type = "absent"

\* What stands where an object was to be: JSON of another kind, or nothing.
NoObject == <<>>
IsObject(payload) == DOMAIN payload # {}

TransactionFields ==
    {"transaction_id", "customer_id", "estimated_amount_paise", "city", "distance_km",
     "estimated_duration_minutes", "surge_multiplier", "timestamp", "domain"}

Fault(field, code) == {<<field, code>>}
Required(field) == Fault(field, "required")

-----------------------------------------------------------------------------
(* The parsers of a field.                                                 *)

TextFaults(payload, field) ==
    LET value == payload[field]
    IN  IF IsMissing(value) THEN Required(field)
        ELSE IF value.type # "text" THEN Fault(field, "invalid_type")
        ELSE IF value.text = "blank" THEN Required(field)
        ELSE {}

\* Money counts a truth value as no number, and a float neither.
MoneyFaults(value, field) ==
    IF value.type # "int" THEN Fault(field, "invalid_type")
    ELSE (IF value.number <= 0 THEN Fault(field, "must_be_positive") ELSE {})
         \cup (IF value.number > MaxPaise THEN Fault(field, "out_of_range") ELSE {})

AmountFaults(payload, field) ==
    IF IsMissing(payload[field]) THEN Required(field) ELSE MoneyFaults(payload[field], field)

\* "nan" stands for the floats that are not finite.
DecimalFaults(payload, field) ==
    LET value == payload[field]
    IN  IF IsMissing(value) THEN Required(field)
        ELSE IF value.type \notin {"int", "float", "nan"} THEN Fault(field, "invalid_type")
        ELSE IF value.type = "nan" THEN Fault(field, "invalid_number")
        ELSE {}

DurationFaults(payload, field) ==
    IF IsMissing(payload[field]) THEN Required(field)
    ELSE IF payload[field].type # "int" THEN Fault(field, "invalid_type")
    ELSE {}

CityFaults(payload, field) ==
    LET value == payload[field]
    IN  IF IsMissing(value) THEN Required(field)
        ELSE IF value.type # "text" THEN Fault(field, "invalid_type")
        ELSE IF value.text \notin {"plain", "padded"} THEN Fault(field, "unsupported_city")
        ELSE {}

DomainFaults(payload, field) ==
    LET value == payload[field]
    IN  IF IsMissing(value) \/ (value.type = "text" /\ value.text \in {"plain", "padded"})
        THEN {} ELSE Fault(field, "unsupported_domain")

TimeFaults(payload, field) ==
    LET value == payload[field]
    IN  IF IsMissing(value) THEN Required(field)
        ELSE IF value.type # "text" THEN Fault(field, "invalid_type")
        ELSE IF value.text = "without offset" THEN Fault(field, "timezone_required")
        ELSE IF value.text = "with offset" THEN {}
        ELSE Fault(field, "invalid_timestamp")

\* A number the field parser passed is looked at again for its sign.
SignFaults(payload, field, parsed, allowed, code) ==
    IF parsed = {} /\ payload[field].number \notin allowed THEN Fault(field, code) ELSE {}

NotNegative == Nat
Positive == Nat \ {0}

-----------------------------------------------------------------------------
(* The parsers of a record.                                                *)

TransactionFaults(payload, unknown) ==
    LET distance == DecimalFaults(payload, "distance_km")
        duration == DurationFaults(payload, "estimated_duration_minutes")
        surge == DecimalFaults(payload, "surge_multiplier")
    IN  IF ~IsObject(payload) THEN Fault("$", "invalid_type") ELSE
        {<<f, "unknown_field">> : f \in unknown}
        \cup DomainFaults(payload, "domain")
        \cup TextFaults(payload, "transaction_id")
        \cup TextFaults(payload, "customer_id")
        \cup AmountFaults(payload, "estimated_amount_paise")
        \cup CityFaults(payload, "city")
        \cup distance \cup duration \cup surge
        \cup TimeFaults(payload, "timestamp")
        \cup SignFaults(payload, "distance_km", distance, NotNegative, "must_be_non_negative")
        \cup SignFaults(payload, "estimated_duration_minutes", duration, NotNegative, "must_be_non_negative")
        \cup SignFaults(payload, "surge_multiplier", surge, Positive, "must_be_positive")

OutcomeFaults(payload, unknown) ==
    {<<f, "unknown_field">> : f \in unknown}
    \cup TextFaults(payload, "transaction_id")
    \cup AmountFaults(payload, "actual_amount_paise")
    \cup TimeFaults(payload, "completed_at")

\* A file is read as an object with records, each with its two objects; what
\* is wrong with the file itself is answered before any record is looked at.
FileFaults(file) ==
    CASE file.shape = "no json" -> Fault("$", "invalid_json")
      [] file.shape = "no object" -> Fault("$", "invalid_type")
      [] OTHER ->
            {<<f, "unknown_field">> : f \in file.unknown}
            \cup (IF file.metadata \in {"absent", "object"} THEN {} ELSE Fault("metadata", "invalid_type"))
            \cup (CASE file.shape = "absent" -> Required("records")
                    [] file.shape = "array" -> {}
                    [] OTHER -> Fault("records", "invalid_type"))

Prefixed(place, faults) == {<<place, fault>> : fault \in faults}

OfTransaction(record) ==
    IF ~IsObject(record.transaction) THEN Required("transaction")
    ELSE TransactionFaults(record.transaction, record.extra)

OfOutcome(record) ==
    IF ~IsObject(record.outcome) THEN Required("outcome") ELSE OutcomeFaults(record.outcome, {})

\* Slip: the outcome is looked at only where the transaction is accepted.
FirstPartFaults(record) ==
    IF record.shape # "object" THEN Prefixed("record", Fault("record", "invalid_type"))
    ELSE Prefixed("record", {<<f, "unknown_field">> : f \in record.unknown})
         \cup (IF OfTransaction(record) # {} THEN Prefixed("transaction", OfTransaction(record))
               ELSE Prefixed("outcome", OfOutcome(record)))
RecordFaults(record) ==
    IF record.shape # "object" THEN Prefixed("record", Fault("record", "invalid_type"))
    ELSE Prefixed("record", {<<f, "unknown_field">> : f \in record.unknown})
         \cup Prefixed("transaction", OfTransaction(record))
         \cup Prefixed("outcome", OfOutcome(record))

\* All faults of a dataset, by the record and the part of it they were found in.
DatasetFaults(file) ==
    IF FileFaults(file) # {} THEN Prefixed("file", Prefixed("file", FileFaults(file)))
    ELSE UNION {Prefixed(i, RecordFaults(file.records[i])) : i \in DOMAIN file.records}

-----------------------------------------------------------------------------
(* The domain types check once more what they are built from.              *)

IsIdentifier(value) == value.type = "text" /\ value.text # "blank"
IsPaise(value) == value.type = "int" /\ value.number \in 1 .. MaxPaise
IsFinite(value) == value.type \in {"int", "float"}
IsAware(value) == value.type = "text" /\ value.text = "with offset"

IsContext(payload) ==
    /\ IsIdentifier(payload["transaction_id"])
    /\ IsIdentifier(payload["customer_id"])
    /\ IsPaise(payload["estimated_amount_paise"])
    /\ payload["city"].type = "text" /\ payload["city"].text \in {"plain", "padded"}
    /\ IsFinite(payload["distance_km"]) /\ payload["distance_km"].number >= 0
    /\ payload["estimated_duration_minutes"].type = "int"
    /\ payload["estimated_duration_minutes"].number >= 0
    /\ IsFinite(payload["surge_multiplier"]) /\ payload["surge_multiplier"].number > 0
    /\ IsAware(payload["timestamp"])

IsOutcome(payload) ==
    /\ IsIdentifier(payload["transaction_id"])
    /\ IsPaise(payload["actual_amount_paise"])
    /\ IsAware(payload["completed_at"])

-----------------------------------------------------------------------------
(* Updates of a ride under way, and the files that hold them               *)
(* (dynamic/serialization.py).  Here the first group of faults is answered *)
(* alone; a ride's record and its updates are one object, a trip.          *)

RequiredInUpdate == {"event_id", "transaction_id", "sequence_number", "observed_at", "reason"}
Revisions ==
    {"revised_estimated_amount_paise", "revised_distance_km",
     "revised_estimated_duration_minutes", "revised_surge_multiplier"}
IsRevised(value) == value.type \notin {"absent", "null"}

\* RideContextUpdate accepts it.  No other revision than that of the duration
\* may be null.
IsUpdate(payload) ==
    LET estimate == payload["revised_estimated_amount_paise"]
        distance == payload["revised_distance_km"]
        duration == payload["revised_estimated_duration_minutes"]
        surge == payload["revised_surge_multiplier"]
    IN  /\ IsIdentifier(payload["event_id"])
        /\ IsIdentifier(payload["transaction_id"])
        /\ payload["sequence_number"].type = "int" /\ payload["sequence_number"].number > 0
        /\ IsAware(payload["observed_at"])
        /\ \E f \in Revisions : IsRevised(payload[f])
        /\ IsMissing(estimate) \/ IsPaise(estimate)
        /\ IsMissing(distance) \/ (IsFinite(distance) /\ distance.number >= 0)
        /\ IsRevised(duration) => duration.type = "int" /\ duration.number >= 0
        /\ IsMissing(surge) \/ (IsFinite(surge) /\ surge.number > 0)

\* The time is read from the text of whatever value is there: of a number too,
\* which may make a date, but one without an offset.
UpdateFaults(payload, unknown) ==
    LET missing == {f \in RequiredInUpdate : IsMissing(payload[f])}
        at == payload["observed_at"]
        reason == payload["reason"]
    IN  IF ~IsObject(payload) THEN Fault("update", "invalid_type")
        ELSE IF unknown # {} THEN {<<f, "unknown_field">> : f \in unknown}
        ELSE IF missing # {} THEN UNION {Required(f) : f \in missing}
        ELSE IF at.text \notin {"with offset", "without offset"}
        THEN Fault("observed_at", "invalid_timestamp")
        ELSE IF reason.type # "text" \/ reason.text \notin {"plain", "padded"}
        THEN Fault("reason", "unsupported_reason")
        ELSE IF ~IsUpdate(payload) THEN Fault("update", "invalid_update")
        ELSE {}

\* Each update is about the trip's ride, and between its start and its end.
PlaceFaults(trip, update) ==
    IF update["transaction_id"] # trip.transaction["transaction_id"]
    THEN Fault("updates.transaction_id", "transaction_id_mismatch")
    ELSE IF \/ update["observed_at"].number <= trip.transaction["timestamp"].number
            \/ update["observed_at"].number >= trip.outcome["completed_at"].number
    THEN Fault("updates.observed_at", "outside_active_ride")
    ELSE {}

\* Of the faults of each of a sequence, those of the first that has any.
FirstFaults(faults) ==
    LET faulty == {i \in DOMAIN faults : faults[i] # {}}
    IN  IF faulty = {} THEN {} ELSE faults[CHOOSE i \in faulty : \A j \in faulty : i <= j]

TripFaults(trip) ==
    LET updates == FirstFaults([i \in DOMAIN trip.updates |-> UpdateFaults(trip.updates[i], trip.strays)])
        places == FirstFaults([i \in DOMAIN trip.updates |-> PlaceFaults(trip, trip.updates[i])])
    IN  IF trip.unknown # {} THEN Prefixed("record", {<<f, "unknown_field">> : f \in trip.unknown})
        ELSE IF RecordFaults(trip) # {} THEN RecordFaults(trip)
        ELSE IF ~trip.listed THEN Prefixed("updates", Fault("updates", "invalid_type"))
        ELSE Prefixed("updates", IF updates # {} THEN updates ELSE places)

TripFileFaults(file) ==
    IF file.shape = "no json" THEN Fault("$", "invalid_json")
    ELSE IF file.shape = "no object" THEN Fault("$", "invalid_type")
    ELSE IF file.shape # "array" \/ file.records = <<>> THEN Fault("records", "invalid_type")
    ELSE IF file.metadata \notin {"absent", "object"} THEN Fault("metadata", "invalid_type")
    ELSE {}

\* A dataset of trips, and a scenario of one trip with a history file.
TripsFaults(file) ==
    IF TripFileFaults(file) # {} THEN Prefixed("file", TripFileFaults(file))
    ELSE FirstFaults([i \in DOMAIN file.records |-> TripFaults(file.records[i])])
ScenarioFaults(trip, history) ==
    IF history.shape = "no json" THEN Prefixed("file", Fault("$", "invalid_json"))
    ELSE IF history.shape = "no object" THEN Prefixed("file", Required("history"))
    ELSE IF TripFaults(trip) # {} THEN TripFaults(trip)
    ELSE DatasetFaults(history)

-----------------------------------------------------------------------------
(* What the parser of JSON may hand over, with any faults.                 *)

OutcomeFields == {"transaction_id", "actual_amount_paise", "completed_at"}

JsonValues == [type : STRING, number : Int, text : STRING]
AreParsed(payload, fields) == IsObject(payload) => \A f \in fields : payload[f] \in JsonValues

IsParsedRecord(record) ==
    /\ AreParsed(record.transaction, TransactionFields)
    /\ AreParsed(record.outcome, OutcomeFields)

IsParsedFile(file) ==
    /\ file.records \in Seq({file.records[i] : i \in DOMAIN file.records})
    /\ \A i \in DOMAIN file.records : IsParsedRecord(file.records[i])

IsParsedTrip(trip) ==
    /\ IsParsedRecord(trip)
    /\ trip.updates \in Seq({trip.updates[i] : i \in DOMAIN trip.updates})
    /\ \A i \in DOMAIN trip.updates : AreParsed(trip.updates[i], {"observed_at"})

-----------------------------------------------------------------------------
(* For comparison: what keeps a transaction, an outcome or a whole dataset *)
(* from being accepted, each field looked at by itself, next to values     *)
(* that are accepted.                                                      *)

Named(n) == [type |-> "text", number |-> n, text |-> "plain"]
At(time) == [type |-> "text", number |-> time, text |-> "with offset"]

AcceptedRide ==
    [f \in TransactionFields |->
        CASE f \in {"transaction_id", "customer_id", "city"} -> Named(1)
          [] f = "timestamp" -> At(1)
          [] f = "domain" -> Missing
          [] OTHER -> Number(1)]

IsMobility(value) ==
    IsMissing(value) \/ (value.type = "text" /\ value.text \in {"plain", "padded"})

Faulty(payload, accepted) ==
    {f \in TransactionFields :
        \/ ~IsContext([accepted EXCEPT ![f] = payload[f]])
        \/ f = "domain" /\ ~IsMobility(payload[f])}

AcceptedOutcome ==
    [f \in OutcomeFields |->
        CASE f = "transaction_id" -> Named(1)
          [] f = "completed_at" -> At(1)
          [] OTHER -> Number(1)]

FaultyOutcome(payload) ==
    {f \in OutcomeFields : ~IsOutcome([AcceptedOutcome EXCEPT ![f] = payload[f]])}

\* The part and the field of everything that is wrong with a record.
FaultyPlaces(record) ==
    IF record.shape # "object" THEN {<<"record", "record">>}
    ELSE Prefixed("record", record.unknown)
         \cup Prefixed("transaction",
                IF ~IsObject(record.transaction) THEN {"transaction"}
                ELSE Faulty(record.transaction, AcceptedRide) \cup record.extra)
         \cup Prefixed("outcome",
                IF ~IsObject(record.outcome) THEN {"outcome"} ELSE FaultyOutcome(record.outcome))

FaultyHeader(file) ==
    IF file.shape \in {"no json", "no object"} THEN {"$"}
    ELSE file.unknown
         \cup {f \in {"metadata"} : file.metadata \notin {"absent", "object"}}
         \cup {f \in {"records"} : file.shape # "array"}

\* Of a file whose head is faulty the records are not looked at.
FaultyInFile(file) ==
    IF FaultyHeader(file) # {} THEN Prefixed("file", Prefixed("file", FaultyHeader(file)))
    ELSE UNION {Prefixed(i, FaultyPlaces(file.records[i])) : i \in DOMAIN file.records}

IsRecord(record) ==
    /\ record.shape = "object" /\ record.unknown = {} /\ record.extra = {}
    /\ IsObject(record.transaction) /\ IsObject(record.outcome)
    /\ IsContext(record.transaction)
    /\ IsMobility(record.transaction["domain"])
    /\ IsOutcome(record.outcome)

IsTrip(trip) ==
    /\ IsRecord(trip)
    /\ \A i \in DOMAIN trip.updates :
        LET u == trip.updates[i] IN
        /\ IsObject(u) /\ IsUpdate(u)
        /\ u["transaction_id"] = trip.transaction["transaction_id"]
        /\ trip.transaction["timestamp"].number < u["observed_at"].number
        /\ u["observed_at"].number < trip.outcome["completed_at"].number
=============================================================================
