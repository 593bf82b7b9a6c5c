------------------------------ MODULE AnswerFacts ------------------------------
(***************************************************************************)
(* What the commands compute, whatever state they are in: the records the  *)
(* parsers let pass, the repaired quantiles and the block chosen from      *)
(* them, the rides of a file joined and swept, those under way followed to *)
(* their ends, and the figures about all of them.                          *)
(***************************************************************************)
EXTENDS CommandLine, SumFacts, TLAPS

-----------------------------------------------------------------------------
(* Records: what the parsers let pass is what the domain types accept *)

\* The condition each field has to meet by itself.
Meets(f, value) ==
    /\ f \in {"transaction_id", "customer_id"} => IsIdentifier(value)
    /\ f = "estimated_amount_paise" => IsPaise(value)
    /\ f = "city" => value.type = "text" /\ value.text \in {"plain", "padded"}
    /\ f = "distance_km" => IsFinite(value) /\ value.number >= 0
    /\ f = "estimated_duration_minutes" => value.type = "int" /\ value.number >= 0
    /\ f = "surge_multiplier" => IsFinite(value) /\ value.number > 0
    /\ f = "timestamp" => IsAware(value)
    /\ f = "domain" => IsMobility(value)

LEMMA AcceptedMeets == \A f \in TransactionFields : Meets(f, AcceptedRide[f])
<1>1. ASSUME NEW f \in {"transaction_id", "customer_id", "city"} PROVE Meets(f, AcceptedRide[f])
  <2>1. AcceptedRide[f] = Named(1)
    BY <1>1 DEF AcceptedRide, TransactionFields
  <2> QED
    BY <1>1, <2>1 DEF Meets, Named, IsIdentifier
<1>2. ASSUME NEW f \in {"estimated_amount_paise", "distance_km", "estimated_duration_minutes",
                        "surge_multiplier"}
      PROVE  Meets(f, AcceptedRide[f])
  <2>1. AcceptedRide[f] = Number(1)
    BY <1>2 DEF AcceptedRide, TransactionFields
  <2>2. 1 \in 1 .. MaxPaise
    BY PaiseAssumption
  <2> QED
    BY <1>2, <2>1, <2>2 DEF Meets, Number, IsPaise, IsFinite
<1>3. Meets("timestamp", AcceptedRide["timestamp"])
  <2>1. AcceptedRide["timestamp"] = At(1)
    BY DEF AcceptedRide, TransactionFields
  <2>2. IsAware(At(1))
    BY DEF At, IsAware
  <2> QED
    BY <2>1, <2>2 DEF Meets
<1>4. Meets("domain", AcceptedRide["domain"])
  <2>1. AcceptedRide["domain"] = Missing
    BY DEF AcceptedRide, TransactionFields
  <2>2. IsMobility(Missing)
    BY DEF IsMobility, Missing, Other, IsMissing
  <2> QED
    BY <2>1, <2>2 DEF Meets
<1> QED
  BY <1>1, <1>2, <1>3, <1>4 DEF TransactionFields

\* A payload but for whose field f all is accepted.
OneField(payload, f) == [AcceptedRide EXCEPT ![f] = payload[f]]

LEMMA FaultyFields ==
    ASSUME NEW payload
    PROVE  Faulty(payload, AcceptedRide) = {f \in TransactionFields : ~Meets(f, payload[f])}
<1>1. ASSUME NEW f \in TransactionFields
      PROVE  /\ OneField(payload, f)[f] = payload[f]
             /\ \A g \in TransactionFields \ {f} : OneField(payload, f)[g] = AcceptedRide[g]
  BY DEF AcceptedRide, OneField
<1>2. \A ride : IsContext(ride) <=> \A g \in TransactionFields \ {"domain"} : Meets(g, ride[g])
  BY DEF IsContext, TransactionFields, Meets
<1>3. ASSUME NEW f \in TransactionFields, f # "domain"
      PROVE  IsContext(OneField(payload, f)) <=> Meets(f, payload[f])
  <2>1. \A g \in TransactionFields : Meets(g, OneField(payload, f)[g]) <=> (g = f => Meets(f, payload[f]))
    BY <1>1, AcceptedMeets
  <2> QED
    BY <1>2, <1>3, <2>1
<1>4. IsContext(OneField(payload, "domain"))
  <2>1. \A g \in TransactionFields \ {"domain"} : Meets(g, OneField(payload, "domain")[g])
    BY <1>1, AcceptedMeets DEF TransactionFields
  <2> QED
    BY <1>2, <2>1
<1>5. ASSUME NEW f \in TransactionFields
      PROVE  ~Meets(f, payload[f]) <=>
                \/ ~IsContext([AcceptedRide EXCEPT ![f] = payload[f]])
                \/ f = "domain" /\ ~IsMobility(payload[f])
  <2>1. CASE f # "domain"
    BY <1>3, <2>1 DEF OneField
  <2>2. CASE f = "domain"
    <3>1. Meets(f, payload[f]) <=> IsMobility(payload[f])
      BY <2>2 DEF Meets
    <3> QED
      BY <1>4, <2>2, <3>1 DEF OneField
  <2> QED
    BY <2>1, <2>2
<1> QED
  BY <1>5 DEF Faulty
\* The fields that some fault names.
FieldsOf(faults) == {fault[1] : fault \in faults}

LEMMA FieldsOfUnion == \A a, b : FieldsOf(a \cup b) = FieldsOf(a) \cup FieldsOf(b)
BY DEF FieldsOf

LEMMA FieldsOfThree == \A a, b, c : FieldsOf(a \cup b \cup c) = FieldsOf(a) \cup FieldsOf(b) \cup FieldsOf(c)
<1>1. ASSUME NEW a, NEW b, NEW c
      PROVE  FieldsOf(a \cup b \cup c) = FieldsOf(a) \cup FieldsOf(b) \cup FieldsOf(c)
  <2>1. FieldsOf((a \cup b) \cup c) = FieldsOf(a \cup b) \cup FieldsOf(c)
    BY FieldsOfUnion
  <2>2. FieldsOf(a \cup b) = FieldsOf(a) \cup FieldsOf(b)
    BY FieldsOfUnion
  <2> QED
    BY <2>1, <2>2
<1> QED
  BY <1>1

\* Those of several sets of faults.
LEMMA FieldsOfAll ==
    ASSUME NEW all PROVE \A x : x \in FieldsOf(UNION all) <=> \E a \in all : x \in FieldsOf(a)
BY DEF FieldsOf

LEMMA FieldsOfFault ==
    /\ FieldsOf({}) = {}
    /\ \A f, code : FieldsOf(Fault(f, code)) = {f}
    /\ \A unknown : FieldsOf({<<f, "unknown_field">> : f \in unknown}) = unknown
<1>1. FieldsOf({}) = {}
  BY DEF FieldsOf
<1>2. ASSUME NEW f, NEW code PROVE FieldsOf(Fault(f, code)) = {f}
  BY DEF FieldsOf, Fault
<1>3. ASSUME NEW unknown
      PROVE  FieldsOf({<<f, "unknown_field">> : f \in unknown}) = unknown
  <2> DEFINE faults == {<<f, "unknown_field">> : f \in unknown}
  <2>1. ASSUME NEW x \in FieldsOf(faults) PROVE x \in unknown
    BY DEF FieldsOf
  <2>2. ASSUME NEW x \in unknown PROVE x \in FieldsOf(faults)
    <3>1. <<x, "unknown_field">> \in faults /\ <<x, "unknown_field">>[1] = x
      OBVIOUS
    <3> HIDE DEF faults
    <3> QED
      BY <3>1 DEF FieldsOf
  <2> HIDE DEF faults
  <2>3. FieldsOf(faults) = unknown
    BY <2>1, <2>2
  <2> QED
    BY <2>3 DEF faults
<1> QED
  BY <1>1, <1>2, <1>3

LEMMA NoFaultNoField == ASSUME NEW faults PROVE FieldsOf(faults) = {} <=> faults = {}
BY DEF FieldsOf

\* The faults are those of one field, and there are some unless it is met.
TellsOf(faults, f, met) == FieldsOf(faults) = IF met THEN {} ELSE {f}

LEMMA TextsAreTold ==
    ASSUME NEW payload, NEW f
    PROVE  TellsOf(TextFaults(payload, f), f, IsIdentifier(payload[f]))
<1>1. CASE payload[f].type # "text"
  <2>1. ~IsIdentifier(payload[f])
    BY <1>1 DEF IsIdentifier
  <2>2. TextFaults(payload, f) = Fault(f, "required") \/ TextFaults(payload, f) = Fault(f, "invalid_type")
    BY <1>1 DEF TextFaults, Required
  <2> QED
    BY <2>1, <2>2, FieldsOfFault DEF TellsOf
<1>2. CASE payload[f].type = "text" /\ payload[f].text = "blank"
  <2>1. TextFaults(payload, f) = Fault(f, "required") /\ ~IsIdentifier(payload[f])
    BY <1>2 DEF TextFaults, Required, IsMissing, IsIdentifier
  <2> QED
    BY <2>1, FieldsOfFault DEF TellsOf
<1>3. CASE payload[f].type = "text" /\ payload[f].text # "blank"
  <2>1. TextFaults(payload, f) = {} /\ IsIdentifier(payload[f])
    BY <1>3 DEF TextFaults, IsMissing, IsIdentifier
  <2> QED
    BY <2>1, FieldsOfFault DEF TellsOf
<1> QED
  BY <1>1, <1>2, <1>3

LEMMA AmountsAreTold ==
    ASSUME NEW payload, NEW f, payload[f] \in JsonValues
    PROVE  TellsOf(AmountFaults(payload, f), f, IsPaise(payload[f]))
<1>1. payload[f].number \in Int
  BY DEF JsonValues
<1>2. CASE payload[f].type # "int"
  BY <1>2, FieldsOfFault DEF TellsOf, AmountFaults, MoneyFaults, Required, IsMissing, IsPaise
<1>3. CASE payload[f].type = "int"
  <2> DEFINE a == IF payload[f].number <= 0 THEN Fault(f, "must_be_positive") ELSE {}
             b == IF payload[f].number > MaxPaise THEN Fault(f, "out_of_range") ELSE {}
  <2>1. AmountFaults(payload, f) = a \cup b
    BY <1>3 DEF AmountFaults, MoneyFaults, IsMissing
  <2>2. FieldsOf(AmountFaults(payload, f)) = FieldsOf(a) \cup FieldsOf(b)
    BY <2>1, FieldsOfUnion
  <2>3. /\ FieldsOf(a) = IF payload[f].number <= 0 THEN {f} ELSE {}
        /\ FieldsOf(b) = IF payload[f].number > MaxPaise THEN {f} ELSE {}
    BY FieldsOfFault
  <2> HIDE DEF a, b
  <2>4. IsPaise(payload[f]) <=> ~(payload[f].number <= 0) /\ ~(payload[f].number > MaxPaise)
    BY <1>1, <1>3, PaiseAssumption DEF IsPaise
  <2> QED
    BY <2>2, <2>3, <2>4 DEF TellsOf
<1> QED
  BY <1>2, <1>3

LEMMA DecimalsAreTold ==
    ASSUME NEW payload, NEW f, payload[f] \in JsonValues, NEW allowed, NEW code
    PROVE  LET parsed == DecimalFaults(payload, f) IN
           TellsOf(parsed \cup SignFaults(payload, f, parsed, allowed, code), f,
                   IsFinite(payload[f]) /\ payload[f].number \in allowed)
<1> DEFINE parsed == DecimalFaults(payload, f)
           sign == SignFaults(payload, f, parsed, allowed, code)
<1>1. FieldsOf(parsed \cup sign) = FieldsOf(parsed) \cup FieldsOf(sign)
  BY FieldsOfUnion
<1>2. FieldsOf(parsed) = (IF IsFinite(payload[f]) THEN {} ELSE {f})
  BY FieldsOfFault DEF DecimalFaults, Required, IsMissing, IsFinite
<1>3. parsed = {} <=> IsFinite(payload[f])
  BY <1>2, NoFaultNoField
<1>4. FieldsOf(sign) = IF IsFinite(payload[f]) /\ payload[f].number \notin allowed THEN {f} ELSE {}
  <2> HIDE DEF parsed
  <2> QED
    BY <1>3, FieldsOfFault DEF SignFaults
<1> HIDE DEF parsed, sign
<1>5. TellsOf(parsed \cup sign, f, IsFinite(payload[f]) /\ payload[f].number \in allowed)
  BY <1>1, <1>2, <1>4 DEF TellsOf
<1> QED
  BY <1>5 DEF parsed, sign

LEMMA DurationsAreTold ==
    ASSUME NEW payload, NEW f, payload[f] \in JsonValues, NEW allowed, NEW code
    PROVE  LET parsed == DurationFaults(payload, f) IN
           TellsOf(parsed \cup SignFaults(payload, f, parsed, allowed, code), f,
                   payload[f].type = "int" /\ payload[f].number \in allowed)
<1> DEFINE parsed == DurationFaults(payload, f)
           sign == SignFaults(payload, f, parsed, allowed, code)
<1>1. FieldsOf(parsed \cup sign) = FieldsOf(parsed) \cup FieldsOf(sign)
  BY FieldsOfUnion
<1>2. FieldsOf(parsed) = (IF payload[f].type = "int" THEN {} ELSE {f})
  BY FieldsOfFault DEF DurationFaults, Required, IsMissing
<1>3. parsed = {} <=> payload[f].type = "int"
  BY <1>2, NoFaultNoField
<1>4. FieldsOf(sign) = IF payload[f].type = "int" /\ payload[f].number \notin allowed THEN {f} ELSE {}
  <2> HIDE DEF parsed
  <2> QED
    BY <1>3, FieldsOfFault DEF SignFaults
<1> HIDE DEF parsed, sign
<1>5. TellsOf(parsed \cup sign, f, payload[f].type = "int" /\ payload[f].number \in allowed)
  BY <1>1, <1>2, <1>4 DEF TellsOf
<1> QED
  BY <1>5 DEF parsed, sign

LEMMA TimesAreTold ==
    ASSUME NEW payload, NEW f
    PROVE  TellsOf(TimeFaults(payload, f), f, IsAware(payload[f]))
BY FieldsOfFault DEF TellsOf, TimeFaults, Required, IsMissing, IsAware

\* Whether a condition holds of a field that exists or of one left out.
LEMMA CitiesAreTold ==
    ASSUME NEW payload, NEW f
    PROVE  TellsOf(CityFaults(payload, f), f,
                   payload[f].type = "text" /\ payload[f].text \in {"plain", "padded"})
<1> DEFINE met == payload[f].type = "text" /\ payload[f].text \in {"plain", "padded"}
<1>1. CASE met
  <2>1. CityFaults(payload, f) = {}
    BY <1>1 DEF CityFaults, IsMissing
  <2> QED
    BY <1>1, <2>1, FieldsOfFault DEF TellsOf
<1>2. CASE ~met
  <2>1. \E code : CityFaults(payload, f) = Fault(f, code)
    BY <1>2 DEF CityFaults, Required
  <2> QED
    BY <1>2, <2>1, FieldsOfFault DEF TellsOf
<1> QED
  BY <1>1, <1>2

LEMMA DomainsAreTold ==
    ASSUME NEW payload, NEW f
    PROVE  TellsOf(DomainFaults(payload, f), f, IsMobility(payload[f]))
<1>1. CASE IsMobility(payload[f])
  <2>1. DomainFaults(payload, f) = {}
    BY <1>1 DEF DomainFaults, IsMobility
  <2> QED
    BY <1>1, <2>1, FieldsOfFault DEF TellsOf
<1>2. CASE ~IsMobility(payload[f])
  <2>1. DomainFaults(payload, f) = Fault(f, "unsupported_domain")
    BY <1>2 DEF DomainFaults, IsMobility
  <2> QED
    BY <1>2, <2>1, FieldsOfFault DEF TellsOf
<1> QED
  BY <1>1, <1>2

-----------------------------------------------------------------------------
(* A whole transaction, outcome and record.                                *)

\* The faults of a transaction name the fields that keep it from being built,
\* each looked at by itself, and the fields it should not have.
LEMMA TransactionsAreTold ==
    ASSUME NEW payload, IsObject(payload), AreParsed(payload, TransactionFields), NEW unknown
    PROVE  FieldsOf(TransactionFaults(payload, unknown)) = Faulty(payload, AcceptedRide) \cup unknown
<1> DEFINE Told(f) == IF Meets(f, payload[f]) THEN {} ELSE {f}
           distance == DecimalFaults(payload, "distance_km")
           duration == DurationFaults(payload, "estimated_duration_minutes")
           surge == DecimalFaults(payload, "surge_multiplier")
           distances == distance \cup SignFaults(payload, "distance_km", distance, NotNegative, "must_be_non_negative")
           durations == duration
                \cup SignFaults(payload, "estimated_duration_minutes", duration, NotNegative, "must_be_non_negative")
           surges == surge \cup SignFaults(payload, "surge_multiplier", surge, Positive, "must_be_positive")
           texts == TextFaults(payload, "transaction_id") \cup TextFaults(payload, "customer_id")
           others == {<<f, "unknown_field">> : f \in unknown}
<1>1. \A f \in TransactionFields : payload[f] \in JsonValues
  BY DEF AreParsed
<1>2. /\ FieldsOf(TextFaults(payload, "transaction_id")) = Told("transaction_id")
      /\ FieldsOf(TextFaults(payload, "customer_id")) = Told("customer_id")
  BY TextsAreTold DEF TellsOf, Meets
<1>3. FieldsOf(AmountFaults(payload, "estimated_amount_paise")) = Told("estimated_amount_paise")
  BY <1>1, AmountsAreTold DEF TellsOf, Meets, TransactionFields
<1>4. FieldsOf(CityFaults(payload, "city")) = Told("city")
  BY CitiesAreTold DEF TellsOf, Meets
<1>5. FieldsOf(DomainFaults(payload, "domain")) = Told("domain")
  BY DomainsAreTold DEF TellsOf, Meets
<1>6. FieldsOf(TimeFaults(payload, "timestamp")) = Told("timestamp")
  BY TimesAreTold DEF TellsOf, Meets
<1>7. FieldsOf(distances) = Told("distance_km")
  <2>1. payload["distance_km"] \in JsonValues
    BY <1>1 DEF TransactionFields
  <2>2. TellsOf(distances, "distance_km",
                IsFinite(payload["distance_km"]) /\ payload["distance_km"].number \in NotNegative)
    BY <2>1, DecimalsAreTold
  <2>3. payload["distance_km"].number \in NotNegative <=> payload["distance_km"].number >= 0
    BY <2>1 DEF JsonValues, NotNegative
  <2> HIDE DEF distances
  <2> QED
    BY <2>2, <2>3 DEF TellsOf, Meets
<1>8. FieldsOf(durations) = Told("estimated_duration_minutes")
  <2>1. payload["estimated_duration_minutes"] \in JsonValues
    BY <1>1 DEF TransactionFields
  <2>2. TellsOf(durations, "estimated_duration_minutes",
                /\ payload["estimated_duration_minutes"].type = "int"
                /\ payload["estimated_duration_minutes"].number \in NotNegative)
    BY <2>1, DurationsAreTold
  <2>3. payload["estimated_duration_minutes"].number \in NotNegative
            <=> payload["estimated_duration_minutes"].number >= 0
    BY <2>1 DEF JsonValues, NotNegative
  <2> HIDE DEF durations
  <2> QED
    BY <2>2, <2>3 DEF TellsOf, Meets
<1>9. FieldsOf(surges) = Told("surge_multiplier")
  <2>1. payload["surge_multiplier"] \in JsonValues
    BY <1>1 DEF TransactionFields
  <2>2. TellsOf(surges, "surge_multiplier",
                IsFinite(payload["surge_multiplier"]) /\ payload["surge_multiplier"].number \in Positive)
    BY <2>1, DecimalsAreTold
  <2>3. payload["surge_multiplier"].number \in Positive <=> payload["surge_multiplier"].number > 0
    BY <2>1 DEF JsonValues, Positive
  <2> HIDE DEF surges
  <2> QED
    BY <2>2, <2>3 DEF TellsOf, Meets
<1>10. TransactionFaults(payload, unknown) =
        others \cup DomainFaults(payload, "domain") \cup TextFaults(payload, "transaction_id")
        \cup TextFaults(payload, "customer_id") \cup AmountFaults(payload, "estimated_amount_paise")
        \cup CityFaults(payload, "city") \cup distances \cup durations \cup surges
        \cup TimeFaults(payload, "timestamp")
  BY DEF TransactionFaults
<1>11. FieldsOf(others) = unknown
  BY FieldsOfFault
<1> HIDE DEF others, distances, durations, surges, distance, duration, surge
<1>12. \A x : x \in FieldsOf(TransactionFaults(payload, unknown))
              <=> \/ x \in unknown
                  \/ x \in Told("domain") \/ x \in Told("transaction_id") \/ x \in Told("customer_id")
                  \/ x \in Told("estimated_amount_paise") \/ x \in Told("city") \/ x \in Told("distance_km")
                  \/ x \in Told("estimated_duration_minutes") \/ x \in Told("surge_multiplier")
                  \/ x \in Told("timestamp")
  <2> DEFINE all == {others, DomainFaults(payload, "domain"), TextFaults(payload, "transaction_id"),
                     TextFaults(payload, "customer_id"), AmountFaults(payload, "estimated_amount_paise"),
                     CityFaults(payload, "city"), distances, durations, surges,
                     TimeFaults(payload, "timestamp")}
  <2>1. TransactionFaults(payload, unknown) = UNION all
    BY <1>10
  <2>2. \A x : x \in FieldsOf(TransactionFaults(payload, unknown)) <=> \E a \in all : x \in FieldsOf(a)
    <3> HIDE DEF all
    <3> QED
      BY <2>1, FieldsOfAll
  <2> HIDE DEF Told
  <2> QED
    BY <1>2, <1>3, <1>4, <1>5, <1>6, <1>7, <1>8, <1>9, <1>11, <2>2
<1>13. \A x : x \in FieldsOf(TransactionFaults(payload, unknown))
              <=> x \in unknown \/ \E f \in TransactionFields : x \in Told(f)
  <2> HIDE DEF Told
  <2> QED
    BY <1>12 DEF TransactionFields
<1>14. \A x : x \in FieldsOf(TransactionFaults(payload, unknown))
              <=> x \in unknown \/ x \in {f \in TransactionFields : ~Meets(f, payload[f])}
  BY <1>13
<1> HIDE DEF Told
<1> QED
  BY <1>14, FaultyFields

\* What is parsed without a fault is what the domain types accept.
LEMMA AcceptedTransactions ==
    ASSUME NEW payload, AreParsed(payload, TransactionFields), NEW unknown
    PROVE  TransactionFaults(payload, unknown) = {}
            <=> IsObject(payload) /\ unknown = {} /\ IsContext(payload) /\ IsMobility(payload["domain"])
<1> SUFFICES ASSUME IsObject(payload)
             PROVE  TransactionFaults(payload, unknown) = {}
                        <=> unknown = {} /\ IsContext(payload) /\ IsMobility(payload["domain"])
  BY DEF TransactionFaults, Fault
<1>1. TransactionFaults(payload, unknown) = {} <=> unknown = {} /\ Faulty(payload, AcceptedRide) = {}
  BY TransactionsAreTold, NoFaultNoField
<1>2. Faulty(payload, AcceptedRide) = {} <=> \A f \in TransactionFields : Meets(f, payload[f])
  BY FaultyFields
<1>3. IsContext(payload) <=> \A f \in TransactionFields \ {"domain"} : Meets(f, payload[f])
  BY DEF IsContext, TransactionFields, Meets
<1>4. IsMobility(payload["domain"]) <=> Meets("domain", payload["domain"])
  BY DEF Meets
<1> QED
  BY <1>1, <1>2, <1>3, <1>4 DEF TransactionFields

\* The same of an outcome.
MeetsInOutcome(f, value) ==
    /\ f = "transaction_id" => IsIdentifier(value)
    /\ f = "actual_amount_paise" => IsPaise(value)
    /\ f = "completed_at" => IsAware(value)

LEMMA FaultyInOutcome ==
    ASSUME NEW payload
    PROVE  FaultyOutcome(payload) = {f \in OutcomeFields : ~MeetsInOutcome(f, payload[f])}
<1>1. \A f \in OutcomeFields : MeetsInOutcome(f, AcceptedOutcome[f])
  <2>1. 1 \in 1 .. MaxPaise
    BY PaiseAssumption
  <2> QED
    BY <2>1 DEF AcceptedOutcome, OutcomeFields, MeetsInOutcome, Named, Number, At, IsIdentifier, IsPaise, IsAware
<1>2. \A outcome : IsOutcome(outcome) <=> \A g \in OutcomeFields : MeetsInOutcome(g, outcome[g])
  BY DEF IsOutcome, OutcomeFields, MeetsInOutcome
<1>3. ASSUME NEW f \in OutcomeFields
      PROVE  IsOutcome([AcceptedOutcome EXCEPT ![f] = payload[f]]) <=> MeetsInOutcome(f, payload[f])
  <2> DEFINE one == [AcceptedOutcome EXCEPT ![f] = payload[f]]
  <2>1. one[f] = payload[f] /\ \A g \in OutcomeFields \ {f} : one[g] = AcceptedOutcome[g]
    BY DEF AcceptedOutcome
  <2> HIDE DEF one
  <2>2. \A g \in OutcomeFields : MeetsInOutcome(g, one[g]) <=> (g = f => MeetsInOutcome(f, payload[f]))
    BY <1>1, <2>1
  <2>3. IsOutcome(one) <=> MeetsInOutcome(f, payload[f])
    BY <1>2, <2>2
  <2> QED
    BY <2>3 DEF one
<1> QED
  BY <1>3 DEF FaultyOutcome

LEMMA OutcomesAreTold ==
    ASSUME NEW payload, IsObject(payload), AreParsed(payload, OutcomeFields)
    PROVE  FieldsOf(OutcomeFaults(payload, {})) = FaultyOutcome(payload)
<1> DEFINE Told(f) == IF MeetsInOutcome(f, payload[f]) THEN {} ELSE {f}
<1>1. payload["actual_amount_paise"] \in JsonValues
  BY DEF AreParsed, OutcomeFields
<1>2. FieldsOf(TextFaults(payload, "transaction_id")) = Told("transaction_id")
  BY TextsAreTold DEF TellsOf, MeetsInOutcome
<1>3. FieldsOf(AmountFaults(payload, "actual_amount_paise")) = Told("actual_amount_paise")
  BY <1>1, AmountsAreTold DEF TellsOf, MeetsInOutcome
<1>4. FieldsOf(TimeFaults(payload, "completed_at")) = Told("completed_at")
  BY TimesAreTold DEF TellsOf, MeetsInOutcome
<1>5. OutcomeFaults(payload, {}) =
        TextFaults(payload, "transaction_id") \cup AmountFaults(payload, "actual_amount_paise")
        \cup TimeFaults(payload, "completed_at")
  BY DEF OutcomeFaults
<1> HIDE DEF Told
<1>6. FieldsOf(OutcomeFaults(payload, {})) =
        Told("transaction_id") \cup Told("actual_amount_paise") \cup Told("completed_at")
  <2>1. PICK texts, amounts, times :
            /\ texts = TextFaults(payload, "transaction_id")
            /\ amounts = AmountFaults(payload, "actual_amount_paise")
            /\ times = TimeFaults(payload, "completed_at")
    OBVIOUS
  <2>2. FieldsOf(texts \cup amounts \cup times) = FieldsOf(texts) \cup FieldsOf(amounts) \cup FieldsOf(times)
    BY FieldsOfThree
  <2> QED
    BY <1>2, <1>3, <1>4, <1>5, <2>1, <2>2
<1>7. Told("transaction_id") \cup Told("actual_amount_paise") \cup Told("completed_at")
        = {f \in OutcomeFields : ~MeetsInOutcome(f, payload[f])}
  BY DEF Told, OutcomeFields
<1> QED
  BY <1>6, <1>7, FaultyInOutcome

LEMMA AcceptedOutcomes ==
    ASSUME NEW payload, IsObject(payload), AreParsed(payload, OutcomeFields)
    PROVE  OutcomeFaults(payload, {}) = {} <=> IsOutcome(payload)
<1>1. OutcomeFaults(payload, {}) = {} <=> FaultyOutcome(payload) = {}
  BY OutcomesAreTold, NoFaultNoField
<1>2. FaultyOutcome(payload) = {} <=> \A f \in OutcomeFields : MeetsInOutcome(f, payload[f])
  BY FaultyInOutcome
<1> QED
  BY <1>1, <1>2 DEF IsOutcome, OutcomeFields, MeetsInOutcome

LEMMA NothingPrefixed == ASSUME NEW place, NEW faults PROVE Prefixed(place, faults) = {} <=> faults = {}
BY DEF Prefixed

\* The part of a record and the field that some fault names.
PlacesOf(faults) == {<<fault[1], fault[2][1]>> : fault \in faults}

LEMMA PlacesOfPrefixed ==
    ASSUME NEW place, NEW faults
    PROVE  PlacesOf(Prefixed(place, faults)) = Prefixed(place, FieldsOf(faults))
<1>1. ASSUME NEW x \in PlacesOf(Prefixed(place, faults)) PROVE x \in Prefixed(place, FieldsOf(faults))
  <2>1. PICK fault \in faults : x = <<place, fault[1]>>
    BY DEF PlacesOf, Prefixed
  <2>2. fault[1] \in FieldsOf(faults)
    BY DEF FieldsOf
  <2> QED
    BY <2>1, <2>2 DEF Prefixed
<1>2. ASSUME NEW x \in Prefixed(place, FieldsOf(faults)) PROVE x \in PlacesOf(Prefixed(place, faults))
  <2>1. PICK fault \in faults : x = <<place, fault[1]>>
    BY DEF FieldsOf, Prefixed
  <2>2. <<place, fault>> \in Prefixed(place, faults)
    BY DEF Prefixed
  <2>3. x = <<<<place, fault>>[1], <<place, fault>>[2][1]>>
    BY <2>1
  <2> QED
    BY <2>2, <2>3 DEF PlacesOf
<1> QED
  BY <1>1, <1>2

LEMMA PrefixedOne == \A place, x : Prefixed(place, {x}) = {<<place, x>>}
BY DEF Prefixed

LEMMA RequiredIsTold == \A f : FieldsOf(Required(f)) = {f}
BY DEF Required, Fault, FieldsOf

\* The faults of a record name each part and field of it that is not accepted.
LEMMA RecordsAreTold ==
    ASSUME NEW record, IsParsedRecord(record)
    PROVE  PlacesOf(RecordFaults(record)) = FaultyPlaces(record)
<1>1. CASE record.shape # "object"
  <2>1. RecordFaults(record) = Prefixed("record", Fault("record", "invalid_type"))
    BY <1>1 DEF RecordFaults
  <2>2. PICK faults : faults = Fault("record", "invalid_type")
    OBVIOUS
  <2>3. FieldsOf(faults) = {"record"}
    BY <2>2, FieldsOfFault
  <2>4. PlacesOf(RecordFaults(record)) = Prefixed("record", {"record"})
    BY <2>1, <2>2, <2>3, PlacesOfPrefixed
  <2> QED
    BY <1>1, <2>4, PrefixedOne DEF FaultyPlaces
<1>2. CASE record.shape = "object"
  <2> DEFINE others == {<<f, "unknown_field">> : f \in record.unknown}
             rides == IF ~IsObject(record.transaction) THEN {"transaction"}
                      ELSE Faulty(record.transaction, AcceptedRide) \cup record.extra
             outcomes == IF ~IsObject(record.outcome) THEN {"outcome"} ELSE FaultyOutcome(record.outcome)
  <2>1. FieldsOf(others) = record.unknown
    BY FieldsOfFault
  <2>2. FieldsOf(OfTransaction(record)) = rides
    BY RequiredIsTold, TransactionsAreTold DEF OfTransaction, IsParsedRecord
  <2>3. FieldsOf(OfOutcome(record)) = outcomes
    BY RequiredIsTold, OutcomesAreTold DEF OfOutcome, IsParsedRecord
  <2>4. FaultyPlaces(record) =
            Prefixed("record", record.unknown) \cup Prefixed("transaction", rides) \cup Prefixed("outcome", outcomes)
    BY <1>2 DEF FaultyPlaces
  <2>5. RecordFaults(record) =
            Prefixed("record", others) \cup Prefixed("transaction", OfTransaction(record))
            \cup Prefixed("outcome", OfOutcome(record))
    BY <1>2 DEF RecordFaults
  <2> HIDE DEF others, rides, outcomes
  <2>6. \A a, b, c : PlacesOf(a \cup b \cup c) = PlacesOf(a) \cup PlacesOf(b) \cup PlacesOf(c)
    BY DEF PlacesOf
  <2>7. PlacesOf(RecordFaults(record)) =
            PlacesOf(Prefixed("record", others)) \cup PlacesOf(Prefixed("transaction", OfTransaction(record)))
            \cup PlacesOf(Prefixed("outcome", OfOutcome(record)))
    BY <2>5, <2>6
  <2> QED
    BY <2>1, <2>2, <2>3, <2>4, <2>7, PlacesOfPrefixed
<1> QED
  BY <1>1, <1>2

LEMMA AcceptedRecords ==
    ASSUME NEW record, IsParsedRecord(record)
    PROVE  RecordFaults(record) = {} <=> IsRecord(record)
<1>1. CASE record.shape # "object"
  <2>1. Fault("record", "invalid_type") # {}
    BY DEF Fault
  <2>2. RecordFaults(record) = Prefixed("record", Fault("record", "invalid_type")) /\ ~IsRecord(record)
    BY <1>1 DEF RecordFaults, IsRecord
  <2> QED
    BY <2>1, <2>2, NothingPrefixed
<1>2. CASE record.shape = "object"
  <2> DEFINE others == {<<f, "unknown_field">> : f \in record.unknown}
  <2>1. RecordFaults(record) = {} <=>
            /\ Prefixed("record", others) = {} /\ Prefixed("transaction", OfTransaction(record)) = {}
            /\ Prefixed("outcome", OfOutcome(record)) = {}
    <3> HIDE DEF others
    <3> QED
      BY <1>2 DEF RecordFaults, others
  <2>2. others = {} <=> record.unknown = {}
    OBVIOUS
  <2>3. \A f : Required(f) # {}
    BY DEF Required, Fault
  <2>4. OfTransaction(record) = {} <=>
            /\ IsObject(record.transaction) /\ record.extra = {}
            /\ IsContext(record.transaction) /\ IsMobility(record.transaction["domain"])
    BY <2>3, AcceptedTransactions DEF IsParsedRecord, OfTransaction
  <2>5. OfOutcome(record) = {} <=> IsObject(record.outcome) /\ IsOutcome(record.outcome)
    BY <2>3, AcceptedOutcomes DEF IsParsedRecord, OfOutcome
  <2> HIDE DEF others
  <2> QED
    BY <1>2, <2>1, <2>2, <2>4, <2>5, NothingPrefixed DEF IsRecord
<1> QED
  BY <1>1, <1>2

\* The records of a file are numbered.
LEMMA RecordsOf ==
    ASSUME NEW file, IsParsedFile(file)
    PROVE  /\ Len(file.records) \in Nat
           /\ DOMAIN file.records = 1 .. Len(file.records)
           /\ DOMAIN file.records \subseteq Nat
BY DEF IsParsedFile

\* A file without faults holds acceptable records alone.
LEMMA AcceptedFiles ==
    ASSUME NEW file, IsParsedFile(file), DatasetFaults(file) = {}
    PROVE  \A i \in DOMAIN file.records : IsRecord(file.records[i])
<1>1. FileFaults(file) = {}
  BY NothingPrefixed DEF DatasetFaults
<1>2. ASSUME NEW i \in DOMAIN file.records PROVE RecordFaults(file.records[i]) = {}
  <2>1. Prefixed(i, RecordFaults(file.records[i])) \subseteq DatasetFaults(file)
    BY <1>1 DEF DatasetFaults
  <2> QED
    BY <2>1, NothingPrefixed
<1> QED
  BY <1>2, AcceptedRecords DEF IsParsedFile

\* The faults of a file name all that is wrong with its head, or else every
\* place of every record that is not accepted.
LEMMA HeadsAreTold ==
    ASSUME NEW file
    PROVE  /\ FieldsOf(FileFaults(file)) = FaultyHeader(file)
           /\ FileFaults(file) = {} <=> FaultyHeader(file) = {}
<1>1. FieldsOf(FileFaults(file)) = FaultyHeader(file)
  <2>1. CASE file.shape \in {"no json", "no object"}
    <3>1. FileFaults(file) = Fault("$", "invalid_json") \/ FileFaults(file) = Fault("$", "invalid_type")
      BY <2>1 DEF FileFaults
    <3> QED
      BY <2>1, <3>1, FieldsOfFault DEF FaultyHeader
  <2>2. CASE file.shape \notin {"no json", "no object"}
    <3> DEFINE others == {<<f, "unknown_field">> : f \in file.unknown}
               metadata == IF file.metadata \in {"absent", "object"} THEN {} ELSE Fault("metadata", "invalid_type")
               records == CASE file.shape = "absent" -> Required("records")
                            [] file.shape = "array" -> {}
                            [] OTHER -> Fault("records", "invalid_type")
    <3>1. FileFaults(file) = others \cup metadata \cup records
      BY <2>2 DEF FileFaults
    <3>2. FieldsOf(others) = file.unknown
      BY FieldsOfFault
    <3>3. FieldsOf(metadata) = {f \in {"metadata"} : file.metadata \notin {"absent", "object"}}
      BY FieldsOfFault
    <3>4. FieldsOf(records) = {f \in {"records"} : file.shape # "array"}
      BY FieldsOfFault DEF Required
    <3> HIDE DEF others, metadata, records
    <3> QED
      <4>1. FieldsOf(FileFaults(file)) = FieldsOf(others) \cup FieldsOf(metadata) \cup FieldsOf(records)
        BY <3>1, FieldsOfThree
      <4>2. FaultyHeader(file) =
                file.unknown \cup {f \in {"metadata"} : file.metadata \notin {"absent", "object"}}
                \cup {f \in {"records"} : file.shape # "array"}
        BY <2>2 DEF FaultyHeader
      <4> QED
        BY <3>2, <3>3, <3>4, <4>1, <4>2
  <2> QED
    BY <2>1, <2>2
<1> QED
  BY <1>1, NoFaultNoField

\* The record, part and field that some fault of a file names.
DeepPlacesOf(faults) == {<<fault[1], <<fault[2][1], fault[2][2][1]>>>> : fault \in faults}

LEMMA FilesAreTold ==
    ASSUME NEW file, IsParsedFile(file)
    PROVE  DeepPlacesOf(DatasetFaults(file)) = FaultyInFile(file)
<1>1. ASSUME NEW place, NEW faults PROVE DeepPlacesOf(Prefixed(place, faults)) = Prefixed(place, PlacesOf(faults))
  <2>1. ASSUME NEW x \in DeepPlacesOf(Prefixed(place, faults)) PROVE x \in Prefixed(place, PlacesOf(faults))
    <3>1. PICK fault \in faults : x = <<place, <<fault[1], fault[2][1]>>>>
      BY DEF DeepPlacesOf, Prefixed
    <3>2. <<fault[1], fault[2][1]>> \in PlacesOf(faults)
      BY DEF PlacesOf
    <3> QED
      BY <3>1, <3>2 DEF Prefixed
  <2>2. ASSUME NEW x \in Prefixed(place, PlacesOf(faults)) PROVE x \in DeepPlacesOf(Prefixed(place, faults))
    <3>1. PICK fault \in faults : x = <<place, <<fault[1], fault[2][1]>>>>
      BY DEF PlacesOf, Prefixed
    <3>2. PICK y : y = <<place, fault>>
      OBVIOUS
    <3>3. y \in Prefixed(place, faults)
      BY <3>2 DEF Prefixed
    <3>4. x = <<y[1], <<y[2][1], y[2][2][1]>>>>
      BY <3>1, <3>2
    <3> QED
      BY <3>3, <3>4 DEF DeepPlacesOf
  <2> QED
    BY <2>1, <2>2
<1>2. CASE FileFaults(file) # {}
  <2>1. DatasetFaults(file) = Prefixed("file", Prefixed("file", FileFaults(file)))
    BY <1>2 DEF DatasetFaults
  <2>2. FaultyInFile(file) = Prefixed("file", Prefixed("file", FaultyHeader(file)))
    BY <1>2, HeadsAreTold DEF FaultyInFile
  <2> QED
    BY <1>1, <2>1, <2>2, PlacesOfPrefixed, HeadsAreTold
<1>3. CASE FileFaults(file) = {}
  <2> DEFINE Given(i) == Prefixed(i, RecordFaults(file.records[i]))
             Told(i) == Prefixed(i, FaultyPlaces(file.records[i]))
  <2>1. DatasetFaults(file) = UNION {Given(i) : i \in DOMAIN file.records}
    BY <1>3 DEF DatasetFaults
  <2>2. FaultyInFile(file) = UNION {Told(i) : i \in DOMAIN file.records}
    BY <1>3, HeadsAreTold DEF FaultyInFile
  <2>3. ASSUME NEW i \in DOMAIN file.records PROVE DeepPlacesOf(Given(i)) = Told(i)
    <3>1. PlacesOf(RecordFaults(file.records[i])) = FaultyPlaces(file.records[i])
      BY RecordsAreTold DEF IsParsedFile
    <3> QED
      BY <1>1, <3>1
  <2> HIDE DEF Given, Told
  <2>4. DeepPlacesOf(UNION {Given(i) : i \in DOMAIN file.records})
            = UNION {DeepPlacesOf(Given(i)) : i \in DOMAIN file.records}
    BY DEF DeepPlacesOf
  <2>5. UNION {DeepPlacesOf(Given(i)) : i \in DOMAIN file.records} = UNION {Told(i) : i \in DOMAIN file.records}
    BY <2>3
  <2> QED
    BY <2>1, <2>2, <2>4, <2>5
<1> QED
  BY <1>2, <1>3

-----------------------------------------------------------------------------
(* Trips: the first faults found are answered, so there are none to answer  *)
(* only if there are none.                                                  *)

LEMMA NoFirstFaults ==
    ASSUME NEW faults, DOMAIN faults \subseteq Nat, FirstFaults(faults) = {}
    PROVE  \A i \in DOMAIN faults : faults[i] = {}
<1> DEFINE faulty == {i \in DOMAIN faults : faults[i] # {}}
           first == CHOOSE i \in faulty : \A j \in faulty : i <= j
<1>1. SUFFICES ASSUME faulty # {} PROVE FALSE
  OBVIOUS
<1>2. first \in faulty
  <2> faulty \subseteq Nat
    OBVIOUS
  <2> HIDE DEF faulty
  <2>1. \E i \in faulty : \A j \in faulty : i <= j
    BY <1>1, LeastExists
  <2> QED
    BY <2>1
<1>3. FirstFaults(faults) = faults[first]
  BY <1>1 DEF FirstFaults
<1> QED
  BY <1>2, <1>3

LEMMA AcceptedUpdates ==
    ASSUME NEW payload, NEW unknown, UpdateFaults(payload, unknown) = {}
    PROVE  IsObject(payload) /\ IsUpdate(payload)
<1>1. \A f, code : Fault(f, code) # {}
  BY DEF Fault
<1> DEFINE missing == {f \in RequiredInUpdate : IsMissing(payload[f])}
<1>2. missing # {} => UNION {Required(f) : f \in missing} # {}
  <2> HIDE DEF missing
  <2>1. ASSUME NEW f \in missing PROVE Required(f) \subseteq UNION {Required(g) : g \in missing}
    OBVIOUS
  <2> QED
    BY <1>1, <2>1 DEF Required
<1>3. unknown # {} => {<<f, "unknown_field">> : f \in unknown} # {}
  OBVIOUS
<1>4. ~IsUpdate(payload) => Fault("update", "invalid_update") # {}
  BY <1>1
<1> HIDE DEF missing
<1> QED
  BY <1>1, <1>2, <1>3, <1>4 DEF UpdateFaults, missing

LEMMA AcceptedTrips ==
    ASSUME NEW trip, IsParsedTrip(trip), TripFaults(trip) = {}
    PROVE  IsTrip(trip)
<1> DEFINE updates == [i \in DOMAIN trip.updates |-> UpdateFaults(trip.updates[i], trip.strays)]
           places == [i \in DOMAIN trip.updates |-> PlaceFaults(trip, trip.updates[i])]
<1>1. \A f, code : Fault(f, code) # {}
  BY DEF Fault
<1>2. /\ trip.unknown # {} => {<<f, "unknown_field">> : f \in trip.unknown} # {}
      /\ \A place, faults : Prefixed(place, faults) = {} <=> faults = {}
  <2>1. trip.unknown # {} => {<<f, "unknown_field">> : f \in trip.unknown} # {}
    OBVIOUS
  <2> QED
    BY <2>1, NothingPrefixed
<1>3. /\ RecordFaults(trip) = {}
      /\ FirstFaults(updates) = {}
      /\ FirstFaults(places) = {}
  <2> HIDE DEF updates, places
  <2> QED
    BY <1>1, <1>2 DEF TripFaults, updates, places
<1>4. IsRecord(trip)
  BY <1>3, AcceptedRecords DEF IsParsedTrip
<1>5. DOMAIN updates = DOMAIN trip.updates /\ DOMAIN places = DOMAIN trip.updates
  OBVIOUS
<1>6. \A i \in DOMAIN trip.updates : updates[i] = {} /\ places[i] = {}
  <2>1. DOMAIN trip.updates \subseteq Nat
    BY DEF IsParsedTrip
  <2> HIDE DEF updates, places
  <2> QED
    BY <1>3, <1>5, <2>1, NoFirstFaults
<1>7. ASSUME NEW i \in DOMAIN trip.updates
      PROVE  LET u == trip.updates[i] IN
             /\ IsObject(u) /\ IsUpdate(u)
             /\ u["transaction_id"] = trip.transaction["transaction_id"]
             /\ trip.transaction["timestamp"].number < u["observed_at"].number
             /\ u["observed_at"].number < trip.outcome["completed_at"].number
  <2> DEFINE u == trip.updates[i]
  <2>1. UpdateFaults(u, trip.strays) = {} /\ PlaceFaults(trip, u) = {}
    BY <1>6
  <2>2. IsObject(u) /\ IsUpdate(u)
    BY <2>1, AcceptedUpdates
  <2>3. /\ u["observed_at"].number \in Int
        /\ trip.transaction["timestamp"].number \in Int
        /\ trip.outcome["completed_at"].number \in Int
    <3>1. u["observed_at"] \in JsonValues
      BY <2>2 DEF IsParsedTrip, AreParsed
    <3>2. trip.transaction["timestamp"] \in JsonValues /\ trip.outcome["completed_at"] \in JsonValues
      BY <1>4 DEF IsRecord, IsParsedTrip, IsParsedRecord, AreParsed, TransactionFields, OutcomeFields
    <3> QED
      BY <3>1, <3>2 DEF JsonValues
  <2>4. /\ u["transaction_id"] = trip.transaction["transaction_id"]
        /\ ~(u["observed_at"].number <= trip.transaction["timestamp"].number)
        /\ ~(u["observed_at"].number >= trip.outcome["completed_at"].number)
    <3> HIDE DEF u
    <3> QED
      BY <1>1, <2>1 DEF PlaceFaults
  <2> HIDE DEF u
  <2>5. /\ trip.transaction["timestamp"].number < u["observed_at"].number
        /\ u["observed_at"].number < trip.outcome["completed_at"].number
    BY <2>3, <2>4
  <2> QED
    BY <2>2, <2>4, <2>5 DEF u
<1> QED
  BY <1>4, <1>7 DEF IsTrip

LEMMA AcceptedTripFiles ==
    ASSUME NEW file, DOMAIN file.records \subseteq Nat,
           \A i \in DOMAIN file.records : IsParsedTrip(file.records[i]),
           TripsFaults(file) = {}
    PROVE  \A i \in DOMAIN file.records : IsTrip(file.records[i])
<1> DEFINE trips == [i \in DOMAIN file.records |-> TripFaults(file.records[i])]
<1>1. TripFileFaults(file) = {} /\ FirstFaults(trips) = {}
  <2> HIDE DEF trips
  <2> QED
    BY NothingPrefixed DEF TripsFaults, trips
<1>2. \A i \in DOMAIN file.records : TripFaults(file.records[i]) = {}
  <2>1. DOMAIN trips = DOMAIN file.records
    OBVIOUS
  <2>2. \A i \in DOMAIN trips : trips[i] = {}
    <3> HIDE DEF trips
    <3> QED
      BY <1>1, <2>1, NoFirstFaults
  <2> QED
    BY <2>2
<1> QED
  BY <1>2, AcceptedTrips

LEMMA AcceptedScenarios ==
    ASSUME NEW trip, NEW history, IsParsedTrip(trip), ScenarioFaults(trip, history) = {}
    PROVE  IsTrip(trip)
<1>1. \A f, code : Prefixed("file", Fault(f, code)) # {}
  BY NothingPrefixed DEF Fault
<1>2. TripFaults(trip) = {}
  BY <1>1 DEF ScenarioFaults, Required
<1> QED
  BY <1>2, AcceptedTrips

-----------------------------------------------------------------------------
(* Blocks: the published quantiles and what is chosen from them *)

\* Quantiles as a prediction publishes them.
IsDistribution(q) ==
    /\ q \in [1 .. Top -> Nat \ {0}]
    /\ \A i, j \in 1 .. Top : i <= j => q[i] <= q[j]
    /\ \A i, j \in 1 .. Top : q[i] < q[j] => Scale % (q[j] - q[i]) = 0
    /\ AmountAtZero(q) < q[1] => Scale % (q[1] - AmountAtZero(q)) = 0

LEMMA NumbersAreFinite == ASSUME NEW n \in Nat PROVE IsFiniteSet(1 .. n)
BY FS_Interval

LEMMA ElementsOf ==
    ASSUME NEW S, NEW s \in Seq(S)
    PROVE  Len(s) \in Nat /\ DOMAIN s = 1 .. Len(s) /\ \A i \in 1 .. Len(s) : s[i] \in S
OBVIOUS

LEMMA LevelFacts ==
    /\ Top \in Nat /\ Top >= 2 /\ DOMAIN Levels = 1 .. Top
    /\ \A i \in 1 .. Top : Levels[i] \in 1 .. 99
    /\ \A i, j \in 1 .. Top : i < j => Levels[i] < Levels[j]
    /\ Levels[Top] = 99
<1>1. Levels \in Seq(1 .. 99) /\ Len(Levels) >= 2
  BY OptimizerAssumption
<1>2. Len(Levels) \in Nat /\ DOMAIN Levels = 1 .. Len(Levels) /\ \A i \in 1 .. Len(Levels) : Levels[i] \in 1 .. 99
  <2> DEFINE S == 1 .. 99
  <2> HIDE DEF S
  <2>1. Levels \in Seq(S)
    BY <1>1 DEF S
  <2> QED
    BY <2>1, ElementsOf DEF S
<1>3. Levels[Len(Levels)] = 99 /\ \A i, j \in DOMAIN Levels : i < j => Levels[i] < Levels[j]
  BY OptimizerAssumption
<1> QED
  BY <1>1, <1>2, <1>3 DEF Top

LEMMA LevelsAreNumbers ==
    \A i \in 1 .. Top : Levels[i] \in Int /\ 1 <= Levels[i] /\ Levels[i] <= 99
<1> DEFINE S == 1 .. 99
<1>1. \A x \in S : x \in Int /\ 1 <= x /\ x <= 99
  OBVIOUS
<1> HIDE DEF S
<1>2. Levels \in Seq(S)
  BY OptimizerAssumption DEF S
<1>3. \A i \in 1 .. Top : Levels[i] \in S
  BY <1>2, ElementsOf DEF Top
<1> QED
  BY <1>1, <1>3

\* The cumulative maximum publishes quantiles that do not cross, none below
\* the model's own, and each of them some model's own.
LEMMA RepairPublishes ==
    ASSUME NEW raw, IsRaw(raw)
    PROVE  /\ IsDistribution(Repaired(raw))
           /\ \A i \in 1 .. Top : Repaired(raw)[i] >= raw[i] /\ Repaired(raw)[i] \in Amounts(raw)
<1> DEFINE q == Repaired(raw)
           Upto(i) == {raw[j] : j \in 1 .. i}
<1>1. DOMAIN raw = 1 .. Top /\ Top \in Nat /\ \A i \in 1 .. Top : raw[i] \in Nat \ {0}
  BY LevelFacts DEF IsRaw
<1>2. ASSUME NEW i \in 1 .. Top
      PROVE  Upto(i) \subseteq Nat \ {0} /\ IsFiniteSet(Upto(i)) /\ raw[i] \in Upto(i)
  <2>1. IsFiniteSet(1 .. i)
    BY <1>1, FS_Interval
  <2>2. [j \in 1 .. i |-> raw[j]] \in Surjection(1 .. i, Upto(i))
    BY DEF Surjection
  <2>3. IsFiniteSet(Upto(i))
    BY <2>1, <2>2, FS_Surjection
  <2>4. i \in 1 .. i /\ \A j \in 1 .. i : j \in 1 .. Top
    BY <1>1
  <2>5. \A j \in 1 .. i : raw[j] \in Nat \ {0}
    BY <1>1, <2>4
  <2> QED
    BY <2>3, <2>4, <2>5
<1>3. ASSUME NEW i \in 1 .. Top
      PROVE  q[i] \in Upto(i) /\ \A x \in Upto(i) : x <= q[i]
  <2>1. q[i] = Max(Upto(i))
    BY <1>1 DEF Repaired
  <2> HIDE DEF q, Upto
  <2>2. Upto(i) \subseteq Int /\ IsFiniteSet(Upto(i)) /\ Upto(i) # {}
    BY <1>2
  <2>3. Max(Upto(i)) \in Upto(i) /\ \A x \in Upto(i) : x <= Max(Upto(i))
    BY <2>2, MaxIsLargest
  <2> QED
    BY <2>1, <2>3
<1>4. DOMAIN q = 1 .. Top /\ q = [i \in 1 .. Top |-> q[i]]
  BY <1>1 DEF Repaired
<1> HIDE DEF q
<1>5. \A i \in 1 .. Top : q[i] \in Nat \ {0} /\ raw[i] <= q[i]
  BY <1>2, <1>3
<1>6. \A i \in 1 .. Top : \E k \in 1 .. Top : q[i] = raw[k]
  BY <1>1, <1>3
<1>7. \A i, j \in 1 .. Top : i <= j => Upto(i) \subseteq Upto(j)
  BY <1>1
<1>8. \A i, j \in 1 .. Top : i <= j => q[i] <= q[j]
  <2> HIDE DEF Upto
  <2> QED BY <1>3, <1>7
<1>9. \A i, j \in 1 .. Top : q[i] < q[j] => Scale % (q[j] - q[i]) = 0
  <2> SUFFICES ASSUME NEW i \in 1 .. Top, NEW j \in 1 .. Top, q[i] < q[j]
               PROVE  Scale % (q[j] - q[i]) = 0
    OBVIOUS
  <2>1. PICK k \in 1 .. Top, l \in 1 .. Top : q[i] = raw[k] /\ q[j] = raw[l]
    BY <1>6
  <2> QED
    BY <1>1, <2>1 DEF IsRaw
<1>10. q \in [1 .. Top -> Nat \ {0}]
  BY <1>4, <1>5
<1>11. \A i \in 1 .. Top : q[i] \in Amounts(raw)
  BY <1>1, <1>6 DEF Amounts
<1>12. \A i \in 1 .. Top : q[i] >= raw[i]
  BY <1>1, <1>5
<1>13. AmountAtZero(q) < q[1] => Scale % (q[1] - AmountAtZero(q)) = 0
  <2>1. 1 \in 1 .. Top
    BY <1>1, LevelFacts
  <2>2. Upto(1) = {raw[1]}
    OBVIOUS
  <2>3. q[1] = raw[1]
    <3> HIDE DEF Upto
    <3> QED BY <1>3, <2>1, <2>2
  <2> QED
    BY <2>3 DEF IsRaw, q
<1> QED
  BY <1>8, <1>9, <1>10, <1>11, <1>12, <1>13 DEF IsDistribution, q

\* Hence FareDistributionPrediction accepts them.
LEMMA DistributionIsPublished ==
    ASSUME NEW q, IsDistribution(q) PROVE IsPublished(q)
BY LevelFacts DEF IsDistribution, IsPublished

LEMMA AmountFacts ==
    ASSUME NEW q, IsDistribution(q)
    PROVE  /\ Amounts(q) \subseteq Nat \ {0} /\ IsFiniteSet(Amounts(q))
           /\ q[1] \in Amounts(q) /\ q[Top] \in Amounts(q)
           /\ \A a \in Amounts(q) : q[1] <= a /\ a <= q[Top]
<1>1. DOMAIN q = 1 .. Top /\ 1 \in 1 .. Top /\ Top \in 1 .. Top
  BY LevelFacts DEF IsDistribution
<1>2. IsFiniteSet(1 .. Top)
  BY LevelFacts, FS_Interval
<1>3. [j \in 1 .. Top |-> q[j]] \in Surjection(1 .. Top, Amounts(q))
  BY <1>1 DEF Surjection, Amounts
<1>4. IsFiniteSet(Amounts(q))
  BY <1>2, <1>3, FS_Surjection
<1>5. \A a \in Amounts(q) : \E i \in 1 .. Top : a = q[i]
  BY <1>1 DEF Amounts
<1>6. \A i \in 1 .. Top : q[i] \in Nat \ {0} /\ q[1] <= q[i] /\ q[i] <= q[Top]
  BY <1>1 DEF IsDistribution
<1> QED
  BY <1>1, <1>4, <1>5, <1>6 DEF Amounts

\* The last level at an amount is the one the distribution function has there.
LEMMA LevelAtLast ==
    ASSUME NEW q, IsDistribution(q), NEW i \in 1 .. Top, i < Top => q[i + 1] > q[i]
    PROVE  LevelAt(q, q[i]) = Levels[i]
<1> DEFINE there == {Levels[k] : k \in {j \in DOMAIN q : q[j] = q[i]}}
<1>1. DOMAIN q = 1 .. Top /\ Top \in Nat /\ \A j \in 1 .. Top : q[j] \in Nat /\ Levels[j] \in 1 .. 99
  BY LevelFacts DEF IsDistribution
<1>2. ASSUME NEW j \in 1 .. Top, q[j] = q[i] PROVE j <= i
  <2> SUFFICES ASSUME i < j PROVE FALSE
    BY <1>1
  <2>1. i < Top /\ i + 1 \in 1 .. Top /\ i + 1 <= j
    BY <1>1
  <2>2. q[i + 1] <= q[j] /\ q[i + 1] > q[i]
    BY <2>1 DEF IsDistribution
  <2> QED
    BY <1>1, <1>2, <2>1, <2>2
<1>3. Levels[i] \in there
  BY <1>1
<1>4. \A x \in there : x <= Levels[i]
  <2> SUFFICES ASSUME NEW k \in 1 .. Top, q[k] = q[i] PROVE Levels[k] <= Levels[i]
    BY <1>1
  <2>1. k < i \/ k = i
    BY <1>1, <1>2
  <2>2. \A m, n \in 1 .. Top : m < n => Levels[m] < Levels[n]
    BY LevelFacts
  <2>3. Levels[k] \in Int /\ Levels[i] \in Int
    BY LevelsAreNumbers
  <2>4. Levels[k] < Levels[i] \/ Levels[k] = Levels[i]
    BY <2>1, <2>2
  <2> QED
    BY <2>3, <2>4
<1>5. there \subseteq Int /\ IsFiniteSet(there)
  <2>1. there \subseteq 1 .. 99
    <3>1. ASSUME NEW k \in 1 .. Top PROVE Levels[k] \in 1 .. 99
      <4>1. Levels[k] \in Int /\ 1 <= Levels[k] /\ Levels[k] <= 99
        BY LevelsAreNumbers
      <4> QED
        BY <4>1
    <3> QED
      BY <1>1, <3>1
  <2> HIDE DEF there
  <2>2. IsFiniteSet(1 .. 99)
    BY NumbersAreFinite
  <2>3. IsFiniteSet(there)
    BY <2>1, <2>2, FS_Subset
  <2>4. \A x \in 1 .. 99 : x \in Int
    OBVIOUS
  <2> QED
    BY <2>1, <2>3, <2>4
<1> HIDE DEF there
<1>6. Max(there) \in there /\ \A x \in there : x <= Max(there)
  BY <1>3, <1>5, MaxIsLargest
<1>7. Max(there) = Levels[i]
  <2>1. Max(there) \in Int /\ Levels[i] \in Int /\ Max(there) <= Levels[i] /\ Levels[i] <= Max(there)
    BY <1>1, <1>3, <1>4, <1>5, <1>6
  <2> QED
    BY <2>1
<1> QED
  BY <1>7 DEF LevelAt, there

\* Every amount is that of a last level.
LEMMA LastExists ==
    ASSUME NEW q, IsDistribution(q), NEW a \in Amounts(q)
    PROVE  \E i \in 1 .. Top : q[i] = a /\ (i < Top => q[i + 1] > a)
<1> DEFINE at == {j \in 1 .. Top : q[j] = a}
<1>1. DOMAIN q = 1 .. Top /\ Top \in Nat /\ \A j \in 1 .. Top : q[j] \in Nat
  BY LevelFacts DEF IsDistribution
<1>2. at # {} /\ at \subseteq Int /\ IsFiniteSet(at)
  <2>1. IsFiniteSet(1 .. Top)
    BY <1>1, FS_Interval
  <2>2. at \subseteq 1 .. Top
    OBVIOUS
  <2>3. IsFiniteSet(at)
    BY <2>1, <2>2, FS_Subset
  <2> QED
    BY <1>1, <2>3 DEF Amounts
<1>3. PICK i \in at : \A j \in at : j <= i
  <2> HIDE DEF at
  <2>1. Max(at) \in at /\ \A j \in at : j <= Max(at)
    BY <1>2, MaxIsLargest
  <2> QED BY <2>1
<1>4. ASSUME i < Top PROVE q[i + 1] > a
  <2>1. i + 1 \in 1 .. Top /\ i \in 1 .. Top /\ i + 1 > i
    BY <1>1, <1>4
  <2>2. i + 1 \notin at
    BY <1>3, <2>1
  <2>3. q[i] <= q[i + 1] /\ q[i + 1] \in Nat
    BY <1>1, <2>1 DEF IsDistribution
  <2> QED
    BY <1>1, <2>1, <2>2, <2>3
<1> QED
  BY <1>4

\* The distribution function on a segment between neighbouring amounts.
AreNeighbours(q, a, c) ==
    /\ a \in Amounts(q) /\ c \in Amounts(q) /\ a < c
    /\ \A x \in Amounts(q) : x <= a \/ c <= x

LEMMA NeighboursExist ==
    ASSUME NEW q, IsDistribution(q), NEW b \in Int, q[1] <= b, b < q[Top]
    PROVE  LET low == Max({a \in Amounts(q) : a <= b})
               high == Min({a \in Amounts(q) : a > b})
           IN  AreNeighbours(q, low, high) /\ low <= b /\ b < high
<1> DEFINE below == {a \in Amounts(q) : a <= b}
           above == {a \in Amounts(q) : a > b}
<1>1. /\ Amounts(q) \subseteq Nat \ {0} /\ IsFiniteSet(Amounts(q))
      /\ q[1] \in Amounts(q) /\ q[Top] \in Amounts(q)
  BY AmountFacts
<1>2. below \subseteq Int /\ IsFiniteSet(below) /\ below # {}
  <2>1. below \subseteq Amounts(q) /\ q[1] \in below
    BY <1>1
  <2> HIDE DEF below
  <2> QED
    BY <1>1, <2>1, FS_Subset
<1>3. above \subseteq Int /\ IsFiniteSet(above) /\ above # {}
  <2>1. above \subseteq Amounts(q) /\ q[Top] \in above
    BY <1>1
  <2> HIDE DEF above
  <2> QED
    BY <1>1, <2>1, FS_Subset
<1> HIDE DEF below, above
<1>4. Max(below) \in below /\ \A x \in below : x <= Max(below)
  BY <1>2, MaxIsLargest
<1>5. Min(above) \in above /\ \A x \in above : Min(above) <= x
  BY <1>3, MinIsLeast
<1> DEFINE low == Max(below)
           high == Min(above)
<1> USE DEF below, above
<1>6. /\ low \in Amounts(q) /\ high \in Amounts(q) /\ low <= b /\ b < high
      /\ low \in Int /\ high \in Int
  BY <1>1, <1>4, <1>5
<1>7. \A x \in Amounts(q) : (x <= b => x <= low) /\ (x > b => high <= x) /\ x \in Int
  BY <1>1, <1>4, <1>5
<1> HIDE DEF low, high
<1>8. AreNeighbours(q, low, high)
  BY <1>6, <1>7 DEF AreNeighbours
<1> QED
  BY <1>6, <1>8 DEF low, high

\* They are the only ones around it.
LEMMA NeighboursAreUnique ==
    ASSUME NEW q, IsDistribution(q), NEW b \in Int, NEW a, NEW c, AreNeighbours(q, a, c), a <= b, b < c
    PROVE  /\ Max({x \in Amounts(q) : x <= b}) = a
           /\ Min({x \in Amounts(q) : x > b}) = c
           /\ q[1] <= b /\ b < q[Top]
<1>1. /\ Amounts(q) \subseteq Nat \ {0} /\ a \in Amounts(q) /\ c \in Amounts(q)
      /\ q[1] \in Amounts(q) /\ q[Top] \in Amounts(q)
      /\ \A x \in Amounts(q) : q[1] <= x /\ x <= q[Top]
  BY AmountFacts DEF AreNeighbours
<1>2. a \in Int /\ c \in Int /\ q[1] \in Int /\ q[Top] \in Int /\ q[1] <= a /\ c <= q[Top]
  BY <1>1
<1>3. q[1] <= b /\ b < q[Top]
  BY <1>2
<1> DEFINE low == Max({x \in Amounts(q) : x <= b})
           high == Min({x \in Amounts(q) : x > b})
<1>4. AreNeighbours(q, low, high) /\ low <= b /\ b < high
  BY <1>3, NeighboursExist
<1> HIDE DEF low, high
<1>5. low \in Int /\ high \in Int /\ (a <= low \/ high <= a) /\ (low <= a \/ c <= low)
      /\ (high <= a \/ c <= high) /\ (c <= low \/ high <= c)
  BY <1>1, <1>4 DEF AreNeighbours
<1>6. low = a /\ high = c
  BY <1>2, <1>4, <1>5
<1> QED
  BY <1>3, <1>6 DEF low, high

\* Division, and Scale divided by the width of a segment.
LEMMA DividesExactly ==
    ASSUME NEW s \in Int, NEW w \in Int, w > 0, s > 0, s % w = 0
    PROVE  s \div w \in Int /\ s \div w > 0 /\ w * (s \div w) = s
<1>1. s \div w \in Int /\ s = w * (s \div w) + (s % w)
  OBVIOUS
<1>2. w * (s \div w) = s
  BY <1>1
<1> DEFINE k == s \div w
<1> HIDE DEF k
<1>3. k \in Int /\ w * k = s
  BY <1>1, <1>2 DEF k
<1>4. k > 0
  BY <1>3
<1> QED
  BY <1>1, <1>2, <1>4 DEF k

LEMMA SegmentDivides ==
    ASSUME NEW q, IsDistribution(q), NEW a \in Amounts(q), NEW c \in Amounts(q), a < c
    PROVE  /\ Scale \div (c - a) \in Int /\ Scale \div (c - a) > 0
           /\ (c - a) * (Scale \div (c - a)) = Scale
<1>1. PICK i \in 1 .. Top, j \in 1 .. Top : a = q[i] /\ c = q[j]
  BY DEF Amounts, IsDistribution
<1>2. Scale % (c - a) = 0
  BY <1>1 DEF IsDistribution
<1>3. Amounts(q) \subseteq Nat \ {0}
  BY AmountFacts
<1>4. c - a \in Int /\ c - a > 0 /\ Scale \in Int /\ Scale > 0
  BY <1>3, OptimizerAssumption
<1> QED
  BY <1>2, <1>4, DividesExactly

\* The level at an amount, and that at a larger one.
LEMMA LevelAtFacts ==
    ASSUME NEW q, IsDistribution(q), NEW a \in Amounts(q)
    PROVE  \E i \in 1 .. Top :
            /\ q[i] = a /\ (i < Top => q[i + 1] > a)
            /\ LevelAt(q, a) = Levels[i]
            /\ \A j \in 1 .. Top : q[j] > a => i < j
            /\ \A j \in 1 .. Top : q[j] <= a => j <= i
<1>1. PICK i \in 1 .. Top : q[i] = a /\ (i < Top => q[i + 1] > a)
  BY LastExists
<1>2. LevelAt(q, a) = Levels[i]
  BY <1>1, LevelAtLast
<1>3. Top \in Nat /\ \A j \in 1 .. Top : q[j] \in Nat
  BY LevelFacts DEF IsDistribution
<1>4. ASSUME NEW j \in 1 .. Top, q[j] > a PROVE i < j
  <2>1. j <= i => q[j] <= q[i]
    BY DEF IsDistribution
  <2> QED
    BY <1>1, <1>3, <1>4, <2>1
<1>5. ASSUME NEW j \in 1 .. Top, q[j] <= a PROVE j <= i
  <2> SUFFICES ASSUME i < j PROVE FALSE
    BY <1>3
  <2>1. i + 1 \in 1 .. Top /\ i < Top /\ i + 1 <= j
    BY <1>3
  <2>2. q[i + 1] <= q[j]
    BY <2>1 DEF IsDistribution
  <2> QED
    BY <1>1, <1>3, <1>5, <2>1, <2>2
<1> QED
  BY <1>1, <1>2, <1>4, <1>5

LEMMA LevelsRise ==
    ASSUME NEW q, IsDistribution(q), NEW a \in Amounts(q), NEW c \in Amounts(q), a <= c
    PROVE  /\ LevelAt(q, a) \in Int /\ 1 <= LevelAt(q, a) /\ LevelAt(q, a) <= 99
           /\ LevelAt(q, a) <= LevelAt(q, c)
           /\ a < c => LevelAt(q, a) < LevelAt(q, c)
<1>1. PICK i \in 1 .. Top : q[i] = a /\ LevelAt(q, a) = Levels[i] /\ \A j \in 1 .. Top : q[j] > a => i < j
  BY LevelAtFacts
<1>2. PICK k \in 1 .. Top : q[k] = c /\ LevelAt(q, c) = Levels[k]
  BY LevelAtFacts
<1>3. Levels[i] \in Int /\ 1 <= Levels[i] /\ Levels[i] <= 99 /\ Levels[k] \in Int
  BY LevelsAreNumbers
<1>4. a < c => Levels[i] < Levels[k]
  <2>1. a < c => i < k
    BY <1>1, <1>2
  <2>2. \A m, n \in 1 .. Top : m < n => Levels[m] < Levels[n]
    BY LevelFacts
  <2> QED
    BY <2>1, <2>2
<1>5. a = c => LevelAt(q, a) = LevelAt(q, c)
  OBVIOUS
<1>6. a < c \/ a = c
  <2>1. a \in Int /\ c \in Int
    BY AmountFacts
  <2> QED
    BY <2>1
<1> QED
  BY <1>1, <1>2, <1>3, <1>4, <1>5, <1>6

\* F at a published amount is the level there, and straight in between.
LEMMA CdfAtAmount ==
    ASSUME NEW q, IsDistribution(q), NEW a \in Amounts(q)
    PROVE  Cdf(q, a) = LevelAt(q, a) * Scale
<1>1. /\ Amounts(q) \subseteq Nat \ {0} /\ q[1] \in Amounts(q) /\ q[Top] \in Amounts(q)
      /\ \A x \in Amounts(q) : q[1] <= x /\ x <= q[Top]
  BY AmountFacts
<1>2. a \in Int /\ q[1] \in Int /\ q[Top] \in Int /\ q[1] <= a /\ a <= q[Top]
  BY <1>1
<1>3. CASE a = q[Top]
  <2>1. Top \in 1 .. Top /\ Top \in Nat
    BY LevelFacts
  <2>2. LevelAt(q, a) = Levels[Top]
    BY <1>3, <2>1, LevelAtLast
  <2> QED
    BY <1>2, <1>3, <2>2 DEF Cdf
<1>4. CASE a # q[Top]
  <2> DEFINE low == Max({x \in Amounts(q) : x <= a})
             high == Min({x \in Amounts(q) : x > a})
  <2>1. AreNeighbours(q, low, high) /\ low <= a /\ a < high
    BY <1>2, <1>4, NeighboursExist
  <2>2. Cdf(q, a) = LevelAt(q, low) * Scale
             + (a - low) * (LevelAt(q, high) - LevelAt(q, low)) * (Scale \div (high - low))
    BY <1>2, <1>4 DEF Cdf
  <2> HIDE DEF low, high
  <2>3. low \in Amounts(q) /\ high \in Amounts(q) /\ low \in Int /\ high \in Int /\ low < high
    BY <1>1, <2>1 DEF AreNeighbours
  <2>4. low = a
    BY <1>2, <2>1, <2>3 DEF AreNeighbours
  <2>5. LevelAt(q, a) \in Int /\ LevelAt(q, high) \in Int /\ Scale \div (high - a) \in Int /\ Scale \in Int
    BY <2>3, <2>4, LevelsRise, SegmentDivides, OptimizerAssumption
  <2> QED
    BY <1>2, <2>2, <2>4, <2>5
<1> QED
  BY <1>3, <1>4

LEMMA CdfBetween ==
    ASSUME NEW q, IsDistribution(q), NEW a, NEW c, AreNeighbours(q, a, c), NEW x \in a .. c
    PROVE  /\ Cdf(q, x) = LevelAt(q, a) * Scale
                + (x - a) * ((LevelAt(q, c) - LevelAt(q, a)) * (Scale \div (c - a)))
           /\ Cdf(q, x) \in Int
<1>1. a \in Amounts(q) /\ c \in Amounts(q) /\ a \in Int /\ c \in Int /\ a < c
  BY AmountFacts DEF AreNeighbours
<1> DEFINE m == LevelAt(q, a)
           n == LevelAt(q, c)
           k == Scale \div (c - a)
<1>2. m \in Int /\ n \in Int /\ Scale \in Int
  BY <1>1, LevelsRise, OptimizerAssumption
<1>3. k \in Int /\ (c - a) * k = Scale
  BY <1>1, SegmentDivides
<1>4. Cdf(q, x) = m * Scale + (x - a) * (n - m) * k
  <2>1. CASE x = c
    <3>1. Cdf(q, x) = n * Scale
      BY <1>1, <2>1, CdfAtAmount
    <3> HIDE DEF m, n, k
    <3>2. (x - a) * (n - m) * k = (n - m) * ((c - a) * k)
      BY <1>1, <1>2, <1>3, <2>1
    <3>3. (x - a) * (n - m) * k = (n - m) * Scale
      BY <1>3, <3>2
    <3> QED
      BY <1>2, <3>1, <3>3
  <2>2. CASE x # c
    <3>1. x \in Int /\ a <= x /\ x < c
      BY <1>1, <2>2
    <3>2. /\ Max({y \in Amounts(q) : y <= x}) = a
          /\ Min({y \in Amounts(q) : y > x}) = c
          /\ q[1] <= x /\ x < q[Top]
      BY <3>1, NeighboursAreUnique
    <3>3. q[1] \in Int /\ q[Top] \in Int
      BY AmountFacts
    <3> QED
      BY <3>1, <3>2, <3>3 DEF Cdf
  <2> QED
    BY <2>1, <2>2
<1>5. x \in Int
  BY <1>1
<1> HIDE DEF m, n, k
<1>6. (x - a) * (n - m) * k = (x - a) * ((n - m) * k) /\ (x - a) * ((n - m) * k) \in Int
  BY <1>1, <1>2, <1>3, <1>5
<1> QED
  BY <1>2, <1>4, <1>6 DEF m, n, k

\* F is zero below the published amounts and the highest level from their
\* last on.
LEMMA CdfOutside ==
    ASSUME NEW q, IsDistribution(q), NEW x \in Int
    PROVE  /\ x < q[1] => Cdf(q, x) = 0
           /\ x >= q[Top] => Cdf(q, x) = 99 * Scale
<1>1. q[1] \in Int /\ q[Top] \in Int /\ q[1] <= q[Top]
  BY AmountFacts
<1>2. Levels[Top] = 99
  BY LevelFacts
<1> QED
  BY <1>1, <1>2 DEF Cdf

\* The reported probabilities run straight between neighbouring quantiles.
LEMMA DistributionIsStraight ==
    ASSUME NEW q, IsDistribution(q), NEW low \in Int, NEW high \in Int
    PROVE  IsInterpolated(q, low, high)
<1>1. ASSUME NEW b \in low .. high, q[1] <= b, b < q[Top], b \in Amounts(q)
      PROVE  \E i \in DOMAIN q : q[i] = b /\ Cdf(q, b) = Levels[i] * Scale /\ (i < Top => q[i + 1] > b)
  <2>1. DOMAIN q = 1 .. Top
    BY DEF IsDistribution
  <2>2. PICK i \in 1 .. Top : q[i] = b /\ (i < Top => q[i + 1] > b) /\ LevelAt(q, b) = Levels[i]
    BY <1>1, LevelAtFacts
  <2> QED
    BY <1>1, <2>1, <2>2, CdfAtAmount
<1>2. ASSUME NEW b \in low .. high, q[1] <= b, b < q[Top], b \notin Amounts(q)
      PROVE  2 * Cdf(q, b) = Cdf(q, b - 1) + Cdf(q, b + 1)
  <2> DEFINE a == Max({x \in Amounts(q) : x <= b})
             c == Min({x \in Amounts(q) : x > b})
  <2>1. AreNeighbours(q, a, c) /\ a <= b /\ b < c
    BY <1>2, NeighboursExist
  <2> HIDE DEF a, c
  <2>2. a \in Amounts(q) /\ c \in Amounts(q) /\ a \in Int /\ c \in Int /\ a < c
    BY <2>1, AmountFacts DEF AreNeighbours
  <2>3. b - 1 \in a .. c /\ b \in a .. c /\ b + 1 \in a .. c /\ b \in Int
    BY <1>2, <2>1, <2>2
  <2> DEFINE m == LevelAt(q, a) * Scale
             k == (LevelAt(q, c) - LevelAt(q, a)) * (Scale \div (c - a))
  <2>4. m \in Int /\ k \in Int
    <3>1. LevelAt(q, a) \in Int /\ LevelAt(q, c) \in Int /\ Scale \in Int /\ Scale \div (c - a) \in Int
      BY <2>2, LevelsRise, SegmentDivides, OptimizerAssumption
    <3> QED
      BY <3>1
  <2>5. ASSUME NEW x \in a .. c PROVE Cdf(q, x) = m + (x - a) * k
    BY <2>1, CdfBetween
  <2> HIDE DEF m, k
  <2>6. /\ Cdf(q, b - 1) = m + ((b - 1) - a) * k
        /\ Cdf(q, b) = m + (b - a) * k
        /\ Cdf(q, b + 1) = m + ((b + 1) - a) * k
    BY <2>3, <2>5
  <2> QED
    BY <2>2, <2>3, <2>4, <2>6
<1>3. q[1] \in Int /\ q[Top] \in Int
  BY AmountFacts
<1>4. Levels[Top] = 99
  BY LevelFacts
<1> QED
  BY <1>1, <1>2, <1>3, <1>4, CdfOutside DEF IsInterpolated

\* F at an amount that is published for less than a level falls short of it.
LEMMA CdfBelow ==
    ASSUME NEW q, IsDistribution(q), NEW x \in Int, NEW i \in 1 .. Top, x < q[i],
           Cdf(q, x) >= Levels[i] * Scale
    PROVE  i < Top /\ q[i + 1] = q[i] /\ \E a \in Amounts(q) : a < x
<1>1. /\ Amounts(q) \subseteq Nat \ {0} /\ q[1] \in Amounts(q) /\ q[Top] \in Amounts(q)
      /\ \A y \in Amounts(q) : q[1] <= y /\ y <= q[Top]
  BY AmountFacts
<1>2. q[i] \in Amounts(q) /\ Top \in Nat /\ \A j \in 1 .. Top : q[j] \in Nat
  BY LevelFacts DEF Amounts, IsDistribution
<1>3. Levels[i] \in Int /\ Levels[i] > 0 /\ Scale \in Int /\ Scale > 0 /\ Levels[i] * Scale > 0
  <2>1. Levels[i] \in Int /\ Levels[i] > 0 /\ Scale \in Int /\ Scale > 0
    BY LevelsAreNumbers, OptimizerAssumption
  <2> QED
    BY <2>1
<1>4. q[1] <= x /\ x < q[Top]
  <2>1. x < q[1] => Cdf(q, x) = 0
    BY CdfOutside
  <2> QED
    BY <1>1, <1>2, <1>3, <2>1
<1> DEFINE a == Max({y \in Amounts(q) : y <= x})
           c == Min({y \in Amounts(q) : y > x})
<1>5. AreNeighbours(q, a, c) /\ a <= x /\ x < c
  BY <1>4, NeighboursExist
<1> HIDE DEF a, c
<1>6. /\ a \in Amounts(q) /\ c \in Amounts(q) /\ a \in Int /\ c \in Int /\ a < c
      /\ c <= q[i]
  BY <1>1, <1>2, <1>5 DEF AreNeighbours
<1> DEFINE m == LevelAt(q, a)
           n == LevelAt(q, c)
           k == Scale \div (c - a)
<1>7. m \in Int /\ n \in Int /\ k \in Int /\ k > 0 /\ (c - a) * k = Scale /\ m < n
  BY <1>6, LevelsRise, SegmentDivides
<1>8. Cdf(q, x) = m * Scale + (x - a) * ((n - m) * k)
  BY <1>5, <1>6, CdfBetween
<1>9. PICK j \in 1 .. Top : q[j] = c /\ (j < Top => q[j + 1] > c) /\ n = Levels[j]
                         /\ \A l \in 1 .. Top : q[l] > c => j < l
  BY <1>6, LevelAtFacts
<1>10. PICK o \in 1 .. Top : q[o] = a /\ m = Levels[o] /\ \A l \in 1 .. Top : q[l] > a => o < l
  BY <1>6, LevelAtFacts
<1>11. \A l, r \in 1 .. Top : l < r => Levels[l] < Levels[r]
  BY LevelFacts
<1>12. m < Levels[i]
  BY <1>2, <1>6, <1>10, <1>11
<1> HIDE DEF m, n, k
\* Short of the end of its segment F is below the level there.
<1>13. Cdf(q, x) < n * Scale
  <2>1. n * Scale = m * Scale + (c - a) * ((n - m) * k)
    <3>1. (c - a) * ((n - m) * k) = (n - m) * ((c - a) * k)
      BY <1>6, <1>7
    <3>2. (c - a) * ((n - m) * k) = (n - m) * Scale
      BY <1>7, <3>1
    <3> QED
      BY <1>3, <1>7, <3>2
  <2> DEFINE r == (n - m) * k
  <2>2. r \in Int /\ r > 0
    BY <1>7
  <2> HIDE DEF r
  <2>3. (x - a) * r < (c - a) * r
    BY <1>5, <1>6, <2>2
  <2> QED
    BY <1>3, <1>6, <1>7, <1>8, <2>1, <2>2, <2>3 DEF r
<1>14. Levels[i] < n
  <2> SUFFICES ASSUME n <= Levels[i] PROVE FALSE
    BY <1>3, <1>7
  <2>1. n * Scale <= Levels[i] * Scale
    BY <1>3, <1>7
  <2>2. Cdf(q, x) \in Int
    BY <1>3, <1>5, <1>6, <1>7, <1>8
  <2> QED
    BY <1>3, <1>7, <1>13, <2>1, <2>2
<1>15. i < j
  <2>1. j < i => Levels[j] < Levels[i]
    BY <1>11
  <2>2. i = j \/ i < j \/ j < i
    BY <1>2
  <2> QED
    BY <1>3, <1>7, <1>9, <1>14, <2>1, <2>2
<1>16. q[i] = c
  <2>1. q[i] <= q[j]
    BY <1>15 DEF IsDistribution
  <2> QED
    BY <1>2, <1>6, <1>9, <2>1
<1>17. i < Top /\ q[i + 1] = q[i]
  <2>1. i < Top /\ i + 1 \in 1 .. Top /\ i <= i + 1 /\ i + 1 <= j
    BY <1>2, <1>15
  <2>2. q[i] <= q[i + 1] /\ q[i + 1] <= q[j]
    BY <2>1 DEF IsDistribution
  <2> QED
    BY <1>2, <1>9, <1>16, <2>1, <2>2
<1>18. a < x
  <2> SUFFICES ASSUME a = x PROVE FALSE
    BY <1>5, <1>6
  <2>1. Cdf(q, x) = m * Scale
    BY <1>6, CdfAtAmount DEF m
  <2>2. m * Scale < Levels[i] * Scale
    BY <1>3, <1>7, <1>12
  <2> QED
    BY <1>3, <1>7, <2>1, <2>2
<1> QED
  BY <1>6, <1>17, <1>18

\* A block that meets a target reaches the quantile of the target.
LEMMA TargetIsReached ==
    ASSUME NEW q, IsDistribution(q), NEW x \in Int, NEW target, Cdf(q, x) >= target * Scale
    PROVE  ReachesQuantile(q, target, x)
<1> SUFFICES ASSUME NEW i \in 1 .. Top, Levels[i] = target, ~(x >= q[i])
             PROVE  i < Top /\ q[i + 1] = q[i] /\ \E a \in Amounts(q) : a < x
  BY LevelFacts DEF ReachesQuantile
<1>1. q[i] \in Int
  BY DEF IsDistribution
<1> QED
  BY <1>1, CdfBelow

\* Between two published amounts F lies between their levels.
LEMMA CdfBounds ==
    ASSUME NEW q, IsDistribution(q), NEW a, NEW c, AreNeighbours(q, a, c), NEW x \in a .. c
    PROVE  /\ LevelAt(q, a) * Scale <= Cdf(q, x)
           /\ Cdf(q, x) <= LevelAt(q, c) * Scale
           /\ \A y \in a .. c : x <= y => Cdf(q, x) <= Cdf(q, y)
<1>1. a \in Amounts(q) /\ c \in Amounts(q) /\ a \in Int /\ c \in Int /\ a < c
  BY AmountFacts DEF AreNeighbours
<1> DEFINE m == LevelAt(q, a)
           n == LevelAt(q, c)
           k == (n - m) * (Scale \div (c - a))
<1>2. m \in Int /\ n \in Int /\ m < n
  BY <1>1, LevelsRise
<1>3. Scale \div (c - a) \in Int /\ Scale \div (c - a) > 0 /\ Scale \in Int /\ Scale > 0
  BY <1>1, SegmentDivides, OptimizerAssumption
<1>4. k \in Int /\ k > 0
  <2> DEFINE s == Scale \div (c - a)
  <2> HIDE DEF s, m, n
  <2>1. s \in Int /\ s > 0
    BY <1>3 DEF s
  <2>2. (n - m) \in Int /\ n - m > 0
    BY <1>2
  <2>3. (n - m) * s \in Int /\ (n - m) * s > 0
    BY <2>1, <2>2
  <2> QED
    BY <2>3 DEF s
<1>5. \A y \in a .. c : Cdf(q, y) = m * Scale + (y - a) * k
  BY CdfBetween
<1>6. Cdf(q, c) = n * Scale
  BY <1>1, CdfAtAmount
<1>7. m * Scale \in Int
  BY <1>2, <1>3
<1> HIDE DEF m, n, k
<1>8. ASSUME NEW y \in a .. c, NEW z \in a .. c, y <= z
      PROVE  Cdf(q, y) <= Cdf(q, z) /\ m * Scale <= Cdf(q, y)
  <2>1. y \in Int /\ z \in Int /\ 0 <= y - a /\ y - a <= z - a
    BY <1>1, <1>8
  <2>2. (y - a) * k <= (z - a) * k /\ 0 <= (y - a) * k /\ (y - a) * k \in Int /\ (z - a) * k \in Int
    BY <1>1, <1>4, <2>1
  <2> QED
    BY <1>5, <1>7, <2>2
<1>9. c \in a .. c /\ x <= c /\ x <= x
  BY <1>1
<1> QED
  BY <1>6, <1>8, <1>9 DEF m, n

\* More money covers at least as many fares.
LEMMA CdfRises ==
    ASSUME NEW q, IsDistribution(q), NEW x \in Int
    PROVE  /\ Cdf(q, x) \in Int /\ 0 <= Cdf(q, x) /\ Cdf(q, x) <= 99 * Scale
           /\ \A y \in Int : x <= y => Cdf(q, x) <= Cdf(q, y)
<1>1. /\ q[1] \in Int /\ q[Top] \in Int /\ Scale \in Int /\ Scale > 0
      /\ Amounts(q) \subseteq Nat \ {0}
  BY AmountFacts, OptimizerAssumption
<1>2. ASSUME NEW y \in Int, q[1] <= y, y < q[Top]
      PROVE  \E a, c \in Amounts(q) :
                /\ AreNeighbours(q, a, c) /\ a <= y /\ y < c /\ y \in a .. c
                /\ LevelAt(q, a) * Scale <= Cdf(q, y) /\ Cdf(q, y) <= LevelAt(q, c) * Scale
                /\ Cdf(q, y) \in Int
  <2> DEFINE a == Max({z \in Amounts(q) : z <= y})
             c == Min({z \in Amounts(q) : z > y})
  <2>1. AreNeighbours(q, a, c) /\ a <= y /\ y < c
    BY <1>2, NeighboursExist
  <2> HIDE DEF a, c
  <2>2. a \in Amounts(q) /\ c \in Amounts(q) /\ y \in a .. c
    BY <1>1, <2>1 DEF AreNeighbours
  <2>3. LevelAt(q, a) * Scale <= Cdf(q, y) /\ Cdf(q, y) <= LevelAt(q, c) * Scale
    BY <2>1, <2>2, CdfBounds
  <2>4. Cdf(q, y) \in Int
    BY <2>1, <2>2, CdfBetween
  <2> QED
    BY <2>1, <2>2, <2>3, <2>4
<1>3. ASSUME NEW a \in Amounts(q)
      PROVE  LevelAt(q, a) * Scale \in Int /\ 0 <= LevelAt(q, a) * Scale /\ LevelAt(q, a) * Scale <= 99 * Scale
  <2> DEFINE m == LevelAt(q, a)
  <2>1. m \in Int /\ 0 <= m /\ m <= 99
    <3>1. a <= a
      BY <1>1
    <3> QED
      BY <3>1, LevelsRise
  <2> HIDE DEF m
  <2>2. m * Scale \in Int /\ 0 <= m * Scale /\ m * Scale <= 99 * Scale
    BY <1>1, <2>1
  <2> QED
    BY <2>2 DEF m
<1>4. ASSUME NEW y \in Int
      PROVE  Cdf(q, y) \in Int /\ 0 <= Cdf(q, y) /\ Cdf(q, y) <= 99 * Scale
  <2>1. CASE y < q[1]
    BY <1>1, <2>1, CdfOutside
  <2>2. CASE y >= q[Top]
    BY <1>1, <2>2, CdfOutside
  <2>3. CASE q[1] <= y /\ y < q[Top]
    BY <1>1, <1>2, <1>3, <2>3
  <2> QED
    BY <1>1, <2>1, <2>2, <2>3
<1>5. ASSUME NEW y \in Int, x <= y PROVE Cdf(q, x) <= Cdf(q, y)
  <2>1. CASE x < q[1]
    BY <1>4, <2>1, CdfOutside
  <2>2. CASE y >= q[Top]
    BY <1>4, <2>2, CdfOutside
  <2>3. CASE q[1] <= x /\ y < q[Top]
    <3>1. q[1] <= x /\ x < q[Top] /\ q[1] <= y /\ y < q[Top]
      BY <1>1, <1>5, <2>3
    <3>2. PICK a, c \in Amounts(q) :
                /\ AreNeighbours(q, a, c) /\ a <= x /\ x < c /\ x \in a .. c
                /\ Cdf(q, x) <= LevelAt(q, c) * Scale
      BY <1>2, <3>1
    <3>3. PICK d, e \in Amounts(q) :
                /\ AreNeighbours(q, d, e) /\ d <= y /\ y < e
                /\ LevelAt(q, d) * Scale <= Cdf(q, y)
      BY <1>2, <3>1
    <3>4. CASE y < c
      <4>1. y \in a .. c
        BY <1>1, <1>5, <3>2, <3>4
      <4> QED
        BY <1>5, <3>2, <4>1, CdfBounds
    <3>5. CASE c <= y
      <4>1. c <= d
        BY <1>1, <3>3, <3>5 DEF AreNeighbours
      <4>2. LevelAt(q, c) \in Int /\ LevelAt(q, d) \in Int /\ LevelAt(q, c) <= LevelAt(q, d)
        <5>1. d <= d
          BY <1>1
        <5> QED
          BY <4>1, <5>1, LevelsRise
      <4> DEFINE m == LevelAt(q, c)
                 n == LevelAt(q, d)
      <4> HIDE DEF m, n
      <4>3. m \in Int /\ n \in Int /\ m <= n
        BY <4>2 DEF m, n
      <4>4. m * Scale \in Int /\ n * Scale \in Int /\ m * Scale <= n * Scale
        BY <1>1, <4>3
      <4>5. Cdf(q, x) <= m * Scale /\ n * Scale <= Cdf(q, y)
        BY <3>2, <3>3 DEF m, n
      <4> QED
        BY <1>4, <4>4, <4>5
    <3> QED
      BY <1>1, <3>2, <3>4, <3>5
  <2> QED
    BY <1>1, <1>5, <2>1, <2>2, <2>3
<1> QED
  BY <1>4, <1>5

-----------------------------------------------------------------------------
(* The choice *)

\* What there is to choose from are finitely many amounts.
LEMMA CandidateFacts ==
    ASSUME NEW q, IsDistribution(q), NEW est \in Int, NEW step
    PROVE  /\ Candidates(est, q, step) \subseteq Nat \ {0}
           /\ IsFiniteSet(Candidates(est, q, step))
           /\ Lowest(est, q) \in Int /\ Highest(est, q) \in Int
           /\ Lowest(est, q) <= est /\ est <= Highest(est, q)
           /\ \A a \in Amounts(q) : a <= Highest(est, q)
           /\ Lowest(est, q) = est \/ Lowest(est, q) \in Amounts(q)
           /\ Highest(est, q) = est \/ Highest(est, q) \in Amounts(q)
<1>1. Amounts(q) \subseteq Nat \ {0} /\ q[Top] \in Amounts(q) /\ \A a \in Amounts(q) : a <= q[Top]
  BY AmountFacts
<1>2. Median(q) \in Amounts(q)
  <2>1. \E i \in DOMAIN Levels : Levels[i] = 50
    BY OptimizerAssumption
  <2>2. DOMAIN Levels = 1 .. Top /\ DOMAIN q = 1 .. Top
    BY LevelFacts DEF IsDistribution
  <2> QED
    BY <2>1, <2>2 DEF Median, Amounts
<1>3. ASSUME NEW x \in Int, NEW y \in Int
      PROVE  /\ Max({x, y}) \in {x, y} /\ x <= Max({x, y}) /\ y <= Max({x, y})
             /\ Min({x, y}) \in {x, y} /\ Min({x, y}) <= x /\ Min({x, y}) <= y
  <2>1. {x, y} \subseteq Int /\ {x, y} # {} /\ IsFiniteSet({x, y})
    <3>1. IsFiniteSet({x}) /\ {x, y} = {x} \cup {y}
      BY FS_Singleton
    <3>2. IsFiniteSet({x} \cup {y})
      BY <3>1, FS_AddElement
    <3> QED
      BY <3>1, <3>2
  <2>2. Max({x, y}) \in {x, y} /\ \A z \in {x, y} : z <= Max({x, y})
    BY <2>1, MaxIsLargest
  <2>3. Min({x, y}) \in {x, y} /\ \A z \in {x, y} : Min({x, y}) <= z
    BY <2>1, MinIsLeast
  <2> QED
    BY <2>2, <2>3
<1>4. /\ Lowest(est, q) \in {est, Median(q)} /\ Lowest(est, q) <= est
      /\ Highest(est, q) \in {est, q[Top]} /\ est <= Highest(est, q) /\ q[Top] <= Highest(est, q)
  <2>1. Median(q) \in Int /\ q[Top] \in Int
    BY <1>1, <1>2
  <2> QED
    BY <1>3, <2>1 DEF Lowest, Highest
<1>5. Lowest(est, q) \in Int /\ Highest(est, q) \in Int
  BY <1>1, <1>2, <1>4
<1>6. Candidates(est, q, step) \subseteq 1 .. Highest(est, q)
  BY <1>1, <1>4, <1>5 DEF Candidates
<1>7. IsFiniteSet(1 .. Highest(est, q))
  <2>1. 1 \in Int
    OBVIOUS
  <2> QED
    BY <1>5, <2>1, FS_Interval
<1>8. IsFiniteSet(Candidates(est, q, step))
  BY <1>6, <1>7, FS_Subset
<1>9. \A x \in 1 .. Highest(est, q) : x \in Nat \ {0}
  BY <1>5
<1>10. \A a \in Amounts(q) : a <= Highest(est, q)
  BY <1>1, <1>4, <1>5
<1> QED
  BY <1>1, <1>2, <1>4, <1>5, <1>6, <1>8, <1>9, <1>10

\* Among finitely many amounts with integers for scores there is a best.
LEMMA BestExists ==
    ASSUME NEW S, S \subseteq Int, IsFiniteSet(S), S # {}, NEW score, \A a \in S : score[a] \in Int
    PROVE  /\ Best(S, score) \in S
           /\ \A b \in S :
                \/ score[Best(S, score)] < score[b]
                \/ score[Best(S, score)] = score[b] /\ Best(S, score) <= b
<1> DEFINE T == {score[a] : a \in S}
           E == {a \in S : score[a] = Min(T)}
<1>1. T \subseteq Int /\ T # {} /\ IsFiniteSet(T)
  <2>1. [a \in S |-> score[a]] \in Surjection(S, T)
    BY DEF Surjection
  <2>2. IsFiniteSet(T)
    BY <2>1, FS_Surjection
  <2> QED
    BY <2>2
<1>2. Min(T) \in T /\ \A y \in T : Min(T) <= y
  <2> HIDE DEF T
  <2> QED BY <1>1, MinIsLeast
<1>3. E \subseteq Int /\ E # {} /\ IsFiniteSet(E)
  <2>1. E \subseteq S /\ E # {}
    BY <1>2
  <2> HIDE DEF E
  <2> QED BY <2>1, FS_Subset
<1>4. Min(E) \in E /\ \A y \in E : Min(E) <= y
  <2> HIDE DEF E
  <2> QED BY <1>3, MinIsLeast
<1>5. ASSUME NEW b \in S
      PROVE  score[Min(E)] < score[b] \/ (score[Min(E)] = score[b] /\ Min(E) <= b)
  <2>1. Min(T) <= score[b] /\ score[b] \in Int /\ Min(T) \in Int
    BY <1>1, <1>2
  <2>2. score[Min(E)] = Min(T)
    BY <1>4
  <2>3. score[b] = Min(T) => Min(E) <= b
    BY <1>4
  <2> HIDE DEF E, T
  <2> QED BY <2>1, <2>2, <2>3
<1>6. Min(E) \in S
  BY <1>4
<1> DEFINE Good(a) == \A b \in S : score[a] < score[b] \/ (score[a] = score[b] /\ a <= b)
<1>7. \E a \in S : Good(a)
  <2>1. Good(Min(E))
    BY <1>5
  <2> HIDE DEF Good, E
  <2> QED BY <1>6, <2>1
<1>8. Best(S, score) = CHOOSE a \in S : Good(a)
  BY DEF Best
<1>9. Best(S, score) \in S /\ Good(Best(S, score))
  <2> HIDE DEF Good
  <2>1. (CHOOSE a \in S : Good(a)) \in S /\ Good(CHOOSE a \in S : Good(a))
    BY <1>7
  <2> QED
    BY <1>8, <2>1, Zenon
<1> QED
  BY <1>9

\* Areas are integers, whole segments and the started one alike.
LEMMA SegmentExcessType ==
    ASSUME NEW width \in Int, NEW lower \in Int, NEW upper \in Int, NEW b \in Int
    PROVE  SegmentExcess(width, lower, upper, b) \in Int
<1>1. Scale \in Int
  BY OptimizerAssumption
<1>2. width * Scale * (2 * b - lower - upper) \in Int
  BY <1>1
<1>3. CASE b >= lower /\ b < upper
  <2>1. upper - lower \in Int /\ upper - lower > 0
    BY <1>3
  <2> DEFINE w == upper - lower
  <2> HIDE DEF w
  <2>2. w \in Int /\ w > 0
    BY <2>1 DEF w
  <2>3. Scale \div w \in Int
    BY <1>1, <2>2
  <2> DEFINE s == Scale \div w
  <2> HIDE DEF s
  <2>4. width * (b - lower) * (b - lower) * s \in Int
    <3>1. s \in Int /\ b - lower \in Int
      BY <2>3 DEF s
    <3>2. width * (b - lower) * (b - lower) \in Int
      BY <3>1
    <3> QED
      BY <3>1, <3>2
  <2> QED
    BY <1>3, <2>4 DEF SegmentExcess, s, w
<1>4. CASE ~(b >= lower /\ b < upper)
  BY <1>2, <1>4 DEF SegmentExcess
<1> QED
  BY <1>3, <1>4

\* The area of the segments above the lowest, summed as the model does.
UpperExcess(q, b) ==
    MapThenSumSet(
        LAMBDA i : SegmentExcess(Levels[i + 1] - Levels[i], q[i], q[i + 1], b),
        1 .. Top - 1)

\* That is a sum with the areas of the segments as weights.
LEMMA UpperIsSum ==
    ASSUME NEW q, NEW b, NEW w,
           \A i \in 1 .. Top - 1 : w[i] = SegmentExcess(Levels[i + 1] - Levels[i], q[i], q[i + 1], b)
    PROVE  UpperExcess(q, b) = SumOver(w, 1 .. Top - 1)
<1> DEFINE S == 1 .. Top - 1
           Folded(f) ==
              f = [s \in SUBSET S |->
                    IF s = {} THEN 0
                    ELSE SegmentExcess(Levels[(CHOOSE x \in s : TRUE) + 1] - Levels[CHOOSE x \in s : TRUE],
                                       q[CHOOSE x \in s : TRUE], q[(CHOOSE x \in s : TRUE) + 1], b)
                         + f[s \ {CHOOSE x \in s : TRUE}]]
           g == CHOOSE f : Folded(f)
           h == CHOOSE f : Sums(f, w, S)
<1>0. IsFiniteSet(S)
  <2>1. 1 \in Int /\ Top - 1 \in Int
    BY LevelFacts
  <2> QED
    BY <2>1, FS_Interval
<1>1. ASSUME NEW f PROVE Folded(f) <=> Sums(f, w, S)
  <2>1. \A s \in SUBSET S : s # {} =>
            /\ (CHOOSE x \in s : TRUE) = FirstOf(s)
            /\ w[FirstOf(s)] = SegmentExcess(Levels[(CHOOSE x \in s : TRUE) + 1] - Levels[CHOOSE x \in s : TRUE],
                                             q[CHOOSE x \in s : TRUE], q[(CHOOSE x \in s : TRUE) + 1], b)
    <3> TAKE s \in SUBSET S
    <3> HAVE s # {}
    <3>1. (CHOOSE x \in s : TRUE) = FirstOf(s)
      BY DEF FirstOf
    <3>2. FirstOf(s) \in S
      BY FirstIsElement
    <3> QED
      BY <3>1, <3>2
  <2> QED
    BY <2>1 DEF Sums
<1>2. Sums(h, w, S)
  <2> HIDE DEF S
  <2> QED BY <1>0, SumsExist
<1>3. Folded(g)
  <2> HIDE DEF Folded, h
  <2>1. Folded(h)
    BY <1>1, <1>2
  <2> QED
    BY <2>1
<1>4. UpperExcess(q, b) = g[S]
  BY DEF UpperExcess, MapThenSumSet, MapThenFoldSet
<1> HIDE DEF Folded, g, h, S
<1>5. g[S] = h[S]
  BY <1>0, <1>1, <1>2, <1>3, SumsAgree
<1>6. SumOver(w, S) = h[S]
  BY DEF SumOver, h
<1> QED
  BY <1>4, <1>5, <1>6 DEF S

LEMMA ExcessType ==
    ASSUME NEW q, IsDistribution(q), NEW b \in Int
    PROVE  ExpectedExcess(q, b) \in Int
<1>1. Top \in Int /\ Top >= 2 /\ \A i \in 1 .. Top : Levels[i] \in Int /\ q[i] \in Int
  BY LevelFacts, LevelsAreNumbers DEF IsDistribution
<1>2. AmountAtZero(q) \in Int
  <2>1. Levels[1] \in Int /\ Levels[2] \in Int /\ Levels[2] - Levels[1] > 0 /\ q[1] \in Int /\ q[2] \in Int
    BY <1>1, LevelFacts
  <2> DEFINE x == q[1] - ((q[2] - q[1]) * Levels[1]) \div (Levels[2] - Levels[1])
  <2>2. x \in Int
    <3> DEFINE n == (q[2] - q[1]) * Levels[1]
               w == Levels[2] - Levels[1]
    <3>1. n \in Int /\ w \in Int /\ w > 0
      BY <2>1
    <3> HIDE DEF n, w
    <3>2. n \div w \in Int
      BY <3>1
    <3> QED
      BY <2>1, <3>2 DEF n, w
  <2> HIDE DEF x
  <2>3. Max({1, x}) \in {1, x}
    <3>1. {1, x} \subseteq Int /\ {1, x} # {} /\ IsFiniteSet({1, x})
      <4>1. IsFiniteSet({1}) /\ {1, x} = {1} \cup {x}
        BY FS_Singleton
      <4>2. IsFiniteSet({1} \cup {x})
        BY <4>1, FS_AddElement
      <4> QED
        BY <2>2, <4>1, <4>2
    <3> QED
      BY <3>1, MaxIsLargest
  <2> QED
    BY <2>2, <2>3 DEF AmountAtZero, x
<1>3. SegmentExcess(Levels[1], AmountAtZero(q), q[1], b) \in Int
  <2>1. Levels[1] \in Int /\ q[1] \in Int
    BY <1>1
  <2> QED
    BY <1>2, <2>1, SegmentExcessType
<1> DEFINE w == [i \in 1 .. Top - 1 |-> SegmentExcess(Levels[i + 1] - Levels[i], q[i], q[i + 1], b)]
<1>4. \A i \in 1 .. Top - 1 : w[i] \in Int
  <2> TAKE i \in 1 .. Top - 1
  <2>1. Levels[i + 1] - Levels[i] \in Int /\ q[i] \in Int /\ q[i + 1] \in Int
    BY <1>1
  <2>2. SegmentExcess(Levels[i + 1] - Levels[i], q[i], q[i + 1], b) \in Int
    BY <2>1, SegmentExcessType
  <2> QED
    BY <2>2
<1>5. UpperExcess(q, b) = SumOver(w, 1 .. Top - 1)
  BY UpperIsSum
<1>6. IsFiniteSet(1 .. Top - 1)
  <2>1. 1 \in Int /\ Top - 1 \in Int
    BY <1>1
  <2> QED
    BY <2>1, FS_Interval
<1> HIDE DEF w
<1>7. SumOver(w, 1 .. Top - 1) \in Int
  BY <1>4, <1>6, SumType
<1>8. ExpectedExcess(q, b) = SegmentExcess(Levels[1], AmountAtZero(q), q[1], b) + UpperExcess(q, b)
  BY DEF ExpectedExcess, UpperExcess
<1> QED
  BY <1>3, <1>5, <1>7, <1>8

LEMMA ScoreType ==
    ASSUME NEW q, IsDistribution(q), NEW est \in Int, NEW b \in Int
    PROVE  Score(est, q, b) \in Int
<1>1. ExpectedExcess(q, b) \in Int /\ Cdf(q, b) \in Int
  BY ExcessType, CdfRises
<1>2. Max({b - est, 0}) \in Int
  <2>1. {b - est, 0} \subseteq Int /\ {b - est, 0} # {} /\ IsFiniteSet({b - est, 0})
    <3>1. IsFiniteSet({b - est}) /\ {b - est, 0} = {b - est} \cup {0}
      BY FS_Singleton
    <3>2. IsFiniteSet({b - est} \cup {0})
      BY <3>1, FS_AddElement
    <3> QED
      BY <3>1, <3>2
  <2> QED
    BY <2>1, MaxIsLargest
<1>3. Lambda["under"] \in Int /\ Lambda["excess"] \in Int /\ Lambda["friction"] \in Int /\ Scale \in Int
  BY OptimizerAssumption
<1> DEFINE c == Cdf(q, b)
           e == ExpectedExcess(q, b)
           f == Max({b - est, 0})
<1>4. c \in Int /\ e \in Int /\ f \in Int
  BY <1>1, <1>2
<1> HIDE DEF c, e, f
<1>5. 2 * est * Lambda["under"] * (100 * Scale - c) \in Int
  BY <1>3, <1>4
<1>6. Lambda["excess"] * e \in Int /\ 200 * Scale * Lambda["friction"] * f \in Int
  BY <1>3, <1>4
<1> QED
  BY <1>5, <1>6 DEF Score, c, e, f

\* An answer is one of the amounts on offer that meet the target, and of these
\* one with the least score, the smallest of them.
LEMMA AnswerMeetsTarget ==
    ASSUME NEW q, IsDistribution(q), NEW est \in Int, NEW step, NEW target,
           Recommend(est, q, step, target) \notin {Unreachable, TooManySteps}
    PROVE  LET answer == Recommend(est, q, step, target)
               eligible == Feasible(est, q, step, target)
           IN  /\ answer \in eligible
               /\ \A a \in eligible :
                    \/ Score(est, q, answer) < Score(est, q, a)
                    \/ Score(est, q, answer) = Score(est, q, a) /\ answer <= a
<1> DEFINE S == Feasible(est, q, step, target)
           score == [a \in S |-> Score(est, q, a)]
<1>1. Recommend(est, q, step, target) = Best(S, score) /\ S # {}
  BY DEF Recommend
<1>2. Candidates(est, q, step) \subseteq Nat \ {0} /\ IsFiniteSet(Candidates(est, q, step))
  BY CandidateFacts
<1>3. S \subseteq Candidates(est, q, step)
  BY DEF Feasible
<1>4. S \subseteq Int /\ IsFiniteSet(S)
  BY <1>2, <1>3, FS_Subset
<1>5. \A a \in S : score[a] = Score(est, q, a)
  OBVIOUS
<1>6. \A a \in S : score[a] \in Int
  BY <1>4, <1>5, ScoreType
<1> HIDE DEF S, score
<1> DEFINE best == Best(S, score)
<1>7. /\ best \in S
      /\ \A b \in S :
            \/ score[best] < score[b]
            \/ score[best] = score[b] /\ best <= b
  BY <1>1, <1>4, <1>6, BestExists
<1> HIDE DEF best
<1>8. Recommend(est, q, step, target) = best
  BY <1>1 DEF best
<1>9. \A b \in S :
         \/ Score(est, q, best) < Score(est, q, b)
         \/ Score(est, q, best) = Score(est, q, b) /\ best <= b
  BY <1>5, <1>7
<1> QED
  BY <1>7, <1>8, <1>9 DEF S

\* So an answer reaches the quantile published for its target.
LEMMA AnswerReaches ==
    ASSUME NEW q, IsDistribution(q), NEW est \in Int, NEW step, NEW target,
           Recommend(est, q, step, target) \notin {Unreachable, TooManySteps}
    PROVE  ReachesQuantile(q, target, Recommend(est, q, step, target))
<1> DEFINE answer == Recommend(est, q, step, target)
<1>1. answer \in Feasible(est, q, step, target)
  BY AnswerMeetsTarget
<1>2. Candidates(est, q, step) \subseteq Nat \ {0}
  BY CandidateFacts
<1>3. answer \in Int /\ Cdf(q, answer) >= target * Scale
  BY <1>1, <1>2 DEF Feasible
<1> HIDE DEF answer
<1>4. ReachesQuantile(q, target, answer)
  BY <1>3, TargetIsReached
<1> QED
  BY <1>4 DEF answer

-----------------------------------------------------------------------------
(* The expected excess is the area under the quantile function.             *)

LEMMA TwoAreFinite ==
    ASSUME NEW x \in Int, NEW y \in Int
    PROVE  Max({x, y}) \in {x, y} /\ Max({x, y}) >= x /\ Max({x, y}) >= y
<1>1. IsFiniteSet({x}) /\ {x, y} = {x} \cup {y}
  BY FS_Singleton
<1>2. IsFiniteSet({x} \cup {y})
  BY <1>1, FS_AddElement
<1>3. {x, y} \subseteq Int /\ {x, y} # {} /\ IsFiniteSet({x, y})
  BY <1>1, <1>2
<1>4. Max({x, y}) \in {x, y} /\ \A z \in {x, y} : z <= Max({x, y})
  BY <1>3, MaxIsLargest
<1> QED
  BY <1>4

LEMMA QuotientIsPositive ==
    ASSUME NEW n \in Nat, NEW w \in Int, w > 0
    PROVE  n \div w \in Int /\ n \div w >= 0
OBVIOUS

LEMMA ZeroFacts ==
    ASSUME NEW q, IsDistribution(q)
    PROVE  AmountAtZero(q) \in Int /\ 1 <= AmountAtZero(q) /\ AmountAtZero(q) <= q[1]
<1>1. 1 \in 1 .. Top /\ 2 \in 1 .. Top
  BY LevelFacts
<1>2. /\ Levels[1] \in Int /\ Levels[2] \in Int /\ Levels[1] >= 1 /\ Levels[1] < Levels[2]
      /\ q[1] \in Int /\ q[2] \in Int /\ q[1] <= q[2] /\ q[1] >= 1
  <2>1. Levels[1] \in Int /\ Levels[2] \in Int /\ Levels[1] >= 1
    BY <1>1, LevelsAreNumbers
  <2>2. Levels[1] < Levels[2]
    BY <1>1, LevelFacts
  <2>3. q[1] \in Nat \ {0} /\ q[2] \in Nat \ {0} /\ q[1] <= q[2]
    BY <1>1 DEF IsDistribution
  <2> QED
    BY <2>1, <2>2, <2>3
<1> DEFINE n == (q[2] - q[1]) * Levels[1]
           w == Levels[2] - Levels[1]
           x == q[1] - n \div w
<1>3. n \in Nat
  <2>1. q[2] - q[1] \in Nat /\ Levels[1] \in Nat
    BY <1>2
  <2> QED
    BY <2>1
<1>4. w \in Int /\ w > 0
  BY <1>2
<1>5. n \div w \in Int /\ n \div w >= 0
  <2> HIDE DEF n, w
  <2> QED BY <1>3, <1>4, QuotientIsPositive
<1>6. AmountAtZero(q) = Max({1, x})
  BY DEF AmountAtZero
<1> HIDE DEF n, w
<1>7. x \in Int /\ x <= q[1]
  BY <1>2, <1>5
<1> HIDE DEF x
<1> QED
  BY <1>2, <1>6, <1>7, TwoAreFinite

\* The share of Scale that one paise has between two points.
Slope(q, i) == (PointLevel(i + 1) - PointLevel(i)) * (Scale \div (Points(q)[i + 1] - Points(q)[i]))

LEMMA PointLevelFacts ==
    /\ \A i \in 0 .. Top : PointLevel(i) \in Int /\ 0 <= PointLevel(i)
    /\ \A i, j \in 0 .. Top : i <= j => PointLevel(i) <= PointLevel(j)
<1>1. Top \in Nat
  BY LevelFacts
<1>2. \A i \in 0 .. Top : i # 0 => i \in 1 .. Top
  BY <1>1
<1>3. \A i \in 0 .. Top : PointLevel(i) \in Int /\ 0 <= PointLevel(i)
  BY <1>2, LevelsAreNumbers DEF PointLevel
<1>4. ASSUME NEW i \in 0 .. Top, NEW j \in 0 .. Top, i <= j PROVE PointLevel(i) <= PointLevel(j)
  <2>1. CASE i = 0
    BY <1>3, <2>1 DEF PointLevel
  <2>2. CASE i # 0
    <3>1. i \in 1 .. Top /\ j \in 1 .. Top
      BY <1>1, <1>4, <2>2
    <3>2. i = j \/ i < j
      BY <1>4
    <3>3. PointLevel(i) = Levels[i] /\ PointLevel(j) = Levels[j]
      BY <3>1 DEF PointLevel
    <3> QED
      BY <3>1, <3>2, <3>3, LevelFacts, LevelsAreNumbers
  <2> QED
    BY <2>1, <2>2
<1> QED
  BY <1>3, <1>4

LEMMA PointFacts ==
    ASSUME NEW q, IsDistribution(q)
    PROVE  /\ Points(q)[0] = AmountAtZero(q) /\ \A i \in 1 .. Top : Points(q)[i] = q[i]
           /\ \A i \in 0 .. Top : Points(q)[i] \in Int
           /\ \A i, j \in 0 .. Top : i <= j => Points(q)[i] <= Points(q)[j]
           /\ \A i \in 0 .. Top - 1 :
                Points(q)[i] < Points(q)[i + 1] =>
                    /\ Scale \div (Points(q)[i + 1] - Points(q)[i]) \in Int
                    /\ Scale \div (Points(q)[i + 1] - Points(q)[i]) > 0
                    /\ (Points(q)[i + 1] - Points(q)[i]) * (Scale \div (Points(q)[i + 1] - Points(q)[i])) = Scale
<1>1. Top \in Nat /\ Top >= 2 /\ 1 \in 1 .. Top
  BY LevelFacts
<1>2. Points(q)[0] = AmountAtZero(q) /\ \A i \in 1 .. Top : Points(q)[i] = q[i]
  <2>1. 0 \in 0 .. Top /\ \A i \in 1 .. Top : i \in 0 .. Top /\ i # 0
    BY <1>1
  <2> QED
    BY <2>1 DEF Points
<1>3. \A i \in 0 .. Top : i = 0 \/ i \in 1 .. Top
  BY <1>1
<1>4. AmountAtZero(q) \in Int /\ AmountAtZero(q) <= q[1] /\ \A i \in 1 .. Top : q[i] \in Int
  <2>1. \A i \in 1 .. Top : q[i] \in Int
    BY DEF IsDistribution
  <2> QED
    BY <2>1, ZeroFacts
<1>5. \A i \in 0 .. Top : Points(q)[i] \in Int
  BY <1>2, <1>3, <1>4
<1>6. ASSUME NEW i \in 0 .. Top, NEW j \in 0 .. Top, i <= j
      PROVE  Points(q)[i] <= Points(q)[j]
  <2>1. CASE i = 0 /\ j = 0
    BY <1>5, <2>1
  <2>2. CASE i = 0 /\ j # 0
    <3>1. j \in 1 .. Top /\ 1 <= j
      BY <1>3, <2>2
    <3>2. q[1] <= q[j]
      BY <1>1, <3>1 DEF IsDistribution
    <3> QED
      BY <1>1, <1>2, <1>4, <2>2, <3>1, <3>2
  <2>3. CASE i # 0
    <3>1. i \in 1 .. Top /\ j \in 1 .. Top
      BY <1>1, <1>6, <2>3
    <3> QED
      BY <1>2, <1>6, <3>1 DEF IsDistribution
  <2> QED
    BY <2>1, <2>2, <2>3
<1>7. ASSUME NEW i \in 0 .. Top - 1, Points(q)[i] < Points(q)[i + 1]
      PROVE  Scale % (Points(q)[i + 1] - Points(q)[i]) = 0
  <2>1. CASE i = 0
    <3>1. Points(q)[i] = AmountAtZero(q) /\ Points(q)[i + 1] = q[1]
      BY <1>1, <1>2, <2>1
    <3> QED
      BY <1>7, <3>1 DEF IsDistribution
  <2>2. CASE i # 0
    <3>1. i \in 1 .. Top /\ i + 1 \in 1 .. Top
      BY <1>1, <2>2
    <3> QED
      BY <1>2, <1>7, <3>1 DEF IsDistribution
  <2> QED
    BY <2>1, <2>2
<1>8. ASSUME NEW i \in 0 .. Top - 1, Points(q)[i] < Points(q)[i + 1]
      PROVE  /\ Scale \div (Points(q)[i + 1] - Points(q)[i]) \in Int
             /\ Scale \div (Points(q)[i + 1] - Points(q)[i]) > 0
             /\ (Points(q)[i + 1] - Points(q)[i]) * (Scale \div (Points(q)[i + 1] - Points(q)[i])) = Scale
  <2> DEFINE d == Points(q)[i + 1] - Points(q)[i]
  <2>1. i \in 0 .. Top /\ i + 1 \in 0 .. Top
    BY <1>1
  <2>2. d \in Int /\ d > 0
    BY <1>5, <1>8, <2>1
  <2>3. Scale \in Int /\ Scale > 0
    BY OptimizerAssumption
  <2>4. Scale % d = 0
    BY <1>7, <1>8
  <2> HIDE DEF d
  <2>5. Scale \div d \in Int /\ Scale \div d > 0 /\ d * (Scale \div d) = Scale
    BY <2>2, <2>3, <2>4, DividesExactly
  <2> QED
    BY <2>5 DEF d
<1> QED
  BY <1>2, <1>5, <1>6, <1>8

\* Between the point before and the point after, the probability rises evenly.
LEMMA ProbabilityAt ==
    ASSUME NEW q, IsDistribution(q), NEW k \in 0 .. Top, NEW y \in Int, NEW closed \in BOOLEAN,
           \A i \in 0 .. Top : (Points(q)[i] < y \/ (closed /\ Points(q)[i] = y)) <=> i <= k
    PROVE  ProbabilityUpTo(q, y, closed) =
                PointLevel(k) * Scale + (IF k < Top THEN (y - Points(q)[k]) * Slope(q, k) ELSE 0)
<1> DEFINE point == Points(q)
           reached == {i \in 0 .. Top : point[i] < y \/ (closed /\ point[i] = y)}
           Along(i) == IF i < Top /\ point[i + 1] > point[i] /\ point[i + 1] >= y
                       THEN (y - point[i]) * Slope(q, i) ELSE 0
           Value(i) == PointLevel(i) * Scale + Along(i)
           S == {0} \cup {Value(i) : i \in reached}
<1>1. ProbabilityUpTo(q, y, closed) = Max(S)
  BY DEF ProbabilityUpTo, Slope
<1>2. Top \in Nat /\ Top >= 2 /\ Scale \in Int /\ Scale > 0
  BY LevelFacts, OptimizerAssumption
<1>3. reached = 0 .. k
  BY <1>2
<1>4. /\ \A i \in 0 .. Top : point[i] \in Int /\ PointLevel(i) \in Int /\ 0 <= PointLevel(i)
      /\ \A i, j \in 0 .. Top : i <= j => point[i] <= point[j] /\ PointLevel(i) <= PointLevel(j)
  BY PointFacts, PointLevelFacts
<1>5. \A i \in 0 .. Top - 1 : point[i] < point[i + 1] =>
         /\ Slope(q, i) \in Int /\ Slope(q, i) >= 0
         /\ (point[i + 1] - point[i]) * Slope(q, i) = (PointLevel(i + 1) - PointLevel(i)) * Scale
  <2> SUFFICES ASSUME NEW i \in 0 .. Top - 1, point[i] < point[i + 1]
               PROVE  /\ Slope(q, i) \in Int /\ Slope(q, i) >= 0
                      /\ (point[i + 1] - point[i]) * Slope(q, i) = (PointLevel(i + 1) - PointLevel(i)) * Scale
    OBVIOUS
  <2> DEFINE d == point[i + 1] - point[i]
             s == Scale \div d
             l == PointLevel(i + 1) - PointLevel(i)
  <2>1. s \in Int /\ s > 0 /\ d * s = Scale
    BY PointFacts
  <2>2. i \in 0 .. Top /\ i + 1 \in 0 .. Top /\ i <= i + 1
    BY <1>2
  <2>3. d \in Int /\ l \in Int /\ l >= 0
    BY <1>4, <2>2
  <2>4. Slope(q, i) = l * s
    BY DEF Slope
  <2> HIDE DEF d, s, l
  <2>5. l * s \in Int /\ l * s >= 0
    BY <2>1, <2>3
  <2>6. d * (l * s) = l * (d * s)
    BY <2>1, <2>3
  <2>7. d * Slope(q, i) = l * Scale
    BY <2>1, <2>4, <2>6
  <2> QED
    BY <2>4, <2>5, <2>7 DEF d, l
<1> HIDE DEF point
<1>6. k < Top => point[k] < point[k + 1] /\ point[k + 1] >= y /\ y - point[k] >= 0
  <2> SUFFICES ASSUME k < Top PROVE point[k] < point[k + 1] /\ point[k + 1] >= y /\ y - point[k] >= 0
    OBVIOUS
  <2>1. k + 1 \in 0 .. Top /\ ~(k + 1 <= k) /\ k <= k
    BY <1>2
  <2>2. ~(point[k + 1] < y \/ (closed /\ point[k + 1] = y))
    BY <2>1 DEF point
  <2>3. point[k] < y \/ (closed /\ point[k] = y)
    BY <2>1 DEF point
  <2>4. point[k] \in Int /\ point[k + 1] \in Int
    BY <1>4, <2>1
  <2> QED
    BY <2>2, <2>3, <2>4
<1>7. Value(k) = PointLevel(k) * Scale + (IF k < Top THEN (y - point[k]) * Slope(q, k) ELSE 0)
  BY <1>6
<1>8. Value(k) \in Int /\ Value(k) >= PointLevel(k) * Scale /\ PointLevel(k) * Scale \in Int /\ PointLevel(k) * Scale >= 0
  <2>1. PointLevel(k) * Scale \in Int /\ PointLevel(k) * Scale >= 0
    <3>1. PointLevel(k) \in Int /\ PointLevel(k) >= 0
      BY <1>4
    <3> QED
      BY <1>2, <3>1
  <2>2. CASE k < Top
    <3> DEFINE t == y - point[k]
               s == Slope(q, k)
    <3>1. t \in Int /\ t >= 0 /\ s \in Int /\ s >= 0
      <4>1. k \in 0 .. Top - 1 /\ k \in 0 .. Top
        BY <1>2, <2>2
      <4>2. point[k] \in Int
        BY <1>4, <4>1
      <4> QED
        BY <1>5, <1>6, <2>2, <4>1, <4>2
    <3> HIDE DEF t, s
    <3>2. t * s \in Int /\ t * s >= 0
      BY <3>1
    <3>3. Value(k) = PointLevel(k) * Scale + t * s
      BY <1>7, <2>2 DEF t, s
    <3> HIDE DEF Value
    <3> QED
      BY <2>1, <3>2, <3>3
  <2>3. CASE ~(k < Top)
    BY <1>7, <2>1, <2>3
  <2> QED
    BY <2>2, <2>3
<1>9. ASSUME NEW i \in 0 .. k, i # k PROVE Value(i) \in Int /\ Value(i) <= PointLevel(k) * Scale
  <2>1. i \in 0 .. Top - 1 /\ i \in 0 .. Top /\ i + 1 \in 0 .. Top /\ i + 1 <= k /\ i <= k /\ k \in 0 .. Top
    BY <1>2, <1>9
  <2>2. point[i + 1] < y \/ (closed /\ point[i + 1] = y)
    BY <2>1 DEF point
  <2>3. PointLevel(i) <= PointLevel(k) /\ PointLevel(i + 1) <= PointLevel(k)
    BY <1>4, <2>1
  <2>4. /\ PointLevel(i) * Scale \in Int /\ PointLevel(i) * Scale <= PointLevel(k) * Scale
        /\ PointLevel(i + 1) * Scale \in Int /\ PointLevel(i + 1) * Scale <= PointLevel(k) * Scale
    <3>1. PointLevel(i) \in Int /\ PointLevel(i + 1) \in Int /\ PointLevel(k) \in Int
      BY <1>4, <2>1
    <3> DEFINE a == PointLevel(i)
               b == PointLevel(i + 1)
               c == PointLevel(k)
    <3>2. a \in Int /\ b \in Int /\ c \in Int /\ a <= c /\ b <= c
      BY <2>3, <3>1
    <3> HIDE DEF a, b, c
    <3>3. a * Scale \in Int /\ b * Scale \in Int /\ a * Scale <= c * Scale /\ b * Scale <= c * Scale
      BY <1>2, <3>2
    <3> QED
      BY <3>3 DEF a, b, c
  <2>5. CASE i < Top /\ point[i + 1] > point[i] /\ point[i + 1] >= y
    <3>1. point[i + 1] \in Int /\ point[i] \in Int
      BY <1>4, <2>1
    <3>2. point[i + 1] = y
      BY <2>2, <2>5, <3>1
    <3> DEFINE a == PointLevel(i)
               b == PointLevel(i + 1)
               v == (y - point[i]) * Slope(q, i)
    <3>3. v = (b - a) * Scale
      BY <1>5, <2>1, <2>5, <3>1, <3>2
    <3>4. a \in Int /\ b \in Int
      BY <1>4, <2>1
    <3>5. Value(i) = a * Scale + v
      BY <2>5
    <3> HIDE DEF a, b, v, Value
    <3>6. a * Scale + (b - a) * Scale = b * Scale
      BY <1>2, <3>4
    <3>7. Value(i) = b * Scale
      BY <3>3, <3>5, <3>6
    <3> QED
      BY <2>4, <3>7 DEF b
  <2>6. CASE ~(i < Top /\ point[i + 1] > point[i] /\ point[i + 1] >= y)
    BY <2>4, <2>6
  <2> QED
    BY <2>5, <2>6
<1>10. S \subseteq Int /\ IsFiniteSet(S) /\ Value(k) \in S /\ \A x \in S : x <= Value(k)
  <2>1. \A i \in 0 .. k : Value(i) \in Int /\ Value(i) <= Value(k)
    <3> SUFFICES ASSUME NEW i \in 0 .. k PROVE Value(i) \in Int /\ Value(i) <= Value(k)
      OBVIOUS
    <3> HIDE DEF Value
    <3> QED BY <1>8, <1>9
  <2>2. k \in 0 .. k
    BY <1>2
  <2> HIDE DEF Value
  <2> DEFINE V == {Value(i) : i \in 0 .. k}
  <2>3. S = V \cup {0}
    BY <1>3
  <2>4. IsFiniteSet(0 .. k)
    BY FS_Interval
  <2>5. [i \in 0 .. k |-> Value(i)] \in Surjection(0 .. k, V)
    BY DEF Surjection
  <2>6. IsFiniteSet(V)
    BY <2>4, <2>5, FS_Surjection
  <2>7. IsFiniteSet(V \cup {0})
    BY <2>6, FS_AddElement
  <2>8. Value(k) \in V /\ \A x \in V : x \in Int /\ x <= Value(k)
    BY <2>1, <2>2
  <2>9. 0 <= Value(k) /\ Value(k) \in Int
    BY <1>8
  <2> HIDE DEF V, S
  <2> QED
    BY <2>3, <2>7, <2>8, <2>9
<1> HIDE DEF S, Value
<1>11. S # {}
  BY <1>10
<1>12. Max(S) \in S /\ \A x \in S : x <= Max(S)
  BY <1>10, <1>11, MaxIsLargest
<1>13. Max(S) = Value(k)
  <2>1. Max(S) <= Value(k) /\ Value(k) <= Max(S) /\ Max(S) \in Int /\ Value(k) \in Int
    BY <1>10, <1>12
  <2> QED
    BY <2>1
<1> QED
  BY <1>1, <1>7, <1>13 DEF point

\* What one paise more adds to the area over one segment.
LEMMA SegmentGrows ==
    ASSUME NEW width \in Int, NEW lower \in Int, NEW upper \in Int, lower <= upper, NEW x \in Int,
           lower < upper => /\ Scale \div (upper - lower) \in Int
                            /\ (upper - lower) * (Scale \div (upper - lower)) = Scale
    PROVE  SegmentExcess(width, lower, upper, x + 1) - SegmentExcess(width, lower, upper, x) =
                IF upper <= x THEN 2 * (width * Scale)
                ELSE IF lower <= x THEN (2 * (x - lower) + 1) * (width * (Scale \div (upper - lower)))
                ELSE 0
<1> DEFINE s == Scale \div (upper - lower)
<1>0. Scale \in Int /\ x + 1 \in Int
  BY OptimizerAssumption
<1>1. CASE upper <= x
  <2>1. ~(x < lower) /\ ~(x + 1 < lower) /\ x >= upper /\ x + 1 >= upper
    BY <1>1
  <2>2. /\ SegmentExcess(width, lower, upper, x) = width * Scale * (2 * x - lower - upper)
        /\ SegmentExcess(width, lower, upper, x + 1) = width * Scale * (2 * (x + 1) - lower - upper)
    BY <2>1 DEF SegmentExcess
  <2> DEFINE a == width * Scale
             e == 2 * x - lower - upper
  <2>3. a \in Int /\ e \in Int /\ 2 * (x + 1) - lower - upper = e + 2
    BY <1>0
  <2> HIDE DEF a, e
  <2>4. a * (e + 2) - a * e = 2 * a
    BY <2>3
  <2> QED
    BY <1>1, <2>2, <2>3, <2>4 DEF a, e
<1>2. CASE x < upper /\ lower <= x
  <2>0. s \in Int /\ (upper - lower) * s = Scale /\ lower < upper
    BY <1>2
  <2> HIDE DEF s
  <2> DEFINE t == x - lower
  <2>1. SegmentExcess(width, lower, upper, x) = width * t * t * s
    BY <1>2, <2>0 DEF SegmentExcess, s
  <2>2. SegmentExcess(width, lower, upper, x + 1) = width * (t + 1) * (t + 1) * s
    <3>1. ~(x + 1 < lower) /\ upper # lower /\ x + 1 - lower = t + 1
      BY <1>2
    <3>2. CASE x + 1 < upper
      BY <1>0, <3>1, <3>2 DEF SegmentExcess, s
    <3>3. CASE ~(x + 1 < upper)
      <4>1. upper = x + 1 /\ upper - lower = t + 1
        BY <1>2, <3>3
      <4>2. SegmentExcess(width, lower, upper, x + 1) = width * Scale * (2 * (x + 1) - lower - upper)
        BY <1>0, <3>1, <4>1 DEF SegmentExcess
      <4>3. 2 * (x + 1) - lower - upper = t + 1 /\ t \in Int
        BY <4>1
      <4>4. Scale = (t + 1) * s
        BY <2>0, <4>1
      <4> HIDE DEF t
      <4>5. width * ((t + 1) * s) * (t + 1) = width * (t + 1) * (t + 1) * s
        BY <2>0, <4>3
      <4> QED
        BY <4>2, <4>3, <4>4, <4>5
    <3> QED
      BY <3>2, <3>3
  <2>3. t \in Int
    OBVIOUS
  <2> HIDE DEF t
  <2>4. width * (t + 1) * (t + 1) * s - width * t * t * s = (2 * t + 1) * (width * s)
    BY <2>0, <2>3
  <2>5. SegmentExcess(width, lower, upper, x + 1) - SegmentExcess(width, lower, upper, x) = (2 * t + 1) * (width * s)
    BY <2>1, <2>2, <2>4
  <2> QED
    BY <1>2, <2>5 DEF t, s
<1>3. CASE x < lower
  <2>1. SegmentExcess(width, lower, upper, x) = 0
    BY <1>3 DEF SegmentExcess
  <2>2. SegmentExcess(width, lower, upper, x + 1) = 0
    <3>1. CASE x + 1 < lower
      BY <1>0, <3>1 DEF SegmentExcess
    <3>2. CASE x + 1 = lower /\ upper = lower
      <4>1. 2 * (x + 1) - lower - upper = 0 /\ ~(x + 1 < lower)
        BY <3>2
      <4>2. SegmentExcess(width, lower, upper, x + 1) = width * Scale * (2 * (x + 1) - lower - upper)
        BY <3>2, <4>1 DEF SegmentExcess
      <4>3. width * Scale \in Int
        BY <1>0
      <4>4. (width * Scale) * 0 = 0
        BY <4>3
      <4> QED
        BY <4>1, <4>2, <4>4
    <3>3. CASE x + 1 = lower /\ lower < upper
      <4>1. (x + 1) - lower = 0 /\ ~(x + 1 < lower) /\ upper # lower /\ ~(x + 1 >= upper)
        BY <3>3
      <4>2. SegmentExcess(width, lower, upper, x + 1) = width * ((x + 1) - lower) * ((x + 1) - lower) * s
        BY <4>1 DEF SegmentExcess
      <4>3. s \in Int
        BY <3>3
      <4> HIDE DEF s
      <4>4. width * 0 * 0 * s = 0
        BY <4>3
      <4> QED
        BY <4>1, <4>2, <4>4
    <3> QED
      BY <1>3, <3>1, <3>2, <3>3
  <2> QED
    BY <1>3, <2>1, <2>2
<1> QED
  BY <1>1, <1>2, <1>3

LEMMA SlopeIsInt ==
    ASSUME NEW q, IsDistribution(q), NEW i \in 0 .. Top - 1, Points(q)[i] < Points(q)[i + 1]
    PROVE  Slope(q, i) \in Int
<1>1. Scale \div (Points(q)[i + 1] - Points(q)[i]) \in Int
  BY PointFacts
<1>2. i \in 0 .. Top /\ i + 1 \in 0 .. Top
  BY LevelFacts
<1>3. PointLevel(i) \in Int /\ PointLevel(i + 1) \in Int
  BY <1>2, PointLevelFacts
<1> DEFINE s == Scale \div (Points(q)[i + 1] - Points(q)[i])
           l == PointLevel(i + 1) - PointLevel(i)
<1>4. s \in Int /\ l \in Int /\ Slope(q, i) = l * s
  BY <1>1, <1>3 DEF Slope
<1> HIDE DEF s, l
<1> QED
  BY <1>4

\* The last point that is no larger than an amount.
LEMMA LastPointExists ==
    ASSUME NEW q, IsDistribution(q), NEW x \in Int, AmountAtZero(q) <= x
    PROVE  \E k \in 0 .. Top : \A i \in 0 .. Top : Points(q)[i] <= x <=> i <= k
<1> DEFINE S == {i \in 0 .. Top : Points(q)[i] <= x}
<1>1. Top \in Nat
  BY LevelFacts
<1>2. IsFiniteSet(0 .. Top)
  BY <1>1, FS_Interval
<1>3. S \subseteq Int /\ IsFiniteSet(S)
  BY <1>1, <1>2, FS_Subset
<1>4. 0 \in S
  <2>1. 0 \in 0 .. Top
    BY <1>1
  <2> QED
    BY <2>1, PointFacts
<1>5. Max(S) \in S /\ \A i \in S : i <= Max(S)
  <2> HIDE DEF S
  <2>1. S # {}
    BY <1>4
  <2> QED BY <1>3, <2>1, MaxIsLargest
<1> DEFINE k == Max(S)
<1> HIDE DEF k
<1>6. k \in S /\ \A i \in S : i <= k
  BY <1>5 DEF k
<1>7. k \in 0 .. Top
  BY <1>6
<1>8. ASSUME NEW i \in 0 .. Top PROVE Points(q)[i] <= x <=> i <= k
  <2>1. Points(q)[i] <= x => i <= k
    BY <1>6
  <2>2. i <= k => Points(q)[i] <= x
    <3>1. Points(q)[k] <= x
      BY <1>6
    <3>2. i <= k => Points(q)[i] <= Points(q)[k]
      BY <1>7, PointFacts
    <3>3. Points(q)[i] \in Int /\ Points(q)[k] \in Int
      BY <1>7, PointFacts
    <3> QED
      BY <3>1, <3>2, <3>3
  <2> QED
    BY <2>1, <2>2
<1> QED
  BY <1>7, <1>8

\* One paise more adds the probabilities at its two ends.
LEMMA ExcessGrows ==
    ASSUME NEW q, IsDistribution(q), NEW x \in Int, AmountAtZero(q) <= x
    PROVE  ExpectedExcess(q, x + 1) - ExpectedExcess(q, x) =
                ProbabilityUpTo(q, x, TRUE) + ProbabilityUpTo(q, x + 1, FALSE)
<1> DEFINE point == Points(q)
<1>1. PICK k \in 0 .. Top : \A i \in 0 .. Top : point[i] <= x <=> i <= k
  BY LastPointExists
<1>2. Top \in Nat /\ Top >= 2 /\ Scale \in Int
  BY LevelFacts, OptimizerAssumption
<1>3. \A i \in 0 .. Top : point[i] \in Int /\ PointLevel(i) \in Int
  BY PointFacts, PointLevelFacts
<1> DEFINE a == PointLevel(k) * Scale
           s == Slope(q, k)
           t == x - point[k]
           r == IF k < Top THEN (2 * t + 1) * s ELSE 0
<1>4. a \in Int /\ t \in Int /\ (k < Top => s \in Int)
  <2>1. PointLevel(k) \in Int /\ point[k] \in Int
    BY <1>3
  <2>2. a \in Int /\ t \in Int
    BY <1>2, <2>1
  <2>3. ASSUME k < Top PROVE s \in Int
    <3>1. k \in 0 .. Top - 1 /\ k + 1 \in 0 .. Top /\ k <= k /\ ~(k + 1 <= k)
      BY <1>2, <2>3
    <3>2. point[k] <= x /\ ~(point[k + 1] <= x)
      BY <1>1, <3>1
    <3>3. point[k] \in Int /\ point[k + 1] \in Int
      BY <1>3, <3>1
    <3>4. point[k] < point[k + 1]
      BY <3>2, <3>3
    <3> QED
      BY <3>1, <3>4, SlopeIsInt
  <2> QED
    BY <2>2, <2>3
<1>5. ProbabilityUpTo(q, x, TRUE) + ProbabilityUpTo(q, x + 1, FALSE) = 2 * a + r
  <2>1. \A i \in 0 .. Top :
           /\ (point[i] < x \/ (TRUE /\ point[i] = x)) <=> i <= k
           /\ (point[i] < x + 1 \/ (FALSE /\ point[i] = x + 1)) <=> i <= k
    <3> HIDE DEF point
    <3> QED BY <1>1, <1>3
  <2>2. ProbabilityUpTo(q, x, TRUE) = a + (IF k < Top THEN (x - point[k]) * s ELSE 0)
    BY <2>1, ProbabilityAt
  <2>3. x + 1 \in Int
    OBVIOUS
  <2>4. ProbabilityUpTo(q, x + 1, FALSE) = a + (IF k < Top THEN ((x + 1) - point[k]) * s ELSE 0)
    BY <2>1, <2>3, ProbabilityAt
  <2>5. point[k] \in Int
    BY <1>3
  <2> HIDE DEF a, s, point
  <2>6. CASE k < Top
    <3>1. (x - point[k]) = t /\ (x + 1) - point[k] = t + 1
      BY <2>5
    <3> HIDE DEF t
    <3>2. s \in Int /\ t \in Int
      BY <1>4, <2>6
    <3>3. t * s + (t + 1) * s = (2 * t + 1) * s /\ t * s \in Int /\ (t + 1) * s \in Int
      BY <3>2
    <3>4. ProbabilityUpTo(q, x, TRUE) = a + t * s /\ ProbabilityUpTo(q, x + 1, FALSE) = a + (t + 1) * s
      BY <2>2, <2>4, <2>6, <3>1
    <3>5. r = (2 * t + 1) * s
      BY <2>6
    <3> HIDE DEF r
    <3> DEFINE u == t * s
               v == (t + 1) * s
    <3>6. u \in Int /\ v \in Int /\ u + v = r
      BY <3>3, <3>5
    <3>7. ProbabilityUpTo(q, x, TRUE) = a + u /\ ProbabilityUpTo(q, x + 1, FALSE) = a + v
      BY <3>4
    <3> HIDE DEF u, v
    <3>8. (a + u) + (a + v) = 2 * a + r
      BY <1>4, <3>6
    <3> QED
      BY <3>7, <3>8
  <2>7. CASE ~(k < Top)
    <3>1. ProbabilityUpTo(q, x, TRUE) = a + 0 /\ ProbabilityUpTo(q, x + 1, FALSE) = a + 0 /\ r = 0
      BY <2>2, <2>4, <2>7
    <3>2. (a + 0) + (a + 0) = 2 * a + 0
      BY <1>4
    <3> HIDE DEF r
    <3> QED
      BY <3>1, <3>2
  <2> QED
    BY <2>6, <2>7
<1> DEFINE Width(i) == PointLevel(i + 1) - PointLevel(i)
           Grown(i) == IF i < k THEN 2 * (Width(i) * Scale) ELSE IF i = k THEN (2 * t + 1) * s ELSE 0
<1>6. ASSUME NEW i \in 0 .. Top - 1
      PROVE  /\ SegmentExcess(Width(i), point[i], point[i + 1], x + 1) \in Int
             /\ SegmentExcess(Width(i), point[i], point[i + 1], x) \in Int
             /\ SegmentExcess(Width(i), point[i], point[i + 1], x + 1)
                    - SegmentExcess(Width(i), point[i], point[i + 1], x) = Grown(i)
  <2>1. i \in 0 .. Top /\ i + 1 \in 0 .. Top /\ i <= i + 1 /\ x + 1 \in Int
    BY <1>2
  <2>2. Width(i) \in Int /\ point[i] \in Int /\ point[i + 1] \in Int
    BY <1>3, <2>1
  <2>3. point[i] <= point[i + 1]
    BY <2>1, PointFacts
  <2>4. point[i] < point[i + 1] =>
            /\ Scale \div (point[i + 1] - point[i]) \in Int
            /\ (point[i + 1] - point[i]) * (Scale \div (point[i + 1] - point[i])) = Scale
    BY PointFacts
  <2>5. /\ point[i] <= x <=> i <= k
        /\ point[i + 1] <= x <=> i + 1 <= k
    BY <1>1, <2>1
  <2> DEFINE w == Width(i)
             l == point[i]
             u == point[i + 1]
  <2>6. i = k => (2 * (x - l) + 1) * (w * (Scale \div (u - l))) = (2 * t + 1) * s
    BY DEF Slope
  <2> HIDE DEF point, Width
  <2>7. w \in Int /\ l \in Int /\ u \in Int /\ l <= u
    BY <2>2, <2>3
  <2>8. l < u => Scale \div (u - l) \in Int /\ (u - l) * (Scale \div (u - l)) = Scale
    BY <2>4
  <2>9. (l <= x <=> i <= k) /\ (u <= x <=> i + 1 <= k)
    BY <2>5
  <2> HIDE DEF w, l, u, s, t
  <2>10. SegmentExcess(w, l, u, x + 1) - SegmentExcess(w, l, u, x) =
                IF u <= x THEN 2 * (w * Scale)
                ELSE IF l <= x THEN (2 * (x - l) + 1) * (w * (Scale \div (u - l)))
                ELSE 0
    BY <2>7, <2>8, SegmentGrows
  <2>11. SegmentExcess(w, l, u, x + 1) \in Int /\ SegmentExcess(w, l, u, x) \in Int
    BY <2>1, <2>7, SegmentExcessType
  <2>12. (IF u <= x THEN 2 * (w * Scale)
          ELSE IF l <= x THEN (2 * (x - l) + 1) * (w * (Scale \div (u - l)))
          ELSE 0)
         = (IF i < k THEN 2 * (w * Scale) ELSE IF i = k THEN (2 * t + 1) * s ELSE 0)
    <3>1. (u <= x <=> i < k) /\ (l <= x <=> i <= k) /\ i \in Int /\ k \in Int
      BY <2>9
    <3>2. CASE i < k
      BY <3>1, <3>2
    <3>3. CASE i = k
      BY <2>6, <3>1, <3>3
    <3>4. CASE i > k
      BY <3>1, <3>4
    <3> QED
      BY <3>1, <3>2, <3>3, <3>4
  <2> QED
    BY <2>10, <2>11, <2>12 DEF w, l, u
<1>7. /\ SegmentExcess(Levels[1], AmountAtZero(q), q[1], x + 1) \in Int
      /\ SegmentExcess(Levels[1], AmountAtZero(q), q[1], x) \in Int
      /\ SegmentExcess(Levels[1], AmountAtZero(q), q[1], x + 1)
            - SegmentExcess(Levels[1], AmountAtZero(q), q[1], x) = Grown(0)
  <2>1. 0 \in 0 .. Top - 1 /\ 1 \in 1 .. Top /\ 0 + 1 = 1
    BY <1>2
  <2>2. Width(0) = Levels[1]
    <3>1. PointLevel(0) = 0 /\ PointLevel(1) = Levels[1] /\ Levels[1] \in Int
      BY <2>1, LevelsAreNumbers DEF PointLevel
    <3> QED
      BY <2>1, <3>1
  <2>3. point[0] = AmountAtZero(q) /\ point[0 + 1] = q[1]
    BY <2>1, PointFacts
  <2> HIDE DEF point, Width, Grown
  <2> QED
    BY <1>6, <2>1, <2>2, <2>3
<1> DEFINE Area(b) == [i \in 1 .. Top - 1 |-> SegmentExcess(Levels[i + 1] - Levels[i], q[i], q[i + 1], b)]
           grown == [i \in 1 .. Top - 1 |-> Area(x + 1)[i] - Area(x)[i]]
           S == 1 .. Top - 1
<1>8. IsFiniteSet(S)
  <2>1. 1 \in Int /\ Top - 1 \in Int
    BY <1>2
  <2> QED
    BY <2>1, FS_Interval
<1>9. \A i \in S : /\ Area(x + 1)[i] \in Int /\ Area(x)[i] \in Int
                     /\ grown[i] = Area(x + 1)[i] - Area(x)[i]
                     /\ grown[i] = Grown(i)
  <2> SUFFICES ASSUME NEW i \in S
               PROVE  /\ Area(x + 1)[i] \in Int /\ Area(x)[i] \in Int
                      /\ grown[i] = Area(x + 1)[i] - Area(x)[i]
                      /\ grown[i] = Grown(i)
    OBVIOUS
  <2>1. i \in 0 .. Top - 1 /\ i \in 1 .. Top /\ i + 1 \in 1 .. Top /\ i # 0 /\ i + 1 # 0
    BY <1>2
  <2>2. Width(i) = Levels[i + 1] - Levels[i]
    BY <2>1 DEF PointLevel
  <2>3. point[i] = q[i] /\ point[i + 1] = q[i + 1]
    BY <2>1, PointFacts
  <2>4. /\ Area(x + 1)[i] = SegmentExcess(Width(i), point[i], point[i + 1], x + 1)
        /\ Area(x)[i] = SegmentExcess(Width(i), point[i], point[i + 1], x)
        /\ grown[i] = Area(x + 1)[i] - Area(x)[i]
    BY <2>2, <2>3
  <2> HIDE DEF Area, grown, Grown, point, Width
  <2> QED
    BY <1>6, <2>1, <2>4
<1>10. /\ UpperExcess(q, x + 1) = SumOver(Area(x + 1), S)
       /\ UpperExcess(q, x) = SumOver(Area(x), S)
  <2>1. UpperExcess(q, x + 1) = SumOver(Area(x + 1), S)
    BY UpperIsSum
  <2>2. UpperExcess(q, x) = SumOver(Area(x), S)
    BY UpperIsSum
  <2> QED
    BY <2>1, <2>2
<1>11. SumOver(grown, S) = SumOver(Area(x + 1), S) - SumOver(Area(x), S)
  <2> HIDE DEF Area, grown, Grown, S
  <2> QED BY <1>8, <1>9, SumMinus
<1> DEFINE f == [i \in 1 .. Top |-> IF i <= k THEN 2 * (PointLevel(i) * Scale) ELSE 2 * a + r]
<1>12. \A i \in 1 .. Top : f[i] \in Int
  <2> SUFFICES ASSUME NEW i \in 1 .. Top PROVE f[i] \in Int
    OBVIOUS
  <2>1. r \in Int
    <3> HIDE DEF t, s
    <3>1. CASE k < Top
      BY <1>4, <3>1
    <3>2. CASE ~(k < Top)
      BY <3>2
    <3> QED
      BY <3>1, <3>2
  <2>2. PointLevel(i) \in Int
    BY <1>2, <1>3
  <2> HIDE DEF r, a
  <2>3. 2 * a + r \in Int /\ 2 * (PointLevel(i) * Scale) \in Int
    BY <1>2, <1>4, <2>1, <2>2
  <2> QED
    BY <2>3
<1>13. \A i \in 1 .. Top - 1 : grown[i] = f[i + 1] - f[i]
  <2> SUFFICES ASSUME NEW i \in 1 .. Top - 1 PROVE grown[i] = f[i + 1] - f[i]
    OBVIOUS
  <2>1. grown[i] = Grown(i)
    BY <1>9
  <2>2. i \in 1 .. Top /\ i + 1 \in 1 .. Top /\ i \in Int /\ k \in Int /\ i \in 0 .. Top /\ i + 1 \in 0 .. Top
    BY <1>2
  <2>3. f[i + 1] \in Int /\ f[i] \in Int
    BY <1>12, <2>2
  <2>4. CASE i < k
    <3>1. f[i + 1] = 2 * (PointLevel(i + 1) * Scale) /\ f[i] = 2 * (PointLevel(i) * Scale)
      BY <2>2, <2>4
    <3>2. Grown(i) = 2 * ((PointLevel(i + 1) - PointLevel(i)) * Scale)
      BY <2>4
    <3>3. PointLevel(i + 1) \in Int /\ PointLevel(i) \in Int
      BY <1>3, <2>2
    <3> HIDE DEF f, grown, Grown
    <3> DEFINE c == PointLevel(i + 1)
               d == PointLevel(i)
    <3> HIDE DEF c, d
    <3>4. 2 * ((c - d) * Scale) = 2 * (c * Scale) - 2 * (d * Scale)
      <4>1. c \in Int /\ d \in Int
        BY <3>3 DEF c, d
      <4> QED
        BY <1>2, <4>1
    <3>5. f[i + 1] - f[i] = 2 * (c * Scale) - 2 * (d * Scale)
      BY <3>1 DEF c, d
    <3>6. grown[i] = 2 * ((c - d) * Scale)
      BY <2>1, <3>2 DEF c, d
    <3> QED
      BY <3>4, <3>5, <3>6
  <2>5. CASE i = k
    <3>1. k < Top /\ i <= k /\ ~(i + 1 <= k)
      BY <1>2, <2>2, <2>5
    <3>2. f[i + 1] = 2 * a + r /\ f[i] = 2 * a
      BY <2>2, <2>5, <3>1
    <3>3. r = (2 * t + 1) * s /\ Grown(i) = (2 * t + 1) * s
      BY <2>5, <3>1
    <3> HIDE DEF f, grown, Grown, r, s, t, a
    <3>4. r = f[i + 1] - f[i]
      <4>1. r \in Int
        <5>1. s \in Int /\ t \in Int
          BY <1>4, <3>1
        <5> QED
          BY <3>3, <5>1
      <4> QED
        BY <1>4, <3>2, <4>1
    <3> QED
      BY <2>1, <3>3, <3>4
  <2>6. CASE i > k
    <3>1. ~(i <= k) /\ ~(i + 1 <= k)
      BY <2>2, <2>6
    <3>2. f[i + 1] = f[i]
      BY <2>2, <3>1
    <3>3. Grown(i) = 0
      BY <2>2, <2>6
    <3> HIDE DEF f, grown, Grown
    <3> QED
      BY <2>1, <2>3, <3>2, <3>3
  <2> QED
    BY <2>2, <2>4, <2>5, <2>6
<1>14. SumOver(grown, S) = f[Top] - f[1]
  <2>1. 1 \in Int /\ Top \in Int /\ 1 <= Top
    BY <1>2
  <2> HIDE DEF f, grown
  <2> QED BY <1>12, <1>13, <2>1, SumOfSteps
<1>15. Grown(0) + (f[Top] - f[1]) = 2 * a + r
  <2>1. 1 \in 1 .. Top /\ Top \in 1 .. Top /\ k \in Int /\ k >= 0 /\ k <= Top
    BY <1>2
  <2>2. PointLevel(0) = 0 /\ PointLevel(1) = Levels[1] /\ Levels[1] \in Int
    BY <2>1, LevelsAreNumbers DEF PointLevel
  <2>3. f[Top] = 2 * a + r /\ f[Top] \in Int /\ f[1] \in Int
    <3>1. CASE k < Top
      BY <1>12, <2>1, <3>1
    <3>2. CASE k = Top
      <4>1. f[Top] = 2 * a /\ r = 0
        BY <2>1, <3>2
      <4>2. 2 * a + 0 = 2 * a
        <5> HIDE DEF a
        <5> QED BY <1>4
      <4> HIDE DEF f, r, a
      <4> QED
        BY <1>12, <2>1, <4>1, <4>2
    <3> QED
      BY <2>1, <3>1, <3>2
  <2>4. Grown(0) = f[1]
    <3>1. CASE k = 0
      <4>1. f[1] = 2 * a + r /\ a = 0 /\ r = (2 * t + 1) * s
        BY <1>2, <2>1, <2>2, <3>1
      <4>2. Grown(0) = (2 * t + 1) * s
        BY <3>1
      <4>3. Grown(0) \in Int
        <5>1. s \in Int /\ t \in Int
          BY <1>2, <1>4, <3>1
        <5> HIDE DEF s, t
        <5> QED
          BY <4>2, <5>1
      <4> HIDE DEF f, Grown, r, a
      <4> QED
        BY <4>1, <4>2, <4>3
    <3>2. CASE k > 0
      <4>1. Width(0) = Levels[1] - 0
        BY <2>2
      <4>2. Levels[1] - 0 = Levels[1]
        BY <2>2
      <4>3. Grown(0) = 2 * (Levels[1] * Scale)
        BY <2>1, <3>2, <4>1, <4>2
      <4>4. f[1] = 2 * (Levels[1] * Scale)
        BY <2>1, <2>2, <3>2
      <4> QED
        BY <4>3, <4>4
    <3> QED
      BY <2>1, <3>1, <3>2
  <2> HIDE DEF f, Grown, r, a
  <2> QED
    BY <2>3, <2>4
<1>16. /\ ExpectedExcess(q, x + 1) = SegmentExcess(Levels[1], AmountAtZero(q), q[1], x + 1) + UpperExcess(q, x + 1)
       /\ ExpectedExcess(q, x) = SegmentExcess(Levels[1], AmountAtZero(q), q[1], x) + UpperExcess(q, x)
  BY DEF ExpectedExcess, UpperExcess
<1>17. SumOver(Area(x + 1), S) \in Int /\ SumOver(Area(x), S) \in Int
  <2> HIDE DEF Area, grown, Grown, S
  <2>1. SumOver(Area(x + 1), S) \in Int
    BY <1>8, <1>9, SumType
  <2>2. SumOver(Area(x), S) \in Int
    BY <1>8, <1>9, SumType
  <2> QED
    BY <2>1, <2>2
<1> DEFINE lowNew == SegmentExcess(Levels[1], AmountAtZero(q), q[1], x + 1)
           lowOld == SegmentExcess(Levels[1], AmountAtZero(q), q[1], x)
           new == SumOver(Area(x + 1), S)
           old == SumOver(Area(x), S)
           risen == SumOver(grown, S)
<1>18. /\ lowNew \in Int /\ lowOld \in Int /\ new \in Int /\ old \in Int
       /\ lowNew - lowOld = Grown(0) /\ risen = new - old /\ Grown(0) + risen = 2 * a + r
  <2> HIDE DEF Area, grown, Grown, S, f, r, a
  <2> QED BY <1>7, <1>11, <1>14, <1>15, <1>17
<1>19. ExpectedExcess(q, x + 1) = lowNew + new /\ ExpectedExcess(q, x) = lowOld + old
  <2> HIDE DEF Area, S
  <2> QED BY <1>10, <1>16
<1> HIDE DEF Area, grown, Grown, S, f, r, a, lowNew, lowOld, new, old, risen
<1>20. (lowNew + new) - (lowOld + old) = 2 * a + r
  BY <1>18
<1> QED
  BY <1>5, <1>19, <1>20

LEMMA AreaIsSum ==
    ASSUME NEW q, IsDistribution(q), NEW b \in Int, NEW w,
           \A x \in AmountAtZero(q) .. b - 1 : w[x] = ProbabilityUpTo(q, x, TRUE) + ProbabilityUpTo(q, x + 1, FALSE)
    PROVE  AreaBelow(q, b) = SumOver(w, AmountAtZero(q) .. b - 1)
<1> DEFINE S == AmountAtZero(q) .. b - 1
           Folded(f) ==
              f = [s \in SUBSET S |->
                    IF s = {} THEN 0
                    ELSE (ProbabilityUpTo(q, CHOOSE x \in s : TRUE, TRUE)
                          + ProbabilityUpTo(q, (CHOOSE x \in s : TRUE) + 1, FALSE))
                         + f[s \ {CHOOSE x \in s : TRUE}]]
           g == CHOOSE f : Folded(f)
           h == CHOOSE f : Sums(f, w, S)
<1>0. IsFiniteSet(S)
  <2>1. AmountAtZero(q) \in Int /\ b - 1 \in Int
    BY ZeroFacts
  <2> QED
    BY <2>1, FS_Interval
<1>1. ASSUME NEW f PROVE Folded(f) <=> Sums(f, w, S)
  <2>1. \A s \in SUBSET S : s # {} =>
            /\ (CHOOSE x \in s : TRUE) = FirstOf(s)
            /\ w[FirstOf(s)] = ProbabilityUpTo(q, CHOOSE x \in s : TRUE, TRUE)
                               + ProbabilityUpTo(q, (CHOOSE x \in s : TRUE) + 1, FALSE)
    <3> TAKE s \in SUBSET S
    <3> HAVE s # {}
    <3>1. (CHOOSE x \in s : TRUE) = FirstOf(s)
      BY DEF FirstOf
    <3>2. FirstOf(s) \in S
      BY FirstIsElement
    <3> QED
      BY <3>1, <3>2
  <2> QED
    BY <2>1 DEF Sums
<1>2. Sums(h, w, S)
  <2> HIDE DEF S
  <2> QED BY <1>0, SumsExist
<1>3. Folded(g)
  <2> HIDE DEF Folded, h
  <2>1. Folded(h)
    BY <1>1, <1>2
  <2> QED
    BY <2>1
<1>4. AreaBelow(q, b) = g[S]
  BY DEF AreaBelow, MapThenSumSet, MapThenFoldSet
<1> HIDE DEF Folded, g, h, S
<1>5. g[S] = h[S]
  BY <1>0, <1>1, <1>2, <1>3, SumsAgree
<1>6. SumOver(w, S) = h[S]
  BY DEF SumOver, h
<1> QED
  BY <1>4, <1>5, <1>6 DEF S

\* Below its own segment there is no area.
LEMMA SegmentStarts ==
    ASSUME NEW width \in Int, NEW lower \in Int, NEW upper \in Int, lower <= upper,
           lower < upper => Scale \div (upper - lower) \in Int,
           NEW b \in Int, b <= lower
    PROVE  SegmentExcess(width, lower, upper, b) = 0
<1>0. Scale \in Int
  BY OptimizerAssumption
<1>1. CASE b < lower
  BY <1>1 DEF SegmentExcess
<1>2. CASE b = lower /\ upper = lower
  <2>1. 2 * b - lower - upper = 0 /\ ~(b < lower)
    BY <1>2
  <2>2. SegmentExcess(width, lower, upper, b) = width * Scale * (2 * b - lower - upper)
    BY <1>2, <2>1 DEF SegmentExcess
  <2>3. width * Scale \in Int
    BY <1>0
  <2>4. (width * Scale) * 0 = 0
    BY <2>3
  <2> QED
    BY <2>1, <2>2, <2>4
<1>3. CASE b = lower /\ lower < upper
  <2> DEFINE s == Scale \div (upper - lower)
  <2>1. b - lower = 0 /\ ~(b < lower) /\ upper # lower /\ ~(b >= upper)
    BY <1>3
  <2>2. SegmentExcess(width, lower, upper, b) = width * (b - lower) * (b - lower) * s
    BY <2>1 DEF SegmentExcess
  <2>3. s \in Int
    BY <1>3
  <2> HIDE DEF s
  <2>4. width * 0 * 0 * s = 0
    BY <2>3
  <2> QED
    BY <2>1, <2>2, <2>4
<1> QED
  BY <1>1, <1>2, <1>3

LEMMA ExcessStarts ==
    ASSUME NEW q, IsDistribution(q), NEW b \in Int, b <= AmountAtZero(q)
    PROVE  ExpectedExcess(q, b) = 0
<1> DEFINE point == Points(q)
           Width(i) == PointLevel(i + 1) - PointLevel(i)
<1>1. Top \in Nat /\ Top >= 2
  BY LevelFacts
<1>2. ASSUME NEW i \in 0 .. Top - 1 PROVE SegmentExcess(Width(i), point[i], point[i + 1], b) = 0
  <2>1. i \in 0 .. Top /\ i + 1 \in 0 .. Top /\ 0 \in 0 .. Top /\ 0 <= i /\ i <= i + 1
    BY <1>1
  <2>2. Width(i) \in Int
    BY <2>1, PointLevelFacts
  <2>3. point[i] \in Int /\ point[i + 1] \in Int /\ point[i] <= point[i + 1] /\ point[0] <= point[i] /\ point[0] = AmountAtZero(q)
    BY <2>1, PointFacts
  <2>4. point[i] < point[i + 1] => Scale \div (point[i + 1] - point[i]) \in Int
    BY PointFacts
  <2>5. b <= point[i]
    BY <2>3, ZeroFacts
  <2> HIDE DEF point, Width
  <2> QED
    BY <2>2, <2>3, <2>4, <2>5, SegmentStarts
<1>3. SegmentExcess(Levels[1], AmountAtZero(q), q[1], b) = 0
  <2>1. 0 \in 0 .. Top - 1 /\ 1 \in 1 .. Top /\ 0 + 1 = 1
    BY <1>1
  <2>2. Width(0) = Levels[1]
    <3>1. PointLevel(0) = 0 /\ PointLevel(1) = Levels[1] /\ Levels[1] \in Int
      BY <2>1, LevelsAreNumbers DEF PointLevel
    <3> QED
      BY <2>1, <3>1
  <2>3. point[0] = AmountAtZero(q) /\ point[0 + 1] = q[1]
    BY <2>1, PointFacts
  <2> HIDE DEF point, Width
  <2> QED
    BY <1>2, <2>1, <2>2, <2>3
<1> DEFINE none == [i \in 1 .. Top - 1 |-> 0]
           zero == [i \in 1 .. Top |-> 0]
<1>4. ASSUME NEW i \in 1 .. Top - 1
      PROVE  SegmentExcess(Levels[i + 1] - Levels[i], q[i], q[i + 1], b) = 0
  <2>1. i \in 0 .. Top - 1 /\ i \in 1 .. Top /\ i + 1 \in 1 .. Top /\ i # 0 /\ i + 1 # 0
    BY <1>1
  <2>2. Width(i) = Levels[i + 1] - Levels[i]
    BY <2>1 DEF PointLevel
  <2>3. point[i] = q[i] /\ point[i + 1] = q[i + 1]
    BY <2>1, PointFacts
  <2> HIDE DEF point, Width
  <2> QED
    BY <1>2, <2>1, <2>2, <2>3
<1>5. UpperExcess(q, b) = SumOver(none, 1 .. Top - 1)
  BY <1>4, UpperIsSum
<1>6. SumOver(none, 1 .. Top - 1) = zero[Top] - zero[1]
  <2>1. 1 \in Int /\ Top \in Int /\ 1 <= Top
    BY <1>1
  <2>2. \A i \in 1 .. Top : zero[i] \in Int
    OBVIOUS
  <2>3. \A i \in 1 .. Top - 1 : none[i] = zero[i + 1] - zero[i]
    BY <1>1
  <2> HIDE DEF none, zero
  <2> QED
    BY <2>1, <2>2, <2>3, SumOfSteps
<1>7. zero[Top] - zero[1] = 0
  BY <1>1
<1>8. UpperExcess(q, b) = 0
  <2> HIDE DEF none, zero
  <2> QED BY <1>5, <1>6, <1>7
<1>9. ExpectedExcess(q, b) = SegmentExcess(Levels[1], AmountAtZero(q), q[1], b) + UpperExcess(q, b)
  BY DEF ExpectedExcess, UpperExcess
<1> QED
  BY <1>3, <1>8, <1>9

\* The closed form of ExpectedExcess is the area under the quantile function.
LEMMA ExcessIsArea ==
    ASSUME NEW q, IsDistribution(q), NEW b \in Int
    PROVE  ExpectedExcess(q, b) = AreaBelow(q, b)
<1> DEFINE m == AmountAtZero(q)
           w == [x \in m .. b - 1 |-> ProbabilityUpTo(q, x, TRUE) + ProbabilityUpTo(q, x + 1, FALSE)]
           f == [x \in Int |-> ExpectedExcess(q, x)]
<1>1. m \in Int
  BY ZeroFacts
<1>2. AreaBelow(q, b) = SumOver(w, m .. b - 1)
  BY AreaIsSum
<1>3. CASE b <= m
  <2>1. m .. b - 1 = {}
    BY <1>1, <1>3
  <2>2. SumOver(w, {}) = 0
    BY SumOfNone
  <2>3. ExpectedExcess(q, b) = 0
    BY <1>3, ExcessStarts
  <2> HIDE DEF w, m
  <2> QED
    BY <1>2, <2>1, <2>2, <2>3
<1>4. CASE m <= b
  <2>1. \A x \in m .. b : f[x] \in Int
    BY <1>1, ExcessType
  <2>2. \A x \in m .. b - 1 : w[x] = f[x + 1] - f[x]
    <3> SUFFICES ASSUME NEW x \in m .. b - 1 PROVE w[x] = f[x + 1] - f[x]
      OBVIOUS
    <3>1. x \in Int /\ x + 1 \in Int /\ m <= x
      BY <1>1
    <3>2. ExpectedExcess(q, x + 1) - ExpectedExcess(q, x) =
                ProbabilityUpTo(q, x, TRUE) + ProbabilityUpTo(q, x + 1, FALSE)
      BY <3>1, ExcessGrows
    <3> QED
      BY <3>1, <3>2
  <2>3. ExpectedExcess(q, b) \in Int /\ f[b] = ExpectedExcess(q, b) /\ f[m] = 0
    <3>1. f[b] = ExpectedExcess(q, b) /\ f[m] = ExpectedExcess(q, m)
      BY <1>1
    <3>2. ExpectedExcess(q, m) = 0
      BY <1>1, ExcessStarts
    <3>3. ExpectedExcess(q, b) \in Int
      BY ExcessType
    <3> HIDE DEF f, m
    <3> QED
      BY <3>1, <3>2, <3>3
  <2> HIDE DEF f, w, m
  <2>4. SumOver(w, m .. b - 1) = f[b] - f[m]
    BY <1>1, <1>4, <2>1, <2>2, SumOfSteps
  <2> QED
    BY <1>2, <2>3, <2>4
<1> QED
  BY <1>1, <1>3, <1>4

LEMMA ScoreIsCost ==
    ASSUME NEW q, IsDistribution(q), NEW est \in Int, NEW b \in Int
    PROVE  Score(est, q, b) = CostOf(est, q, b) /\ CostOf(est, q, b) \in Int
<1>1. ExpectedExcess(q, b) = AreaBelow(q, b)
  BY ExcessIsArea
<1>2. Max({b - est, 0}) = IF b > est THEN b - est ELSE 0
  <2>1. b - est \in Int /\ 0 \in Int
    OBVIOUS
  <2>2. Max({b - est, 0}) \in {b - est, 0} /\ Max({b - est, 0}) >= b - est /\ Max({b - est, 0}) >= 0
    BY <2>1, TwoAreFinite
  <2> QED
    BY <2>1, <2>2
<1>3. Score(est, q, b) = CostOf(est, q, b)
  BY <1>1, <1>2 DEF Score, CostOf
<1> QED
  BY <1>3, ScoreType

\* The candidates are what IsCheapest takes to be on offer.
LEMMA OfferedAreCandidates ==
    ASSUME NEW q, IsDistribution(q), NEW est \in Nat \ {0}, NEW step
    PROVE  Candidates(est, q, step) =
                {a \in 1 .. Highest(est, q) :
                    \/ a = est \/ a \in Amounts(q)
                    \/ a >= Lowest(est, q) /\ a % step = 0}
<1> DEFINE lowest == Lowest(est, q)
           highest == Highest(est, q)
           offered == {a \in 1 .. highest :
                    \/ a = est \/ a \in Amounts(q)
                    \/ a >= lowest /\ a % step = 0}
<1>0. est \in Int
  OBVIOUS
<1>1. /\ lowest \in Int /\ highest \in Int
      /\ lowest = est \/ lowest \in Amounts(q)
      /\ highest = est \/ highest \in Amounts(q)
  BY <1>0, CandidateFacts
<1>2. Amounts(q) \subseteq Nat \ {0}
  BY AmountFacts
<1>3. Candidates(est, q, step) =
        {a \in {est, lowest, highest} \cup Amounts(q) \cup {a \in lowest .. highest : a % step = 0} :
            0 < a /\ a <= highest}
  BY DEF Candidates
<1> HIDE DEF lowest, highest
<1>4. ASSUME NEW a \in Candidates(est, q, step) PROVE a \in offered
  <2>1. /\ a \in {est, lowest, highest} \/ a \in Amounts(q) \/ (a \in lowest .. highest /\ a % step = 0)
        /\ 0 < a /\ a <= highest
    BY <1>3
  <2>2. a \in Int
    BY <1>0, <1>1, <1>2, <2>1
  <2> QED
    BY <1>1, <2>1, <2>2
<1>5. ASSUME NEW a \in offered PROVE a \in Candidates(est, q, step)
  <2>1. a \in Int /\ 0 < a /\ a <= highest /\ (a = est \/ a \in Amounts(q) \/ (a >= lowest /\ a % step = 0))
    BY <1>1
  <2> QED
    BY <1>1, <1>3, <2>1
<1> HIDE DEF offered
<1>6. Candidates(est, q, step) = offered
  BY <1>4, <1>5
<1> QED
  BY <1>6 DEF offered, lowest, highest

LEMMA TooManyMeans ==
    ASSUME NEW d \in Nat, NEW step \in Nat \ {0}, NEW n \in Nat, d \div step > n
    PROVE  d >= step * (n + 1)
<1> DEFINE k == d \div step
<1>1. k \in Int /\ d >= step * k
  OBVIOUS
<1>2. k >= n + 1
  BY <1>1
<1> HIDE DEF k
<1>3. step * k >= step * (n + 1)
  BY <1>1, <1>2
<1>4. step * k \in Int /\ step * (n + 1) \in Int
  BY <1>1
<1> QED
  BY <1>1, <1>3, <1>4

\* The recommended block is the cheapest that meets the target.
LEMMA RecommendationIsCheapest ==
    ASSUME NEW q, IsDistribution(q), NEW est \in Nat \ {0}, NEW step \in Nat \ {0}, NEW target \in Int
    PROVE  IsCheapest(est, q, step, target, Recommend(est, q, step, target))
<1> DEFINE answer == Recommend(est, q, step, target)
           F == Feasible(est, q, step, target)
           offered == {a \in 1 .. Highest(est, q) :
                    \/ a = est \/ a \in Amounts(q)
                    \/ a >= Lowest(est, q) /\ a % step = 0}
           meeting == {a \in offered : Cdf(q, a) >= target * Scale}
           d == Highest(est, q) - Lowest(est, q)
<1>0. /\ est \in Int /\ Scale \in Int /\ Scale > 0 /\ MaxSteps \in Nat
      /\ Unreachable \notin Int /\ TooManySteps \notin Int /\ Unreachable # TooManySteps
  BY OptimizerAssumption
<1>1. meeting = F
  BY OfferedAreCandidates DEF Feasible
<1>2. Candidates(est, q, step) \subseteq Nat \ {0} /\ IsFiniteSet(Candidates(est, q, step))
  BY <1>0, CandidateFacts
<1>3. F \subseteq Int /\ IsFiniteSet(F)
  <2>1. F \subseteq Candidates(est, q, step)
    BY DEF Feasible
  <2> QED
    BY <1>2, <2>1, FS_Subset
<1> DEFINE TooWide == d >= step * (MaxSteps + 1)
           NoneMeets == meeting = {}
           IsLeast == /\ answer \in meeting
                      /\ \A a \in meeting :
                            \/ CostOf(est, q, answer) < CostOf(est, q, a)
                            \/ CostOf(est, q, answer) = CostOf(est, q, a) /\ answer <= a
<1>4. /\ answer = TooManySteps /\ TooWide => IsCheapest(est, q, step, target, answer)
      /\ answer = Unreachable /\ NoneMeets => IsCheapest(est, q, step, target, answer)
      /\ answer \notin {Unreachable, TooManySteps} /\ IsLeast => IsCheapest(est, q, step, target, answer)
  <2>1. IsCheapest(est, q, step, target, answer) =
            CASE answer = TooManySteps -> TooWide
              [] answer = Unreachable -> NoneMeets
              [] OTHER -> IsLeast
    BY DEF IsCheapest
  <2> HIDE DEF answer, TooWide, NoneMeets, IsLeast
  <2>2. CASE answer = TooManySteps
    BY <1>0, <2>1, <2>2
  <2>3. CASE answer = Unreachable
    BY <1>0, <2>1, <2>3
  <2>4. CASE answer \notin {Unreachable, TooManySteps}
    BY <2>1, <2>4
  <2> QED
    BY <2>2, <2>3, <2>4
<1>5. ASSUME target > Levels[Top] \/ (~ExceedsSteps(est, q, step) /\ F = {})
      PROVE  IsCheapest(est, q, step, target, answer)
  <2>1. answer = Unreachable
    BY <1>5 DEF Recommend
  <2>2. F = {}
    <3>1. CASE target > Levels[Top]
      <4>1. target >= 100
        BY <3>1, LevelFacts
      <4>2. target * Scale >= 100 * Scale
        BY <1>0, <4>1
      <4>3. \A a \in F : Cdf(q, a) \in Int /\ Cdf(q, a) <= 99 * Scale
        BY <1>3, CdfRises
      <4>4. \A a \in F : Cdf(q, a) >= target * Scale
        BY DEF Feasible
      <4>5. target * Scale \in Int
        BY <1>0
      <4> HIDE DEF F
      <4> QED
        BY <1>0, <4>2, <4>3, <4>4, <4>5
    <3> QED
      BY <1>5, <3>1
  <2>3. NoneMeets
    <3> HIDE DEF F, meeting
    <3> QED BY <1>1, <2>2
  <2> HIDE DEF answer, TooWide, NoneMeets, IsLeast
  <2> QED
    BY <1>4, <2>1, <2>3
<1>6. ASSUME ~(target > Levels[Top]) /\ ExceedsSteps(est, q, step)
      PROVE  IsCheapest(est, q, step, target, answer)
  <2>1. answer = TooManySteps
    BY <1>6 DEF Recommend
  <2>2. d \in Nat
    <3>1. /\ Lowest(est, q) \in Int /\ Highest(est, q) \in Int
          /\ Lowest(est, q) <= est /\ est <= Highest(est, q)
      BY <1>0, CandidateFacts
    <3> QED
      BY <1>0, <3>1
  <2>3. d \div step > MaxSteps
    BY <1>6 DEF ExceedsSteps
  <2> HIDE DEF d, answer, meeting
  <2>4. d >= step * (MaxSteps + 1)
    BY <1>0, <2>2, <2>3, TooManyMeans
  <2>5. TooWide
    BY <2>4
  <2> HIDE DEF TooWide, NoneMeets, IsLeast
  <2> QED
    BY <1>4, <2>1, <2>5
<1>7. ASSUME ~(target > Levels[Top]) /\ ~ExceedsSteps(est, q, step) /\ F # {}
      PROVE  IsCheapest(est, q, step, target, answer)
  <2> DEFINE score == [a \in F |-> Score(est, q, a)]
  <2>1. answer = Best(F, score)
    BY <1>7 DEF Recommend
  <2>2. \A a \in F : score[a] \in Int
    BY <1>0, <1>3, ScoreType
  <2>3. answer \in Int
    <3> HIDE DEF F, score, answer
    <3>1. Best(F, score) \in F
      BY <1>3, <1>7, <2>2, BestExists
    <3> QED
      BY <1>3, <2>1, <3>1
  <2>4. answer \notin {Unreachable, TooManySteps}
    <3> HIDE DEF answer
    <3> QED BY <1>0, <2>3
  <2>5. /\ answer \in F
        /\ \A a \in F :
            \/ Score(est, q, answer) < Score(est, q, a)
            \/ Score(est, q, answer) = Score(est, q, a) /\ answer <= a
    BY <1>0, <2>4, AnswerMeetsTarget
  <2> HIDE DEF answer, F, d, meeting
  <2>6. Score(est, q, answer) = CostOf(est, q, answer)
    BY <1>0, <2>3, ScoreIsCost
  <2>7. \A a \in F : Score(est, q, a) = CostOf(est, q, a)
    BY <1>0, <1>3, ScoreIsCost
  <2>8. \A a \in F :
            \/ CostOf(est, q, answer) < CostOf(est, q, a)
            \/ CostOf(est, q, answer) = CostOf(est, q, a) /\ answer <= a
    BY <2>5, <2>6, <2>7
  <2>9. IsLeast
    BY <1>1, <2>5, <2>8
  <2> HIDE DEF TooWide, NoneMeets, IsLeast
  <2> QED
    BY <1>4, <2>4, <2>9
<1>8. IsCheapest(est, q, step, target, answer)
  <2> HIDE DEF answer, F
  <2> QED BY <1>5, <1>6, <1>7
<1> QED
  BY <1>8

-----------------------------------------------------------------------------
(* Comparisons: more certainty, larger blocks *)

\* The candidates that meet a stricter target meet a laxer one, so the laxer
\* one is answered too, and with no larger a block: otherwise the two answers
\* would have to be better than one another.
LEMMA StricterIsLarger ==
    ASSUME NEW q, IsDistribution(q), NEW est \in Int, NEW step,
           NEW lax \in Int, NEW strict \in Int, lax <= strict,
           Recommend(est, q, step, strict) \notin {Unreachable, TooManySteps}
    PROVE  /\ Recommend(est, q, step, lax) \notin {Unreachable, TooManySteps}
           /\ Recommend(est, q, step, lax) \in Nat /\ Recommend(est, q, step, strict) \in Nat
           /\ Recommend(est, q, step, lax) <= Recommend(est, q, step, strict)
<1> DEFINE F(target) == Feasible(est, q, step, target)
           L == F(lax)
           S == F(strict)
           l == Recommend(est, q, step, lax)
           s == Recommend(est, q, step, strict)
<1>0. Scale \in Nat \ {0} /\ Top \in Nat /\ Levels[Top] \in Int
  BY OptimizerAssumption, LevelFacts
<1>1. Candidates(est, q, step) \subseteq Nat \ {0} /\ IsFiniteSet(Candidates(est, q, step))
  BY CandidateFacts
<1>2. S \subseteq L /\ L \subseteq Candidates(est, q, step)
  <2> SUFFICES ASSUME NEW a \in Candidates(est, q, step), Cdf(q, a) >= strict * Scale
               PROVE  Cdf(q, a) >= lax * Scale
    BY DEF Feasible
  <2>1. Cdf(q, a) \in Int
    <3>1. a \in Int
      BY <1>1
    <3> QED
      BY <3>1, CdfRises
  <2>2. lax * Scale <= strict * Scale /\ lax * Scale \in Int /\ strict * Scale \in Int
    BY <1>0
  <2> QED
    BY <2>1, <2>2
<1>3. /\ s \in S
      /\ \A a \in S : \/ Score(est, q, s) < Score(est, q, a)
                      \/ Score(est, q, s) = Score(est, q, a) /\ s <= a
  BY AnswerMeetsTarget
<1>4. ~(strict > Levels[Top]) /\ ~ExceedsSteps(est, q, step)
  BY DEF Recommend
<1>5. ~(lax > Levels[Top])
  BY <1>0, <1>4
<1>6. L # {}
  BY <1>2, <1>3
<1>7. l = Best(L, [a \in L |-> Score(est, q, a)])
  BY <1>4, <1>5, <1>6 DEF Recommend
<1>8. l \in L
  <2> DEFINE score == [a \in L |-> Score(est, q, a)]
  <2>1. L \subseteq Int /\ IsFiniteSet(L)
    BY <1>1, <1>2, FS_Subset
  <2>2. \A a \in L : score[a] \in Int
    <3> TAKE a \in L
    <3>1. a \in Int
      BY <2>1
    <3> QED
      BY <3>1, ScoreType
  <2> HIDE DEF score, L
  <2>3. Best(L, score) \in L
    BY <1>6, <2>1, <2>2, BestExists
  <2> QED
    BY <1>7, <2>3 DEF score
<1>9. l \notin {Unreachable, TooManySteps}
  <2>1. l \in Int
    BY <1>1, <1>2, <1>8
  <2> QED
    BY <2>1, OptimizerAssumption
<1>10. \A a \in L : \/ Score(est, q, l) < Score(est, q, a)
                    \/ Score(est, q, l) = Score(est, q, a) /\ l <= a
  BY <1>9, AnswerMeetsTarget
<1>11. l \in Nat /\ s \in Nat /\ s \in L
  BY <1>1, <1>2, <1>3, <1>8
<1>12. Score(est, q, l) \in Int /\ Score(est, q, s) \in Int
  <2>1. l \in Int /\ s \in Int
    BY <1>11
  <2> HIDE DEF l, s
  <2> QED
    BY <2>1, ScoreType
<1>13. \/ Score(est, q, l) < Score(est, q, s)
       \/ Score(est, q, l) = Score(est, q, s) /\ l <= s
  BY <1>10, <1>11
<1>14. ASSUME l > s PROVE l \in S
  <2>1. Cdf(q, s) >= strict * Scale /\ l \in Candidates(est, q, step)
    BY <1>3, <1>8 DEF Feasible
  <2>2. s \in Int /\ l \in Int /\ s <= l
    BY <1>11, <1>14
  <2> HIDE DEF l, s
  <2>3. Cdf(q, s) \in Int /\ Cdf(q, l) \in Int /\ Cdf(q, s) <= Cdf(q, l)
    BY <2>2, CdfRises
  <2>4. strict * Scale \in Int
    BY <1>0
  <2>5. Cdf(q, l) >= strict * Scale
    BY <2>1, <2>3, <2>4
  <2> QED
    BY <2>1, <2>5 DEF Feasible
<1> HIDE DEF l, s, L, S
<1>15. l <= s
  <2> SUFFICES ASSUME ~(l <= s) PROVE FALSE
    OBVIOUS
  <2>1. l > s /\ Score(est, q, l) < Score(est, q, s)
    BY <1>11, <1>13
  <2>2. l \in S
    BY <1>14, <2>1
  <2> QED
    BY <1>3, <1>12, <2>1, <2>2
<1> QED
  BY <1>9, <1>11, <1>15 DEF l, s

\* The blocks of some evaluations, summed as the model does.
TotalBlock(s) == Total(LAMBDA e : e.block, s)

LEMMA TotalBlockIsSum ==
    ASSUME NEW s, NEW n \in Nat, DOMAIN s = 1 .. n, NEW w, \A i \in 1 .. n : w[i] = s[i].block
    PROVE  TotalBlock(s) = SumOver(w, 1 .. n)
<1> DEFINE f == [i \in DOMAIN s |-> s[i].block]
<1>1. TotalBlock(s) = SumFunction(f)
  BY DEF TotalBlock, Total
<1>2. DOMAIN f = 1 .. n /\ IsFiniteSet(1 .. n) /\ \A i \in 1 .. n : f[i] = w[i]
  BY NumbersAreFinite
<1> HIDE DEF f
<1> QED
  BY <1>1, <1>2, FoldIsSumOf

\* What they reserve in vain, likewise.
TotalExcess(s) == Total(LAMBDA e : e.excess, s)

LEMMA TotalExcessIsSum ==
    ASSUME NEW s, NEW n \in Nat, DOMAIN s = 1 .. n, NEW w, \A i \in 1 .. n : w[i] = s[i].excess
    PROVE  TotalExcess(s) = SumOver(w, 1 .. n)
<1> DEFINE f == [i \in DOMAIN s |-> s[i].excess]
<1>1. TotalExcess(s) = SumFunction(f)
  BY DEF TotalExcess, Total
<1>2. DOMAIN f = 1 .. n /\ IsFiniteSet(1 .. n) /\ \A i \in 1 .. n : f[i] = w[i]
  BY NumbersAreFinite
<1> HIDE DEF f
<1> QED
  BY <1>1, <1>2, FoldIsSumOf


\* Rounded, larger quotients stay the larger ones.
LEMMA HalfUpRises ==
    ASSUME NEW a \in Nat, NEW b \in Nat, a <= b, NEW n \in Nat \ {0}
    PROVE  HalfUp(a, n) <= HalfUp(b, n)
<1>1. 2 * a + n \in Nat /\ 2 * b + n \in Nat /\ 2 * a + n <= 2 * b + n /\ 2 * n \in Nat /\ 2 * n > 0
  OBVIOUS
<1>2. (2 * a + n) \div (2 * n) <= (2 * b + n) \div (2 * n)
  <2> DEFINE x == 2 * a + n
             y == 2 * b + n
             m == 2 * n
  <2> HIDE DEF x, y, m
  <2>1. x \in Nat /\ y \in Nat /\ x <= y /\ m \in Nat /\ m > 0
    BY <1>1 DEF x, y, m
  <2>2. x \div m <= y \div m
    BY <2>1, QuotientRises
  <2> QED
    BY <2>2 DEF x, y, m
<1> QED
  BY <1>2 DEF HalfUp

-----------------------------------------------------------------------------
(* The rides of a file, joined *)

\* A file without duplicate ids names each of its rides once.
LEMMA IdsAreUnique ==
    ASSUME NEW rides, NEW n \in Nat, DOMAIN rides = 1 .. n, Len(rides) = n, ~HasDuplicates(rides)
    PROVE  \A i, j \in 1 .. n : rides[i].id = rides[j].id => i = j
<1> DEFINE N == 1 .. n
           T == Ids(rides)
           f == [i \in N |-> rides[i].id]
<1>1. f \in Surjection(N, T)
  BY DEF Surjection, Ids
<1>2. IsFiniteSet(N) /\ Cardinality(N) = n
  <2>1. 1 \in Int /\ n \in Int
    OBVIOUS
  <2> QED
    BY <2>1, FS_Interval
<1>3. ~(Cardinality(T) < n)
  BY DEF HasDuplicates
<1> HIDE DEF N, T, f
<1>4. IsFiniteSet(T) /\ Cardinality(T) <= Cardinality(N) /\ (Cardinality(T) = Cardinality(N) <=> f \in Injection(N, T))
  BY <1>1, <1>2, FS_Surjection
<1>5. Cardinality(T) \in Nat
  BY <1>4, FS_CardinalityType
<1>6. f \in Injection(N, T)
  BY <1>2, <1>3, <1>4, <1>5
<1>7. \A i, j \in N : f[i] = f[j] => i = j
  BY <1>6 DEF Injection, IsInjective
<1> QED
  BY <1>7 DEF f, N

JoinedFrom(rides, outcomes) == {Joined(ride, OutcomeOf(ride, outcomes)) : ride \in Range(rides)}

\* Joined, the rides stand in the order of their ids.
LEMMA JoinGivesRides ==
    ASSUME NEW rides, NEW n \in Nat, DOMAIN rides = 1 .. n, Len(rides) = n,
           \A i \in 1 .. n : rides[i].id \in Int,
           NEW outcomes, JoinIssues(rides, outcomes) = {}
    PROVE  \E m \in Nat :
            /\ Join(rides, outcomes) \in [1 .. m -> JoinedFrom(rides, outcomes)]
            /\ Len(Join(rides, outcomes)) = m
            /\ m <= n /\ (n > 0 => m > 0)
            /\ \A i, j \in 1 .. m : i < j => Join(rides, outcomes)[i].id < Join(rides, outcomes)[j].id
<1> DEFINE S == JoinedFrom(rides, outcomes)
           g == [i \in 1 .. n |-> Joined(rides[i], OutcomeOf(rides[i], outcomes))]
           R == {pair \in S \X S : pair[1].id < pair[2].id}
           m == Cardinality(S)
           Rank(r) == Cardinality({x \in S : x.id < r.id})
           s == [i \in 1 .. m |-> CHOOSE r \in S : Rank(r) = i - 1]
<1>1. ~HasDuplicates(rides)
  BY DEF JoinIssues
<1>2. \A i, j \in 1 .. n : rides[i].id = rides[j].id => i = j
  BY <1>1, IdsAreUnique
<1>3. S = {g[i] : i \in 1 .. n} /\ \A i \in 1 .. n : g[i].id = rides[i].id
  BY DEF JoinedFrom, Range, Joined
<1>4. Join(rides, outcomes) = s
  BY DEF Join, InOrder, JoinedFrom
<1> HIDE DEF g
<1>5. IsFiniteSet(S) /\ m <= n
  <2> DEFINE N == 1 .. n
  <2>1. IsFiniteSet(N) /\ Cardinality(N) = n
    <3>1. 1 \in Int /\ n \in Int
      OBVIOUS
    <3> QED
      BY <3>1, FS_Interval
  <2>2. g \in Surjection(N, S)
    BY <1>3 DEF Surjection, g
  <2> HIDE DEF N, S
  <2> QED
    BY <2>1, <2>2, FS_Surjection
<1>6. m \in Nat /\ (n > 0 => m > 0)
  <2>1. n > 0 => S # {}
    BY <1>3
  <2> HIDE DEF S
  <2>2. Cardinality(S) \in Nat /\ (Cardinality(S) = 0 <=> S = {})
    BY <1>5, FS_CardinalityType, FS_EmptySet
  <2> QED
    BY <2>1, <2>2
<1>7. \A x \in S : x.id \in Int
  BY <1>3
<1>8. \A x, y \in S : x.id = y.id => x = y
  BY <1>2, <1>3
<1>9. \A x, y \in S : <<x, y>> \in R <=> x.id < y.id
  OBVIOUS
<1> HIDE DEF S, R
<1>10. IsStrictOrder(R, S)
  <2>1. \A x \in S : <<x, x>> \notin R
    BY <1>7, <1>9
  <2>2. ASSUME NEW x \in S, NEW y \in S, NEW z \in S, <<x, y>> \in R, <<y, z>> \in R PROVE <<x, z>> \in R
    <3>1. x.id \in Int /\ y.id \in Int /\ z.id \in Int
      BY <1>7
    <3>2. x.id < y.id /\ y.id < z.id
      BY <1>9, <2>2
    <3>3. x.id < z.id
      BY <3>1, <3>2
    <3> QED
      BY <1>9, <3>3
  <2>3. ASSUME NEW x \in S, NEW y \in S PROVE x = y \/ <<x, y>> \in R \/ <<y, x>> \in R
    <3>1. x.id \in Int /\ y.id \in Int
      BY <1>7
    <3>2. x.id = y.id \/ x.id < y.id \/ y.id < x.id
      BY <3>1
    <3> QED
      BY <1>8, <1>9, <3>2
  <2> QED
    BY <2>1, <2>2, <2>3 DEF IsStrictOrder
<1>11. \A r \in S : RankIn(R, S, r) = Rank(r)
  <2> TAKE r \in S
  <2>1. {x \in S : <<x, r>> \in R} = {x \in S : x.id < r.id}
    BY <1>9
  <2> QED
    BY <2>1 DEF RankIn
<1>12. /\ \A i \in 1 .. Cardinality(S) : \E r \in S : RankIn(R, S, r) = i - 1
       /\ \A r, t \in S : <<r, t>> \in R => RankIn(R, S, r) < RankIn(R, S, t)
  BY <1>5, <1>10, RanksAreTaken
<1> HIDE DEF Rank
<1>13. \A i \in 1 .. m : \E r \in S : Rank(r) = i - 1
  BY <1>11, <1>12
<1>14. \A r, t \in S : r.id < t.id => Rank(r) < Rank(t)
  BY <1>9, <1>11, <1>12
<1> HIDE DEF m
<1>15. \A i \in 1 .. m : s[i] \in S /\ Rank(s[i]) = i - 1
  BY <1>13
<1>16. s \in [1 .. m -> S] /\ DOMAIN s = 1 .. m
  BY <1>15
<1>17. Len(s) = m
  BY <1>6, <1>16
<1> HIDE DEF s
<1>18. ASSUME NEW i \in 1 .. m, NEW j \in 1 .. m, i < j PROVE s[i].id < s[j].id
  <2>1. s[i] \in S /\ s[j] \in S /\ Rank(s[i]) = i - 1 /\ Rank(s[j]) = j - 1
    BY <1>15
  <2>2. s[i].id \in Int /\ s[j].id \in Int
    BY <1>7, <2>1
  <2>3. i \in Int /\ j \in Int
    BY <1>6
  <2>4. ASSUME s[j].id < s[i].id PROVE FALSE
    BY <1>14, <1>18, <2>1, <2>3, <2>4
  <2>5. s[i].id # s[j].id
    <3>1. s[i] # s[j]
      BY <1>18, <2>1, <2>3
    <3> QED
      BY <1>8, <2>1, <3>1
  <2> QED
    BY <2>2, <2>4, <2>5
<1> QED
  BY <1>4, <1>5, <1>6, <1>16, <1>17, <1>18 DEF S

IsJoinedRide(ride) ==
    /\ ride.id \in Int /\ ride.est \in Nat \ {0} /\ ride.fare \in Nat \ {0}
    /\ ride.start \in Int /\ ride.end \in Int /\ ride.ratio \in Nat \ {0}

\* The rides of an accepted file have estimates and fares.
LEMMA RidesAreJoined ==
    ASSUME NEW p, IsParsedFile(Command(p).file),
           \A i \in DOMAIN Command(p).file.records : IsRecord(Command(p).file.records[i]),
           JoinFaults(p) = {}
    PROVE  \E m \in Nat :
            /\ DOMAIN Rides(p) = 1 .. m /\ Len(Rides(p)) = m
            /\ Rides(p) \in Seq(Range(Rides(p)))
            /\ m <= Len(Command(p).file.records)
            /\ RidesRead(p) # <<>> => m > 0
            /\ \A i \in 1 .. m : IsJoinedRide(Rides(p)[i])
            /\ \A i, j \in 1 .. m : i < j => Rides(p)[i].id < Rides(p)[j].id
<1> DEFINE records == Command(p).file.records
           rides == RidesRead(p)
           outcomes == OutcomesRead(p)
           n == Len(records)
<1>1. n \in Nat /\ DOMAIN records = 1 .. n
  BY RecordsOf
<1>2. /\ DOMAIN rides = 1 .. n /\ Len(rides) = n
      /\ \A i \in 1 .. n : rides[i] = RideOf(records[i].transaction)
  <2>1. rides = [i \in 1 .. n |-> RideOf(records[i].transaction)]
    BY <1>1 DEF RidesRead
  <2> HIDE DEF rides, records, n
  <2> QED
    BY <1>1, <2>1
<1>3. /\ DOMAIN outcomes = 1 .. n
      /\ \A i \in 1 .. n : outcomes[i] = OutcomeRead(records[i].outcome)
  BY <1>1 DEF OutcomesRead
<1>4. \A i \in 1 .. n : IsParsedRecord(records[i]) /\ IsRecord(records[i])
  BY <1>1 DEF IsParsedFile
<1> HIDE DEF records, rides, outcomes, n
<1>5. ASSUME NEW i \in 1 .. n PROVE rides[i].id \in Int /\ rides[i].est \in Nat \ {0} /\ rides[i].start \in Int
  <2> DEFINE payload == records[i].transaction
  <2>1. payload["transaction_id"].number \in Int /\ payload["timestamp"].number \in Int
    <3>1. payload["transaction_id"] \in JsonValues /\ payload["timestamp"] \in JsonValues
      BY <1>4 DEF IsRecord, IsParsedRecord, AreParsed, TransactionFields
    <3> QED
      BY <3>1 DEF JsonValues
  <2>2. payload["estimated_amount_paise"].number \in Nat \ {0}
    <3>1. payload["estimated_amount_paise"].number \in 1 .. MaxPaise
      BY <1>4 DEF IsRecord, IsContext, IsPaise
    <3> QED
      BY <3>1, PaiseAssumption
  <2> HIDE DEF payload
  <2> QED
    BY <1>2, <2>1, <2>2 DEF RideOf, payload
<1>6. ASSUME NEW i \in 1 .. n PROVE outcomes[i].fare \in Nat \ {0} /\ outcomes[i].end \in Int
  <2>1. records[i].outcome["actual_amount_paise"].number \in 1 .. MaxPaise
    BY <1>4 DEF IsRecord, IsOutcome, IsPaise
  <2>2. records[i].outcome["actual_amount_paise"].number \in Nat \ {0}
    BY <2>1, PaiseAssumption
  <2>3. records[i].outcome["completed_at"].number \in Int
    <3>1. records[i].outcome["completed_at"] \in JsonValues
      BY <1>4 DEF IsRecord, IsParsedRecord, AreParsed, OutcomeFields
    <3> QED
      BY <3>1 DEF JsonValues
  <2> QED
    BY <1>3, <2>2, <2>3 DEF OutcomeRead
<1>7. JoinIssues(rides, outcomes) = {} /\ Rides(p) = Join(rides, outcomes)
  BY DEF JoinFaults, Rides, rides, outcomes
<1>8. PICK m \in Nat :
            /\ Join(rides, outcomes) \in [1 .. m -> JoinedFrom(rides, outcomes)]
            /\ Len(Join(rides, outcomes)) = m
            /\ m <= n /\ (n > 0 => m > 0)
            /\ \A i, j \in 1 .. m : i < j => Join(rides, outcomes)[i].id < Join(rides, outcomes)[j].id
  <2>1. \A i \in 1 .. n : rides[i].id \in Int
    BY <1>5
  <2> QED
    BY <1>1, <1>2, <1>7, <2>1, JoinGivesRides
<1>9. rides # <<>> => n > 0
  BY <1>1, <1>2 DEF rides, RidesRead
<1>10. ASSUME NEW r \in JoinedFrom(rides, outcomes) PROVE IsJoinedRide(r)
  <2>1. PICK i \in 1 .. n : r = Joined(rides[i], OutcomeOf(rides[i], outcomes))
    BY <1>2, <1>10 DEF JoinedFrom, Range
  <2>2. Ids(rides) \ Ids(outcomes) = {}
    BY <1>7 DEF JoinIssues
  <2>3. \E j \in DOMAIN outcomes : outcomes[j].id = rides[i].id
    BY <1>2, <2>2 DEF Ids
  <2>4. \E j \in 1 .. n : OutcomeOf(rides[i], outcomes) = outcomes[j]
    BY <1>3, <2>3 DEF OutcomeOf
  <2>5. /\ r.id = rides[i].id /\ r.est = rides[i].est /\ r.start = rides[i].start
        /\ r.fare = OutcomeOf(rides[i], outcomes).fare /\ r.end = OutcomeOf(rides[i], outcomes).end
        /\ r.ratio = (100 * r.fare + r.est - 1) \div r.est
    BY <2>1 DEF Joined
  <2>6. r.id \in Int /\ r.est \in Nat \ {0} /\ r.fare \in Nat \ {0} /\ r.start \in Int /\ r.end \in Int
    BY <1>5, <1>6, <2>4, <2>5
  <2>7. r.ratio \in Nat \ {0}
    <3> DEFINE d == r.est
               x == 100 * r.fare + r.est - 1
               y == x \div d
    <3>1. x \in Int /\ d \in Int /\ d > 0 /\ x >= d
      BY <2>6
    <3> HIDE DEF x, d
    <3>2. y \in Int /\ x < d * y + d
      BY <3>1, QuotientBounds
    <3> HIDE DEF y
    <3>3. y > 0
      <4>1. ASSUME y <= 0 PROVE FALSE
        <5> DEFINE z == d * y
        <5>1. z \in Int /\ z <= 0
          BY <3>1, <3>2, <4>1
        <5> HIDE DEF z
        <5>2. x < z + d
          BY <3>2 DEF z
        <5> QED
          BY <3>1, <5>1, <5>2
      <4> QED
        BY <3>2, <4>1
    <3> QED
      BY <2>5, <3>2, <3>3 DEF x, d, y
  <2> QED
    BY <2>6, <2>7 DEF IsJoinedRide
<1>11. \A i \in 1 .. m : IsJoinedRide(Join(rides, outcomes)[i])
  BY <1>8, <1>10
<1>12. Join(rides, outcomes) \in Seq(Range(Join(rides, outcomes)))
  <2> DEFINE joined == Join(rides, outcomes)
  <2>1. DOMAIN joined = 1 .. m /\ joined = [i \in 1 .. m |-> joined[i]]
    BY <1>8
  <2> HIDE DEF joined
  <2>2. joined \in [1 .. m -> Range(joined)]
    BY <2>1 DEF Range
  <2> QED
    BY <2>2 DEF joined
<1> QED
  BY <1>7, <1>8, <1>9, <1>11, <1>12 DEF rides, n, records

-----------------------------------------------------------------------------
(* The figures of a strategy *)

\* A larger block costs no less and covers no less.
LEMMA EvaluationRises ==
    ASSUME NEW ride, ride.fare \in Int, NEW x \in Int, NEW y \in Int, x <= y
    PROVE  LET a == Evaluated(ride, x)
               b == Evaluated(ride, y)
           IN  /\ a.block = x /\ b.block = y
               /\ a.excess \in Nat /\ b.excess \in Nat /\ a.excess <= b.excess
               /\ a.success => b.success
<1>1. /\ x - ride.fare \in Int /\ y - ride.fare \in Int /\ 0 \in Int
  OBVIOUS
<1> DEFINE u == Max({x - ride.fare, 0})
           v == Max({y - ride.fare, 0})
<1>2. u \in {x - ride.fare, 0} /\ u >= x - ride.fare /\ u >= 0
  BY <1>1, TwoAreFinite
<1>3. v \in {y - ride.fare, 0} /\ v >= y - ride.fare /\ v >= 0
  BY <1>1, TwoAreFinite
<1>4. /\ Evaluated(ride, x).block = x /\ Evaluated(ride, x).excess = u
      /\ Evaluated(ride, x).success = (x >= ride.fare)
  BY DEF Evaluated
<1>5. /\ Evaluated(ride, y).block = y /\ Evaluated(ride, y).excess = v
      /\ Evaluated(ride, y).success = (y >= ride.fare)
  BY DEF Evaluated
<1> HIDE DEF u, v
<1>6. u \in Nat /\ v \in Nat /\ u <= v
  BY <1>2, <1>3
<1>7. (x >= ride.fare) => (y >= ride.fare)
  OBVIOUS
<1> DEFINE a == Evaluated(ride, x)
           b == Evaluated(ride, y)
<1> HIDE DEF a, b
<1>8. a.success => b.success
  BY <1>4, <1>5, <1>7 DEF a, b
<1>9. /\ a.block = x /\ b.block = y
      /\ a.excess \in Nat /\ b.excess \in Nat /\ a.excess <= b.excess
  BY <1>4, <1>5, <1>6 DEF a, b
<1> QED
  BY <1>8, <1>9 DEF a, b

\* What the metrics are, where there are any.
LEMMA MetricsAre ==
    ASSUME NEW s, HasMetrics(Aggregated(s))
    PROVE  /\ Aggregated(s).count = Len(s)
           /\ Aggregated(s).successes = Cardinality({i \in DOMAIN s : s[i].success})
           /\ Aggregated(s).blocked = TotalBlock(s)
           /\ Aggregated(s).averageExcess = HalfUp(TotalExcess(s), Len(s))
<1>1. Aggregated(s) # OutOfRange
  BY DEF HasMetrics, OutOfRange
<1> QED
  BY <1>1 DEF Aggregated, TotalBlock, TotalExcess, Count

\* Block by block no smaller, a strategy succeeds as often and reserves as much,
\* in all and in vain.
LEMMA MetricsRise ==
    ASSUME NEW n \in Nat, n > 0, NEW a, NEW b,
           DOMAIN a = 1 .. n, Len(a) = n, DOMAIN b = 1 .. n, Len(b) = n,
           \A i \in 1 .. n :
                /\ a[i].block \in Nat /\ b[i].block \in Nat /\ a[i].block <= b[i].block
                /\ a[i].excess \in Nat /\ b[i].excess \in Nat /\ a[i].excess <= b[i].excess
                /\ a[i].success => b[i].success,
           HasMetrics(Aggregated(a)), HasMetrics(Aggregated(b))
    PROVE  /\ Aggregated(a).successes <= Aggregated(b).successes
           /\ Aggregated(a).blocked <= Aggregated(b).blocked
           /\ Aggregated(a).averageExcess <= Aggregated(b).averageExcess
<1> DEFINE N == 1 .. n
<1>1. IsFiniteSet(N)
  BY NumbersAreFinite
<1>2. Aggregated(a).successes <= Aggregated(b).successes
  <2> DEFINE A == {i \in N : a[i].success}
             B == {i \in N : b[i].success}
  <2>1. A \in SUBSET B /\ B \in SUBSET N
    OBVIOUS
  <2>2. Aggregated(a).successes = Cardinality(A) /\ Aggregated(b).successes = Cardinality(B)
    BY MetricsAre
  <2> HIDE DEF A, B, N
  <2>3. IsFiniteSet(B)
    BY <1>1, <2>1, FS_Subset
  <2>4. Cardinality(A) <= Cardinality(B)
    BY <2>1, <2>3, FS_Subset
  <2> QED
    BY <2>2, <2>4
<1>3. TotalBlock(a) <= TotalBlock(b)
  <2> DEFINE u == [i \in N |-> a[i].block]
             v == [i \in N |-> b[i].block]
  <2>1. TotalBlock(a) = SumOver(u, 1 .. n)
    <3>1. \A i \in 1 .. n : u[i] = a[i].block
      OBVIOUS
    <3> HIDE DEF u
    <3> QED
      BY <3>1, TotalBlockIsSum
  <2>2. TotalBlock(b) = SumOver(v, 1 .. n)
    <3>1. \A i \in 1 .. n : v[i] = b[i].block
      OBVIOUS
    <3> HIDE DEF v
    <3> QED
      BY <3>1, TotalBlockIsSum
  <2>3. \A i \in N : u[i] \in Int /\ v[i] \in Int /\ u[i] <= v[i]
    OBVIOUS
  <2> HIDE DEF u, v
  <2>4. SumOver(u, N) <= SumOver(v, N)
    <3> HIDE DEF N
    <3> QED
      BY <1>1, <2>3, SumRises
  <2> QED
    BY <2>1, <2>2, <2>4
<1>4. TotalExcess(a) \in Nat /\ TotalExcess(b) \in Nat /\ TotalExcess(a) <= TotalExcess(b)
  <2> DEFINE u == [i \in N |-> a[i].excess]
             v == [i \in N |-> b[i].excess]
  <2>1. TotalExcess(a) = SumOver(u, 1 .. n)
    <3>1. \A i \in 1 .. n : u[i] = a[i].excess
      OBVIOUS
    <3> HIDE DEF u
    <3> QED
      BY <3>1, TotalExcessIsSum
  <2>2. TotalExcess(b) = SumOver(v, 1 .. n)
    <3>1. \A i \in 1 .. n : v[i] = b[i].excess
      OBVIOUS
    <3> HIDE DEF v
    <3> QED
      BY <3>1, TotalExcessIsSum
  <2>3. \A i \in N : u[i] \in Nat /\ v[i] \in Nat /\ u[i] <= v[i]
    OBVIOUS
  <2> HIDE DEF u, v, N
  <2>4. SumOver(u, N) <= SumOver(v, N)
    BY <1>1, <2>3, SumRises
  <2>5. SumOver(u, N) \in Nat
    BY <1>1, <2>3, SumOfNaturals
  <2>6. SumOver(v, N) \in Nat
    BY <1>1, <2>3, SumOfNaturals
  <2> QED
    BY <2>1, <2>2, <2>4, <2>5, <2>6 DEF N
<1>5. HalfUp(TotalExcess(a), n) <= HalfUp(TotalExcess(b), n)
  BY <1>4, HalfUpRises
<1> QED
  BY <1>2, <1>3, <1>5, MetricsAre

\* What a comparison is made of: joined rides, and what a model predicts for
\* each of them.
AreCompared(rides, raws) ==
    \E m \in Nat :
        /\ m > 0 /\ DOMAIN rides = 1 .. m /\ Len(rides) = m
        /\ \A i \in 1 .. m : IsJoinedRide(rides[i]) /\ IsRaw(raws[rides[i].id])

Certain(raws, ride, blockOf, target) == Cdf(Repaired(raws[ride.id]), blockOf[ride.id]) >= target * Scale

LEMMA TargetsAreNumbers == \A profile \in Profiles : Target[profile] \in Int
<1>1. Target \in [Profiles -> 1 .. 99] /\ \A n \in 1 .. 99 : n \in Int
  BY OptimizerAssumption
<1> QED
  BY <1>1

\* Ride by ride the stricter of two profiles reserves no less, and each of them
\* meets its target.
LEMMA ComparedBlocks ==
    ASSUME NEW rides, NEW raws, NEW m \in Nat, DOMAIN rides = 1 .. m,
           \A i \in 1 .. m : IsJoinedRide(rides[i]) /\ IsRaw(raws[rides[i].id]),
           NEW compared, NEW step, Comparable(compared, rides, raws, step),
           NEW lax \in Profiles \cap compared, NEW strict \in Profiles \cap compared,
           Target[lax] <= Target[strict], NEW i \in 1 .. m
    PROVE  LET x == BlocksBy(lax, rides, raws, step)[rides[i].id]
               y == BlocksBy(strict, rides, raws, step)[rides[i].id]
           IN  /\ x \in Nat /\ y \in Nat /\ x <= y
               /\ Cdf(Repaired(raws[rides[i].id]), x) >= Target[lax] * Scale
<1> DEFINE id == rides[i].id
           ride == CHOOSE r \in Range(rides) : r.id = id
           q == Repaired(raws[id])
           x == BlocksBy(lax, rides, raws, step)[id]
           y == BlocksBy(strict, rides, raws, step)[id]
<1>1. \E r \in Range(rides) : r.id = id
  BY DEF Range
<1>2. ride \in Range(rides) /\ ride.id = id
  BY <1>1
<1>3. PICK j \in 1 .. m : ride = rides[j]
  BY <1>2 DEF Range
<1>4. ride.est \in Int
  <2>1. rides[j].est \in Nat \ {0}
    BY DEF IsJoinedRide
  <2> HIDE DEF ride
  <2> QED
    BY <1>3, <2>1
<1>5. IsDistribution(q)
  BY RepairPublishes
<1>6. ASSUME NEW s \in Profiles
      PROVE  BlockBy(s, ride, raws[id], step) = Recommend(ride.est, q, step, Target[s])
  <2>1. s # "exact_estimate" /\ s # "fixed_buffer"
    BY CommandAssumption
  <2> QED
    BY <2>1 DEF BlockBy, RecommendFor, TargetOf
<1>7. ASSUME NEW s \in Profiles \cap compared
      PROVE  /\ BlocksBy(s, rides, raws, step)[id] = Recommend(ride.est, q, step, Target[s])
             /\ Recommend(ride.est, q, step, Target[s]) \notin {Unreachable, TooManySteps}
  <2>1. BlocksBy(s, rides, raws, step)[id] = BlockBy(s, ride, raws[id], step)
    BY <1>1 DEF BlocksBy
  <2>2. BlockBy(s, ride, raws[ride.id], step) \notin {Unreachable, TooManySteps}
    BY <1>2 DEF Comparable
  <2> QED
    BY <1>2, <1>6, <2>1, <2>2
<1> HIDE DEF id, ride, q
<1>8. /\ Recommend(ride.est, q, step, Target[lax]) \in Nat
      /\ Recommend(ride.est, q, step, Target[strict]) \in Nat
      /\ Recommend(ride.est, q, step, Target[lax]) <= Recommend(ride.est, q, step, Target[strict])
  BY <1>4, <1>5, <1>7, TargetsAreNumbers, StricterIsLarger
<1>9. Recommend(ride.est, q, step, Target[lax]) \in Feasible(ride.est, q, step, Target[lax])
  BY <1>4, <1>5, <1>7, AnswerMeetsTarget
<1>10. Cdf(q, Recommend(ride.est, q, step, Target[lax])) >= Target[lax] * Scale
  BY <1>9 DEF Feasible
<1>11. x = Recommend(ride.est, q, step, Target[lax]) /\ y = Recommend(ride.est, q, step, Target[strict])
  BY <1>7
<1> HIDE DEF x, y
<1> QED
  BY <1>8, <1>10, <1>11 DEF x, y, id, q

\* So the figures of the stricter profile are the larger ones, and the laxer
\* one meets its target for every ride.
LEMMA ComparisonRises ==
    ASSUME NEW rides, NEW raws, AreCompared(rides, raws), NEW compared, NEW step,
           Comparable(compared, rides, raws, step),
           \A s \in compared : HasMetrics(Compared(compared, rides, raws, step)[s]),
           NEW lax \in Profiles \cap compared, NEW strict \in Profiles \cap compared,
           Target[lax] <= Target[strict]
    PROVE  LET metrics == Compared(compared, rides, raws, step)
           IN  /\ metrics[lax].successes <= metrics[strict].successes
               /\ metrics[lax].blocked <= metrics[strict].blocked
               /\ metrics[lax].averageExcess <= metrics[strict].averageExcess
               /\ Diagnostics(lax, rides, raws, step).satisfied = metrics[lax].count
<1>1. PICK m \in Nat :
            /\ m > 0 /\ DOMAIN rides = 1 .. m /\ Len(rides) = m
            /\ \A i \in 1 .. m : IsJoinedRide(rides[i]) /\ IsRaw(raws[rides[i].id])
  BY DEF AreCompared
<1> DEFINE x == BlocksBy(lax, rides, raws, step)
           y == BlocksBy(strict, rides, raws, step)
           a == [i \in 1 .. m |-> Evaluated(rides[i], x[rides[i].id])]
           b == [i \in 1 .. m |-> Evaluated(rides[i], y[rides[i].id])]
           metrics == Compared(compared, rides, raws, step)
<1>2. \A i \in 1 .. m :
        /\ x[rides[i].id] \in Nat /\ y[rides[i].id] \in Nat /\ x[rides[i].id] <= y[rides[i].id]
        /\ Certain(raws, rides[i], x, Target[lax])
  BY <1>1, ComparedBlocks DEF Certain
<1>3. metrics[lax] = Aggregated(a) /\ metrics[strict] = Aggregated(b)
  BY <1>1 DEF Compared, MetricsOf, Blocks
<1>4. HasMetrics(Aggregated(a)) /\ HasMetrics(Aggregated(b))
  BY <1>3
<1>5. Diagnostics(lax, rides, raws, step).satisfied
        = Cardinality({i \in 1 .. m : Certain(raws, rides[i], x, Target[lax])})
  BY <1>1 DEF Diagnostics, Count, Certain
<1> HIDE DEF x, y, metrics
<1>6. /\ DOMAIN a = 1 .. m /\ Len(a) = m
      /\ DOMAIN b = 1 .. m /\ Len(b) = m
  OBVIOUS
<1>7. ASSUME NEW i \in 1 .. m
      PROVE  /\ a[i].block \in Nat /\ b[i].block \in Nat /\ a[i].block <= b[i].block
             /\ a[i].excess \in Nat /\ b[i].excess \in Nat /\ a[i].excess <= b[i].excess
             /\ a[i].success => b[i].success
  <2> DEFINE u == x[rides[i].id]
             v == y[rides[i].id]
  <2>1. u \in Nat /\ v \in Nat /\ u <= v
    BY <1>2
  <2>2. rides[i].fare \in Int
    BY <1>1 DEF IsJoinedRide
  <2>3. a[i] = Evaluated(rides[i], u) /\ b[i] = Evaluated(rides[i], v)
    OBVIOUS
  <2> HIDE DEF u, v, a, b
  <2>4. u \in Int /\ v \in Int
    BY <2>1
  <2> QED
    BY <2>1, <2>2, <2>3, <2>4, EvaluationRises
<1> HIDE DEF a, b
<1>8. /\ Aggregated(a).successes <= Aggregated(b).successes
      /\ Aggregated(a).blocked <= Aggregated(b).blocked
      /\ Aggregated(a).averageExcess <= Aggregated(b).averageExcess
  BY <1>1, <1>4, <1>6, <1>7, MetricsRise
<1>9. Aggregated(a).count = m
  BY <1>4, <1>6, MetricsAre
<1>10. Cardinality({i \in 1 .. m : Certain(raws, rides[i], x, Target[lax])}) = m
  <2>1. {i \in 1 .. m : Certain(raws, rides[i], x, Target[lax])} = 1 .. m
    BY <1>2
  <2>2. Cardinality(1 .. m) = m
    <3>1. 1 \in Int /\ m \in Int /\ 1 <= m
      BY <1>1
    <3> QED
      BY <3>1, FS_Interval
  <2> QED
    BY <2>1, <2>2
<1> QED
  BY <1>3, <1>5, <1>8, <1>9, <1>10 DEF metrics

-----------------------------------------------------------------------------
(* The order of the sweep: rides told apart and sorted.                    *)

\* Rides told apart by their ids, none of which ends before it starts.
IsSwept(r) ==
    /\ r.id \in Int /\ r.est \in Nat \ {0} /\ r.fare \in Nat \ {0}
    /\ r.start \in Int /\ r.end \in Int /\ r.ratio \in Nat \ {0}
    /\ r.start <= r.end
AreSwept(S) ==
    /\ IsFiniteSet(S) /\ \A r \in S : IsSwept(r)
    /\ \A r, t \in S : r.id = t.id => r = t

StartOrder(S) == {pair \in S \X S : IsLeft(ByStart, pair[1], pair[2])}
EndOrder(S) == {pair \in S \X S : IsLeft(ByEnd, pair[1], pair[2])}

\* Which is the earlier one.
StartsBefore(a, b) == a.start < b.start \/ (a.start = b.start /\ a.id < b.id)
EndsBefore(a, b) == a.end < b.end \/ (a.end = b.end /\ a.id < b.id)

LEMMA LeftMeans ==
    \A a, b : /\ IsLeft(ByStart, a, b) <=> StartsBefore(a, b)
              /\ IsLeft(ByEnd, a, b) <=> EndsBefore(a, b)
BY DEF IsLeft, ByStart, ByEnd, StartsBefore, EndsBefore

LEMMA OrdersAreStrict ==
    ASSUME NEW S, AreSwept(S)
    PROVE  /\ \A a, b \in S : <<a, b>> \in StartOrder(S) <=> StartsBefore(a, b)
           /\ \A a, b \in S : <<a, b>> \in EndOrder(S) <=> EndsBefore(a, b)
           /\ IsStrictOrder(StartOrder(S), S)
           /\ IsStrictOrder(EndOrder(S), S)
<1>1. \A a, b \in S : <<a, b>> \in StartOrder(S) <=> StartsBefore(a, b)
  BY LeftMeans DEF StartOrder
<1>2. \A a, b \in S : <<a, b>> \in EndOrder(S) <=> EndsBefore(a, b)
  BY LeftMeans DEF EndOrder
<1>3. \A r \in S : r.id \in Int /\ r.start \in Int /\ r.end \in Int
  BY DEF AreSwept, IsSwept
<1>4. \A r, t \in S : r.id = t.id => r = t
  BY DEF AreSwept
<1>5. \A x \in S : ~StartsBefore(x, x) /\ ~EndsBefore(x, x)
  BY <1>3 DEF StartsBefore, EndsBefore
<1>6. \A x, y, z \in S : StartsBefore(x, y) /\ StartsBefore(y, z) => StartsBefore(x, z)
  BY <1>3 DEF StartsBefore
<1>7. \A x, y, z \in S : EndsBefore(x, y) /\ EndsBefore(y, z) => EndsBefore(x, z)
  BY <1>3 DEF EndsBefore
<1>8. \A x, y \in S : x = y \/ StartsBefore(x, y) \/ StartsBefore(y, x)
  BY <1>3, <1>4 DEF StartsBefore
<1>9. \A x, y \in S : x = y \/ EndsBefore(x, y) \/ EndsBefore(y, x)
  BY <1>3, <1>4 DEF EndsBefore
<1>10. IsStrictOrder(StartOrder(S), S)
  BY <1>1, <1>5, <1>6, <1>8 DEF IsStrictOrder
<1>11. IsStrictOrder(EndOrder(S), S)
  BY <1>2, <1>5, <1>7, <1>9 DEF IsStrictOrder
<1> QED
  BY <1>1, <1>2, <1>10, <1>11

LEMMA SortedLists ==
    ASSUME NEW S, AreSwept(S)
    PROVE  \E n \in Nat :
            /\ n = Cardinality(S)
            /\ Lists(Sorted(S, ByStart), n, StartOrder(S), S)
            /\ Lists(Sorted(S, ByEnd), n, EndOrder(S), S)
<1> DEFINE n == Cardinality(S)
           s == Sorted(S, ByStart)
           t == Sorted(S, ByEnd)
<1>0. IsFiniteSet(S) /\ n \in Nat /\ IsStrictOrder(StartOrder(S), S) /\ IsStrictOrder(EndOrder(S), S)
  BY OrdersAreStrict, FS_CardinalityType DEF AreSwept
<1>1. ASSUME NEW r \in S
      PROVE  /\ {x \in S : IsLeft(ByStart, x, r)} = {x \in S : <<x, r>> \in StartOrder(S)}
             /\ {x \in S : IsLeft(ByEnd, x, r)} = {x \in S : <<x, r>> \in EndOrder(S)}
  BY OrdersAreStrict, LeftMeans
<1> DEFINE StartRank(r) == Cardinality({x \in S : IsLeft(ByStart, x, r)})
           EndRank(r) == Cardinality({x \in S : IsLeft(ByEnd, x, r)})
<1>2. /\ \A r \in S : StartRank(r) = RankIn(StartOrder(S), S, r)
      /\ \A r \in S : EndRank(r) = RankIn(EndOrder(S), S, r)
  BY <1>1 DEF RankIn
<1>3. s = [i \in 1 .. n |-> CHOOSE r \in S : StartRank(r) = i - 1]
  BY DEF Sorted, InOrder
<1>4. t = [i \in 1 .. n |-> CHOOSE r \in S : EndRank(r) = i - 1]
  BY DEF Sorted, InOrder
<1> HIDE DEF StartRank, EndRank
<1>5. \A i \in 1 .. n : \E r \in S : StartRank(r) = i - 1
  BY <1>0, <1>2, RanksAreTaken
<1>6. \A i \in 1 .. n : \E r \in S : EndRank(r) = i - 1
  BY <1>0, <1>2, RanksAreTaken
<1> HIDE DEF s, t, n
<1>7. \A i \in 1 .. n : s[i] \in S /\ StartRank(s[i]) = i - 1
  BY <1>3, <1>5
<1>8. \A i \in 1 .. n : t[i] \in S /\ EndRank(t[i]) = i - 1
  BY <1>4, <1>6
<1>9. s \in [1 .. n -> S] /\ \A i \in 1 .. n : RankIn(StartOrder(S), S, s[i]) = i - 1
  BY <1>2, <1>3, <1>7
<1>10. t \in [1 .. n -> S] /\ \A i \in 1 .. n : RankIn(EndOrder(S), S, t[i]) = i - 1
  BY <1>2, <1>4, <1>8
<1>11. Lists(s, n, StartOrder(S), S)
  BY <1>0, <1>9, RankedLists DEF n
<1>12. Lists(t, n, EndOrder(S), S)
  BY <1>0, <1>10, RankedLists DEF n
<1> QED
  BY <1>0, <1>11, <1>12 DEF s, t, n

\* What is selected is taken from increasing places, and from all of them.
Increasing(I) == InOrder(I, LAMBDA i, j : i < j)

LEMMA PlacesAreListed ==
    ASSUME NEW n \in Nat, NEW I \in SUBSET (1 .. n)
    PROVE  \E m \in Nat :
            /\ m = Cardinality(I)
            /\ Increasing(I) \in [1 .. m -> I]
            /\ \A i \in I : \E k \in 1 .. m : Increasing(I)[k] = i
            /\ \A k, l \in 1 .. m : k < l => Increasing(I)[k] < Increasing(I)[l]
<1> DEFINE R == {pair \in I \X I : pair[1] < pair[2]}
           m == Cardinality(I)
           Rank(r) == Cardinality({x \in I : x < r})
           s == Increasing(I)
<1>1. IsFiniteSet(I) /\ \A i \in I : i \in Int
  <2>1. IsFiniteSet(1 .. n)
    BY NumbersAreFinite
  <2>2. IsFiniteSet(I)
    BY <2>1, FS_Subset
  <2> QED
    BY <2>2
<1>2. \A x, y \in I : <<x, y>> \in R <=> x < y
  OBVIOUS
<1>3. s = [i \in 1 .. m |-> CHOOSE r \in I : Rank(r) = i - 1]
  BY DEF Increasing, InOrder
<1>4. \A r \in I : RankIn(R, I, r) = Rank(r)
  <2> TAKE r \in I
  <2>1. {x \in I : <<x, r>> \in R} = {x \in I : x < r}
    BY <1>2
  <2> QED
    BY <2>1 DEF RankIn
<1> HIDE DEF R, Rank, s, m
<1>5. IsStrictOrder(R, I)
  BY <1>1, <1>2 DEF IsStrictOrder
<1>6. \A i \in 1 .. m : \E r \in I : Rank(r) = i - 1
  BY <1>1, <1>4, <1>5, RanksAreTaken DEF m
<1>7. \A i \in 1 .. m : s[i] \in I /\ Rank(s[i]) = i - 1
  BY <1>3, <1>6
<1>8. s \in [1 .. m -> I] /\ \A i \in 1 .. m : RankIn(R, I, s[i]) = i - 1
  BY <1>3, <1>4, <1>7
<1>9. m \in Nat /\ Lists(s, m, R, I)
  BY <1>1, <1>5, <1>8, RankedLists DEF m
<1>10. \A k, l \in 1 .. m : k < l => s[k] < s[l]
  BY <1>2, <1>8, <1>9 DEF Lists
<1>11. \A i \in I : \E k \in 1 .. m : s[k] = i
  BY <1>9 DEF Lists
<1> QED
  BY <1>8, <1>9, <1>10, <1>11 DEF s, m

-----------------------------------------------------------------------------
(* The history a ride is given, looked up among all the rides.             *)

\* The history of a ride among the rides of S.
EarlierRides(S, ride) == {r \in S : r.customer = ride.customer /\ r.id # ride.id /\ r.end < ride.start}
HistoryIn(S, ride) == Features(Ratios(Sorted(EarlierRides(S, ride), ByEnd)))

LEMMA FeaturesForIn ==
    ASSUME NEW records, NEW ride PROVE FeaturesFor(records, ride) = HistoryIn(Range(records), ride)
BY DEF FeaturesFor, HistoryBefore, HistoryIn, EarlierRides

LEMMA SweptSubset ==
    ASSUME NEW S, AreSwept(S), NEW T \in SUBSET S PROVE AreSwept(T)
<1>1. IsFiniteSet(T)
  BY FS_Subset DEF AreSwept
<1> QED
  BY <1>1 DEF AreSwept

\* When all rides completed before a ride are in order of completion, those of
\* its customer are the history that is looked up.
LEMMA HistoryIsSelected ==
    ASSUME NEW S, AreSwept(S), NEW ride \in S, NEW completed \in Seq(S),
           \A i, j \in DOMAIN completed : i < j => EndsBefore(completed[i], completed[j]),
           \A r \in S : (\E i \in DOMAIN completed : completed[i] = r) <=> r.end < ride.start
    PROVE  Of(ride.customer, completed) = Sorted(EarlierRides(S, ride), ByEnd)
<1> DEFINE H == EarlierRides(S, ride)
           n == Len(completed)
           I == {i \in DOMAIN completed : completed[i].customer = ride.customer}
           places == Increasing(I)
           chosen == Of(ride.customer, completed)
<1>1. n \in Nat /\ DOMAIN completed = 1 .. n /\ I \in SUBSET (1 .. n)
  OBVIOUS
<1>2. PICK m \in Nat :
            /\ places \in [1 .. m -> I]
            /\ \A i \in I : \E k \in 1 .. m : places[k] = i
            /\ \A k, l \in 1 .. m : k < l => places[k] < places[l]
  <2> HIDE DEF I
  <2> QED
    BY <1>1, PlacesAreListed
<1>3. chosen = [k \in DOMAIN places |-> completed[places[k]]]
  BY DEF Of, Selected, Places, Increasing
<1>4. H \in SUBSET S /\ AreSwept(H)
  BY SweptSubset DEF EarlierRides
<1>5. \A r \in S : r \in H <=> r.customer = ride.customer /\ \E i \in DOMAIN completed : completed[i] = r
  <2> TAKE r \in S
  <2>1. r \in H <=> r.customer = ride.customer /\ r.id # ride.id /\ r.end < ride.start
    BY DEF EarlierRides
  <2>2. r.end < ride.start => r.id # ride.id
    <3>1. r.id = ride.id => r = ride
      BY DEF AreSwept
    <3>2. ride.start <= ride.end /\ ride.start \in Int /\ ride.end \in Int
      BY DEF AreSwept, IsSwept
    <3> QED
      BY <3>1, <3>2
  <2> QED
    BY <2>1, <2>2
<1>6. \A i \in I : completed[i] \in H
  BY <1>5
<1> HIDE DEF H, I, places, chosen, n
<1>7. chosen \in [1 .. m -> H]
  BY <1>2, <1>3, <1>6
<1>8. \A r \in H : \E k \in 1 .. m : chosen[k] = r
  <2> TAKE r \in H
  <2>1. PICK i \in DOMAIN completed : completed[i] = r
    BY <1>4, <1>5
  <2>2. i \in I
    BY <1>4, <1>5, <2>1 DEF I
  <2> QED
    BY <1>2, <1>3, <2>1, <2>2
<1>9. ASSUME NEW k \in 1 .. m, NEW l \in 1 .. m, k < l
      PROVE  EndsBefore(chosen[k], chosen[l])
  <2>1. places[k] \in DOMAIN completed /\ places[l] \in DOMAIN completed /\ places[k] < places[l]
    BY <1>2, <1>9 DEF I
  <2>2. chosen[k] = completed[places[k]] /\ chosen[l] = completed[places[l]]
    BY <1>2, <1>3
  <2> QED
    BY <2>1, <2>2
<1>10. Lists(chosen, m, EndOrder(H), H)
  <2>1. \A a, b \in H : <<a, b>> \in EndOrder(H) <=> EndsBefore(a, b)
    BY <1>4, OrdersAreStrict
  <2> QED
    BY <1>7, <1>8, <1>9, <2>1 DEF Lists
<1>11. PICK h \in Nat : Lists(Sorted(H, ByEnd), h, EndOrder(H), H)
  BY <1>4, SortedLists
<1>12. IsStrictOrder(EndOrder(H), H)
  BY <1>4, OrdersAreStrict
<1>13. chosen = Sorted(H, ByEnd)
  BY <1>10, <1>11, <1>12, ListsAgree
<1> QED
  BY <1>13 DEF chosen, H

\* Features of positive ratios are what the code accepts.
LEMMA FeaturesAreAccepted ==
    ASSUME NEW n \in Nat, NEW ratios \in [1 .. n -> Nat \ {0}]
    PROVE  AreFeatures(Features(ratios))
<1> DEFINE S == 1 .. n
           v == [i \in S |-> ratios[i] * ratios[i]]
           O == Overruns(ratios)
           w == [i \in O |-> ratios[i] - 100]
           f == Features(ratios)
<1>1. IsFiniteSet(S) /\ Cardinality(S) = n /\ DOMAIN ratios = S /\ Len(ratios) = n
  BY FS_Interval
<1>2. O \in SUBSET S /\ IsFiniteSet(O) /\ Cardinality(O) \in Nat /\ Cardinality(O) <= n
  <2>1. O \in SUBSET S
    BY DEF Overruns
  <2> HIDE DEF O, S
  <2> QED
    BY <1>1, <2>1, FS_Subset, FS_CardinalityType
<1>3. /\ f.count = n
      /\ f.total = SumFunction([i \in DOMAIN ratios |-> ratios[i]])
      /\ f.squares = SumFunction([i \in DOMAIN ratios |-> ratios[i] * ratios[i]])
      /\ f.overruns = Cardinality(O)
      /\ f.overrun = SumFunction(w)
  BY <1>1 DEF Features, Total
<1>4. f.total = SumOver(ratios, S)
  <2> DEFINE g == [i \in DOMAIN ratios |-> ratios[i]]
  <2>1. DOMAIN g = S /\ \A i \in S : g[i] = ratios[i]
    BY <1>1
  <2> HIDE DEF g, S
  <2>2. SumFunction(g) = SumOver(ratios, S)
    BY <1>1, <2>1, FoldIsSumOf
  <2> QED
    BY <1>3, <2>2 DEF g
<1>5. f.squares = SumOver(v, S)
  <2> DEFINE g == [i \in DOMAIN ratios |-> ratios[i] * ratios[i]]
  <2>1. DOMAIN g = S /\ \A i \in S : g[i] = v[i]
    BY <1>1
  <2> HIDE DEF g, v, S
  <2>2. SumFunction(g) = SumOver(v, S)
    BY <1>1, <2>1, FoldIsSumOf
  <2> QED
    BY <1>3, <2>2 DEF g
<1>6. f.overrun = SumOver(w, O)
  <2>1. DOMAIN w = O /\ \A i \in O : w[i] = w[i]
    OBVIOUS
  <2> HIDE DEF w, O
  <2>2. SumFunction(w) = SumOver(w, O)
    BY <1>2, <2>1, FoldIsSumOf
  <2> QED
    BY <1>3, <2>2
<1>7. \A i \in S : ratios[i] \in Nat \ {0} /\ ratios[i] \in Int /\ v[i] \in Int
  OBVIOUS
<1>8. AreSquares(v, ratios, S)
  BY DEF AreSquares
<1>9. \A i \in O : w[i] \in Nat
  BY <1>2, <1>7 DEF Overruns
<1> HIDE DEF f, O, w, v, S
<1>10. f.count * f.squares >= f.total * f.total
  <2>1. Cardinality(S) * SumOver(v, S) >= SumOver(ratios, S) * SumOver(ratios, S)
    BY <1>1, <1>7, <1>8, SquareOfSum
  <2> QED
    BY <1>1, <1>3, <1>4, <1>5, <2>1
<1>11. f.overruns \in 0 .. f.count
  BY <1>2, <1>3
<1>12. f.overrun >= 0
  <2>1. SumOver(w, O) \in Nat
    BY <1>2, <1>9, SumOfNaturals
  <2> QED
    BY <1>6, <2>1
<1>13. f.count > 0 => f.total > 0
  <2> SUFFICES ASSUME n > 0 PROVE f.total > 0
    BY <1>3
  <2>1. S # {}
    BY DEF S
  <2>2. SumOver(ratios, S) > 0
    BY <1>1, <1>7, <2>1, SumIsPositive
  <2> QED
    BY <1>4, <2>2
<1> QED
  BY <1>10, <1>11, <1>12, <1>13 DEF AreFeatures, f

\* So are those of any history.
LEMMA HistoryIsAccepted ==
    ASSUME NEW S, AreSwept(S), NEW ride
    PROVE  AreFeatures(HistoryIn(S, ride))
<1> DEFINE H == EarlierRides(S, ride)
           s == Sorted(H, ByEnd)
<1>1. H \in SUBSET S /\ AreSwept(H)
  BY SweptSubset DEF EarlierRides
<1> HIDE DEF H
<1>2. PICK n \in Nat : Lists(s, n, EndOrder(H), H)
  BY <1>1, SortedLists
<1>3. s \in [1 .. n -> H] /\ \A r \in H : r.ratio \in Nat \ {0}
  BY <1>1, <1>2 DEF Lists, AreSwept, IsSwept
<1> HIDE DEF s
<1>4. Ratios(s) \in [1 .. n -> Nat \ {0}]
  BY <1>3 DEF Ratios
<1>5. AreFeatures(Features(Ratios(s)))
  BY <1>4, FeaturesAreAccepted
<1> QED
  BY <1>5 DEF HistoryIn, H, s

-----------------------------------------------------------------------------
(* What holds of a sweep, and of each of its steps.                        *)

Cases(S) == {[ride |-> r, history |-> HistoryIn(S, r)] : r \in S}

\* A sweep over the rides of S: what is still to come starts no earlier than
\* what was passed, and what is released was completed before all of it.
IsSweep(S, sweep) ==
    /\ sweep = [todo |-> sweep.todo, pending |-> sweep.pending,
                completed |-> sweep.completed, built |-> sweep.built]
    /\ sweep.todo \in Seq(S) /\ sweep.completed \in Seq(S) /\ sweep.pending \subseteq S
    /\ sweep.built \in Seq(Cases(S))

InTime(S, sweep) ==
    /\ \A i, j \in DOMAIN sweep.todo : i < j => StartsBefore(sweep.todo[i], sweep.todo[j])
    /\ \A i \in DOMAIN sweep.built, j \in DOMAIN sweep.todo :
        sweep.built[i].ride.start <= sweep.todo[j].start
    /\ \A i, j \in DOMAIN sweep.built : i < j => sweep.built[i].ride.start <= sweep.built[j].ride.start
    /\ \A i, j \in DOMAIN sweep.completed : i < j => EndsBefore(sweep.completed[i], sweep.completed[j])
    /\ \A i \in DOMAIN sweep.completed, r \in sweep.pending : EndsBefore(sweep.completed[i], r)
    /\ \A i \in DOMAIN sweep.completed, j \in DOMAIN sweep.todo :
        sweep.completed[i].end < sweep.todo[j].start

NoneIsLost(S, sweep) ==
    /\ \A r \in S : \/ \E j \in DOMAIN sweep.todo : sweep.todo[j] = r
                    \/ \E i \in DOMAIN sweep.built : sweep.built[i].ride = r
    /\ \A i \in DOMAIN sweep.built : \/ sweep.built[i].ride \in sweep.pending
                                     \/ \E k \in DOMAIN sweep.completed :
                                            sweep.completed[k] = sweep.built[i].ride

SweepHolds(S, sweep) == IsSweep(S, sweep) /\ InTime(S, sweep) /\ NoneIsLost(S, sweep)

LEMMA SweepBegins ==
    ASSUME NEW records, AreSwept(Range(records))
    PROVE  SweepHolds(Range(records), SweepInit(records))
<1> DEFINE S == Range(records)
           sweep == SweepInit(records)
           s == Sorted(S, ByStart)
<1>1. PICK n \in Nat : Lists(s, n, StartOrder(S), S)
  BY SortedLists
<1>2. /\ sweep = [todo |-> s, pending |-> {}, completed |-> <<>>, built |-> <<>>]
  BY DEF SweepInit
<1>3. s \in Seq(S) /\ DOMAIN s = 1 .. n
  BY <1>1 DEF Lists
<1>4. \A a, b \in S : <<a, b>> \in StartOrder(S) => StartsBefore(a, b)
  BY OrdersAreStrict
<1> HIDE DEF s, sweep, S
<1>5. \A i, j \in DOMAIN s : i < j => StartsBefore(s[i], s[j])
  BY <1>1, <1>3, <1>4 DEF Lists
<1>6. \A r \in S : \E j \in DOMAIN s : s[j] = r
  BY <1>1, <1>3 DEF Lists
<1>7. IsSweep(S, sweep)
  BY <1>2, <1>3 DEF IsSweep
<1>8. InTime(S, sweep)
  BY <1>2, <1>5 DEF InTime
<1>9. NoneIsLost(S, sweep)
  BY <1>2, <1>6 DEF NoneIsLost
<1> QED
  BY <1>7, <1>8, <1>9 DEF SweepHolds, S, sweep

LEMMA ReleaseHolds ==
    ASSUME NEW S, AreSwept(S), NEW sweep, SweepHolds(S, sweep), sweep.todo # <<>>, Due(sweep)
    PROVE  SweepHolds(S, Release(sweep))
<1> DEFINE P == sweep.pending
           first == CHOOSE r \in P : \A other \in P \ {r} : IsLeft(ByEnd, r, other)
           next == Release(sweep)
           c == sweep.completed
           d == Append(c, first)
           n == Len(c)
           head == Head(sweep.todo)
<1>1. /\ sweep = [todo |-> sweep.todo, pending |-> P, completed |-> c, built |-> sweep.built]
      /\ sweep.todo \in Seq(S) /\ c \in Seq(S) /\ P \subseteq S /\ sweep.built \in Seq(Cases(S))
  BY DEF SweepHolds, IsSweep
<1>2. PICK due \in P : due.end < head.start
  BY DEF Due
<1>3. \A r \in S : r.end \in Int /\ r.start \in Int /\ r.id \in Int
  BY DEF AreSwept, IsSwept
<1>4. \E r \in P : \A other \in P \ {r} : EndsBefore(r, other)
  <2>1. AreSwept(P)
    BY <1>1, SweptSubset
  <2>2. PICK h \in Nat : Lists(Sorted(P, ByEnd), h, EndOrder(P), P)
    BY <2>1, SortedLists
  <2>3. \A a, b \in P : <<a, b>> \in EndOrder(P) <=> EndsBefore(a, b)
    BY <2>1, OrdersAreStrict
  <2> DEFINE l == Sorted(P, ByEnd)
  <2> HIDE DEF l, P
  <2>4. l \in [1 .. h -> P] /\ h > 0
    BY <1>2, <2>2 DEF Lists, l
  <2>5. \A other \in P \ {l[1]} : EndsBefore(l[1], other)
    <3> TAKE other \in P \ {l[1]}
    <3>1. PICK i \in 1 .. h : l[i] = other
      BY <2>2 DEF Lists, l
    <3>2. i > 1
      BY <3>1
    <3>3. <<l[1], l[i]>> \in EndOrder(P)
      BY <2>2, <2>4, <3>2 DEF Lists, l
    <3> QED
      BY <2>3, <2>4, <3>1, <3>3
  <2> QED
    BY <2>4, <2>5
<1>5. first \in P /\ \A other \in P \ {first} : EndsBefore(first, other)
  BY <1>4, LeftMeans
<1>6. next = [todo |-> sweep.todo, pending |-> P \ {first}, completed |-> d, built |-> sweep.built]
  <2>1. next = [sweep EXCEPT !.pending = @ \ {first}, !.completed = Append(@, first)]
    BY DEF Release
  <2> HIDE DEF first, next
  <2>2. next = [[todo |-> sweep.todo, pending |-> P, completed |-> c, built |-> sweep.built]
                    EXCEPT !.pending = @ \ {first}, !.completed = Append(@, first)]
    BY <1>1, <2>1
  <2> HIDE DEF P, c
  <2> QED
    BY <2>2
<1> HIDE DEF first, next, P, c, d
<1>16. first \in S
  BY <1>1, <1>5
<1>7. /\ d \in Seq(S) /\ n \in Nat /\ DOMAIN c = 1 .. n /\ DOMAIN d = 1 .. n + 1
      /\ \A i \in 1 .. n : d[i] = c[i]
      /\ d[n + 1] = first
  BY <1>1, <1>16 DEF d
<1>8. first.end <= due.end
  <2>1. due \in S /\ first.end \in Int /\ due.end \in Int
    BY <1>1, <1>2, <1>3, <1>16
  <2>2. due = first \/ EndsBefore(first, due)
    BY <1>2, <1>5
  <2>3. CASE due = first
    BY <2>1, <2>3
  <2>4. CASE EndsBefore(first, due)
    BY <2>1, <2>4 DEF EndsBefore
  <2> QED
    BY <2>2, <2>3, <2>4
<1>9. head = sweep.todo[1] /\ 1 \in DOMAIN sweep.todo /\ head \in S
  BY <1>1
<1>10. \A j \in DOMAIN sweep.todo : sweep.todo[j] \in S /\ head.start <= sweep.todo[j].start
  <2> TAKE j \in DOMAIN sweep.todo
  <2>1. sweep.todo[j] \in S /\ j \in Int /\ j >= 1
    BY <1>1
  <2>2. j > 1 => StartsBefore(head, sweep.todo[j])
    BY <1>9, <2>1 DEF SweepHolds, InTime
  <2>3. head.start \in Int /\ sweep.todo[j].start \in Int
    BY <1>3, <1>9, <2>1
  <2> QED
    BY <1>9, <2>1, <2>2, <2>3 DEF StartsBefore
<1>11. \A j \in DOMAIN sweep.todo : first.end < sweep.todo[j].start
  <2> TAKE j \in DOMAIN sweep.todo
  <2> DEFINE a == first.end
             b == due.end
             e == head.start
             f == sweep.todo[j].start
  <2>1. sweep.todo[j] \in S /\ due \in S
    BY <1>1, <1>2, <1>10
  <2>2. a \in Int /\ b \in Int /\ e \in Int /\ f \in Int
    BY <1>3, <1>9, <1>16, <2>1
  <2>3. a <= b /\ b < e /\ e <= f
    BY <1>2, <1>8, <1>10
  <2> HIDE DEF a, b, e, f
  <2>4. a < f
    BY <2>2, <2>3
  <2> QED
    BY <2>4 DEF a, f
<1>12. IsSweep(S, next)
  BY <1>1, <1>6, <1>7 DEF IsSweep
<1>13. /\ \A i, j \in DOMAIN c : i < j => EndsBefore(c[i], c[j])
       /\ \A i \in DOMAIN c, r \in P : EndsBefore(c[i], r)
       /\ \A i \in DOMAIN c, j \in DOMAIN sweep.todo : c[i].end < sweep.todo[j].start
  BY DEF SweepHolds, InTime, c, P
<1>14. InTime(S, next)
  <2>1. \A i, j \in DOMAIN d : i < j => EndsBefore(d[i], d[j])
    <3> SUFFICES ASSUME NEW i \in 1 .. n + 1, NEW j \in 1 .. n + 1, i < j PROVE EndsBefore(d[i], d[j])
      BY <1>7
    <3>1. i \in 1 .. n /\ d[i] = c[i]
      BY <1>7
    <3>2. CASE j = n + 1
      BY <1>5, <1>7, <1>13, <3>1, <3>2
    <3>3. CASE j # n + 1
      <4>1. j \in 1 .. n /\ d[j] = c[j]
        BY <1>7, <3>3
      <4> QED
        BY <1>7, <1>13, <3>1, <4>1
    <3> QED
      BY <3>2, <3>3
  <2>2. \A i \in DOMAIN d, r \in P \ {first} : EndsBefore(d[i], r)
    <3> SUFFICES ASSUME NEW i \in 1 .. n + 1, NEW r \in P \ {first} PROVE EndsBefore(d[i], r)
      BY <1>7
    <3>1. CASE i = n + 1
      BY <1>5, <1>7, <3>1
    <3>2. CASE i # n + 1
      <4>1. i \in 1 .. n /\ d[i] = c[i]
        BY <1>7, <3>2
      <4> QED
        BY <1>7, <1>13, <4>1
    <3> QED
      BY <3>1, <3>2
  <2>3. \A i \in DOMAIN d, j \in DOMAIN sweep.todo : d[i].end < sweep.todo[j].start
    <3> SUFFICES ASSUME NEW i \in 1 .. n + 1, NEW j \in DOMAIN sweep.todo
                 PROVE  d[i].end < sweep.todo[j].start
      BY <1>7
    <3>1. CASE i = n + 1
      BY <1>7, <1>11, <3>1
    <3>2. CASE i # n + 1
      <4>1. i \in 1 .. n /\ d[i] = c[i]
        BY <1>7, <3>2
      <4> QED
        BY <1>7, <1>13, <4>1
    <3> QED
      BY <3>1, <3>2
  <2> QED
    BY <1>6, <2>1, <2>2, <2>3 DEF InTime, SweepHolds
<1>15. NoneIsLost(S, next)
  <2>1. \A i \in DOMAIN sweep.built :
            \/ sweep.built[i].ride \in P \ {first}
            \/ \E k \in DOMAIN d : d[k] = sweep.built[i].ride
    <3> TAKE i \in DOMAIN sweep.built
    <3>1. CASE sweep.built[i].ride = first
      BY <1>7, <3>1
    <3>2. CASE sweep.built[i].ride \in P /\ sweep.built[i].ride # first
      BY <3>2
    <3>3. CASE \E k \in DOMAIN c : c[k] = sweep.built[i].ride
      <4>1. PICK k \in 1 .. n : c[k] = sweep.built[i].ride
        BY <1>7, <3>3
      <4>2. k \in 1 .. n + 1 /\ d[k] = c[k]
        BY <1>7
      <4> QED
        BY <1>7, <4>1, <4>2
    <3> QED
      BY <3>1, <3>2, <3>3 DEF SweepHolds, NoneIsLost, P, c
  <2> QED
    BY <1>6, <2>1 DEF NoneIsLost, SweepHolds
<1> QED
  BY <1>12, <1>14, <1>15 DEF SweepHolds, next

LEMMA BuildHolds ==
    ASSUME NEW S, AreSwept(S), NEW sweep, SweepHolds(S, sweep), sweep.todo # <<>>, ~Due(sweep)
    PROVE  SweepHolds(S, Build(sweep))
<1> DEFINE P == sweep.pending
           t == sweep.todo
           u == Tail(t)
           c == sweep.completed
           b == sweep.built
           n == Len(b)
           m == Len(t)
           head == Head(t)
           case == [ride |-> head, history |-> Features(Ratios(Of(head.customer, c)))]
           e == Append(b, case)
           next == Build(sweep)
<1>1. /\ sweep = [todo |-> t, pending |-> P, completed |-> c, built |-> b]
      /\ t \in Seq(S) /\ c \in Seq(S) /\ P \subseteq S /\ b \in Seq(Cases(S))
  BY DEF SweepHolds, IsSweep
<1>2. \A r \in P : ~(r.end < head.start)
  BY DEF Due
<1>3. \A r \in S : r.end \in Int /\ r.start \in Int /\ r.id \in Int /\ r.start <= r.end
  BY DEF AreSwept, IsSwept
<1>4. next = [todo |-> u, pending |-> P \cup {head}, completed |-> c, built |-> e]
  <2>1. next = [sweep EXCEPT !.todo = Tail(@), !.pending = @ \cup {head}, !.built = Append(@, case)]
    BY DEF Build
  <2> HIDE DEF head, case, next
  <2>2. next = [[todo |-> t, pending |-> P, completed |-> c, built |-> b]
                  EXCEPT !.todo = Tail(@), !.pending = @ \cup {head}, !.built = Append(@, case)]
    BY <1>1, <2>1
  <2> HIDE DEF P, c, t, b
  <2> QED
    BY <2>2
<1>5. /\ \A i, j \in DOMAIN t : i < j => StartsBefore(t[i], t[j])
      /\ \A i \in DOMAIN b, j \in DOMAIN t : b[i].ride.start <= t[j].start
      /\ \A i, j \in DOMAIN b : i < j => b[i].ride.start <= b[j].ride.start
      /\ \A i, j \in DOMAIN c : i < j => EndsBefore(c[i], c[j])
      /\ \A i \in DOMAIN c, r \in P : EndsBefore(c[i], r)
      /\ \A i \in DOMAIN c, j \in DOMAIN t : c[i].end < t[j].start
  BY DEF SweepHolds, InTime
<1>6. /\ \A r \in S : (\E j \in DOMAIN t : t[j] = r) \/ (\E i \in DOMAIN b : b[i].ride = r)
      /\ \A i \in DOMAIN b : b[i].ride \in P \/ \E k \in DOMAIN c : c[k] = b[i].ride
  BY DEF SweepHolds, NoneIsLost
<1>7. t # <<>>
  OBVIOUS
<1> HIDE DEF next, P, t, c, b
<1>8. /\ m \in Nat \ {0} /\ DOMAIN t = 1 .. m /\ head = t[1] /\ head \in S
      /\ u \in Seq(S) /\ DOMAIN u = 1 .. m - 1 /\ \A j \in 1 .. m - 1 : u[j] = t[j + 1]
  BY <1>1, <1>7
<1> HIDE DEF u, head, m
<1>9. ASSUME NEW j \in 1 .. m PROVE t[j] \in S /\ head.start <= t[j].start
  <2>1. t[j] \in S /\ j \in Int /\ j >= 1
    BY <1>1, <1>8
  <2>2. j > 1 => StartsBefore(head, t[j])
    BY <1>5, <1>8, <2>1
  <2>3. head.start \in Int /\ t[j].start \in Int
    BY <1>3, <1>8, <2>1
  <2> QED
    BY <1>8, <2>1, <2>2, <2>3 DEF StartsBefore
<1>10. \A i \in DOMAIN c : c[i] \in S
  BY <1>1
<1>11. \A r \in S : (\E i \in DOMAIN c : c[i] = r) <=> r.end < head.start
  <2> TAKE r \in S
  <2>1. ASSUME NEW i \in DOMAIN c, c[i] = r PROVE r.end < head.start
    BY <1>5, <1>8, <2>1
  <2>2. ASSUME r.end < head.start PROVE \E i \in DOMAIN c : c[i] = r
    <3>1. ASSUME NEW j \in DOMAIN t, t[j] = r PROVE FALSE
      <4>1. head.start <= r.start /\ r.start <= r.end
        BY <1>3, <1>8, <1>9, <3>1
      <4>2. head.start \in Int /\ r.start \in Int /\ r.end \in Int
        BY <1>3, <1>8
      <4> QED
        BY <2>2, <4>1, <4>2
    <3>2. PICK i \in DOMAIN b : b[i].ride = r
      BY <1>6, <3>1
    <3>3. r \notin P
      BY <1>2, <2>2
    <3> QED
      BY <1>6, <3>2, <3>3
  <2> QED
    BY <2>1, <2>2
<1>12. case = [ride |-> head, history |-> HistoryIn(S, head)]
  <2>1. Of(head.customer, c) = Sorted(EarlierRides(S, head), ByEnd)
    BY <1>1, <1>5, <1>8, <1>11, HistoryIsSelected
  <2> QED
    BY <2>1 DEF HistoryIn
<1> HIDE DEF case
<1>13. case \in Cases(S) /\ case.ride = head
  BY <1>8, <1>12 DEF Cases
<1>14. /\ e \in Seq(Cases(S)) /\ n \in Nat /\ DOMAIN b = 1 .. n /\ DOMAIN e = 1 .. n + 1
       /\ \A i \in 1 .. n : e[i] = b[i]
       /\ e[n + 1].ride = head
  BY <1>1, <1>13
<1> HIDE DEF e, n
<1>15. IsSweep(S, next)
  <2>1. P \cup {head} \subseteq S
    BY <1>1, <1>8
  <2> QED
    BY <1>1, <1>4, <1>8, <1>14, <2>1 DEF IsSweep
<1>16. InTime(S, next)
  <2>1. \A i, j \in DOMAIN u : i < j => StartsBefore(u[i], u[j])
    <3> SUFFICES ASSUME NEW i \in 1 .. m - 1, NEW j \in 1 .. m - 1, i < j PROVE StartsBefore(u[i], u[j])
      BY <1>8
    <3>1. i + 1 \in 1 .. m /\ j + 1 \in 1 .. m /\ i + 1 < j + 1
      BY <1>8
    <3>2. StartsBefore(t[i + 1], t[j + 1])
      BY <1>5, <1>8, <3>1
    <3> QED
      BY <1>8, <3>2
  <2>2. \A i \in DOMAIN e, j \in DOMAIN u : e[i].ride.start <= u[j].start
    <3> SUFFICES ASSUME NEW i \in 1 .. n + 1, NEW j \in 1 .. m - 1 PROVE e[i].ride.start <= u[j].start
      BY <1>8, <1>14
    <3>1. j + 1 \in 1 .. m /\ u[j] = t[j + 1]
      BY <1>8
    <3>2. CASE i = n + 1
      BY <1>9, <1>14, <3>1, <3>2
    <3>3. CASE i # n + 1
      <4>1. i \in 1 .. n /\ e[i] = b[i]
        BY <1>14, <3>3
      <4> QED
        BY <1>5, <1>8, <1>14, <3>1, <4>1
    <3> QED
      BY <3>2, <3>3
  <2>3. \A i, j \in DOMAIN e : i < j => e[i].ride.start <= e[j].ride.start
    <3> SUFFICES ASSUME NEW i \in 1 .. n + 1, NEW j \in 1 .. n + 1, i < j
                 PROVE  e[i].ride.start <= e[j].ride.start
      BY <1>14
    <3>1. i \in 1 .. n /\ e[i] = b[i]
      BY <1>14
    <3>2. CASE j = n + 1
      <4>1. 1 \in DOMAIN t
        BY <1>8
      <4> QED
        BY <1>5, <1>8, <1>14, <3>1, <3>2, <4>1
    <3>3. CASE j # n + 1
      <4>1. j \in 1 .. n /\ e[j] = b[j]
        BY <1>14, <3>3
      <4> QED
        BY <1>5, <1>14, <3>1, <4>1
    <3> QED
      BY <3>2, <3>3
  <2>4. \A i \in DOMAIN c : EndsBefore(c[i], head)
    <3> TAKE i \in DOMAIN c
    <3>1. c[i].end < head.start /\ head.start <= head.end
      BY <1>3, <1>8, <1>10, <1>11
    <3>2. c[i].end \in Int /\ head.start \in Int /\ head.end \in Int
      BY <1>3, <1>8, <1>10
    <3>3. c[i].end < head.end
      BY <3>1, <3>2
    <3> QED
      BY <3>3 DEF EndsBefore
  <2>5. \A i \in DOMAIN c, r \in P \cup {head} : EndsBefore(c[i], r)
    BY <1>5, <2>4
  <2>6. \A i \in DOMAIN c, j \in DOMAIN u : c[i].end < u[j].start
    <3> SUFFICES ASSUME NEW i \in DOMAIN c, NEW j \in 1 .. m - 1 PROVE c[i].end < u[j].start
      BY <1>8
    <3>1. j + 1 \in 1 .. m /\ u[j] = t[j + 1]
      BY <1>8
    <3> QED
      BY <1>5, <1>8, <3>1
  <2> QED
    BY <1>4, <1>5, <2>1, <2>2, <2>3, <2>5, <2>6 DEF InTime
<1>17. NoneIsLost(S, next)
  <2>1. \A r \in S : (\E j \in DOMAIN u : u[j] = r) \/ (\E i \in DOMAIN e : e[i].ride = r)
    <3> TAKE r \in S
    <3>1. CASE \E j \in DOMAIN t : t[j] = r
      <4>1. PICK j \in 1 .. m : t[j] = r
        BY <1>8, <3>1
      <4>2. CASE j = 1
        <5>1. n + 1 \in DOMAIN e
          BY <1>14
        <5> QED
          BY <1>8, <1>14, <4>1, <4>2, <5>1
      <4>3. CASE j # 1
        <5>1. j - 1 \in 1 .. m - 1 /\ (j - 1) + 1 = j
          BY <1>8, <4>3
        <5>2. u[j - 1] = t[j]
          BY <1>8, <5>1
        <5> QED
          BY <1>8, <4>1, <5>1, <5>2
      <4> QED
        BY <4>2, <4>3
    <3>2. CASE \E i \in DOMAIN b : b[i].ride = r
      <4>1. PICK i \in 1 .. n : b[i].ride = r
        BY <1>14, <3>2
      <4>2. i \in 1 .. n + 1 /\ e[i] = b[i]
        BY <1>14
      <4> QED
        BY <1>14, <4>1, <4>2
    <3> QED
      BY <1>6, <3>1, <3>2
  <2>2. \A i \in DOMAIN e : e[i].ride \in P \cup {head} \/ \E k \in DOMAIN c : c[k] = e[i].ride
    <3> SUFFICES ASSUME NEW i \in 1 .. n + 1
                 PROVE  e[i].ride \in P \cup {head} \/ \E k \in DOMAIN c : c[k] = e[i].ride
      BY <1>14
    <3>1. CASE i = n + 1
      BY <1>14, <3>1
    <3>2. CASE i # n + 1
      <4>1. i \in 1 .. n /\ e[i] = b[i]
        BY <1>14, <3>2
      <4> QED
        BY <1>6, <1>14, <4>1
    <3> QED
      BY <3>1, <3>2
  <2> QED
    BY <1>4, <2>1, <2>2 DEF NoneIsLost
<1> QED
  BY <1>15, <1>16, <1>17 DEF SweepHolds, next

\* One sequence and then another.
LEMMA Concatenated ==
    ASSUME NEW S, NEW u \in Seq(S), NEW v \in Seq(S)
    PROVE  /\ u \o v \in Seq(S) /\ Len(u \o v) = Len(u) + Len(v)
           /\ \A i \in 1 .. Len(u) : (u \o v)[i] = u[i]
           /\ \A i \in 1 .. Len(v) : (u \o v)[i + Len(u)] = v[i]
<1>1. u \o v \in Seq(S) /\ Len(u \o v) = Len(u) + Len(v)
  OBVIOUS
<1>2. \A i \in 1 .. Len(u) : (u \o v)[i] = u[i]
  OBVIOUS
<1>3. \A i \in 1 .. Len(v) : (u \o v)[i + Len(u)] = v[i]
  OBVIOUS
<1> QED
  BY <1>1, <1>2, <1>3

LEMMA SequencesAgree ==
    ASSUME NEW S, NEW u \in Seq(S), NEW v \in Seq(S), Len(u) = Len(v), \A i \in 1 .. Len(u) : u[i] = v[i]
    PROVE  u = v
OBVIOUS

\* Each of the three parts of a split has a record at least.
LEMMA SharesFit ==
    ASSUME NEW n \in Nat, n >= 3
    PROVE  /\ Shares(n).train \in Nat /\ Shares(n).validation \in Nat
           /\ Shares(n).train >= 1 /\ Shares(n).validation >= 1
           /\ Shares(n).train + Shares(n).validation < n
<1> DEFINE share == Shares(n)
           x == AtLeastOne((n * TrainPercent) \div 100)
           y == AtLeastOne((n * CheckPercent) \div 100)
<1>1. x \in Int /\ x >= 1 /\ y \in Int /\ y >= 1
  <2>1. n * TrainPercent \in Int /\ n * CheckPercent \in Int
    BY HistoryAssumption
  <2> DEFINE v == (n * TrainPercent) \div 100
             w == (n * CheckPercent) \div 100
  <2>2. v \in Int /\ w \in Int
    BY <2>1
  <2> HIDE DEF v, w
  <2>3. AtLeastOne(v) \in Int /\ AtLeastOne(v) >= 1 /\ AtLeastOne(w) \in Int /\ AtLeastOne(w) >= 1
    BY <2>2 DEF AtLeastOne
  <2> QED
    BY <2>3 DEF v, w
<1>2. share = IF x + y >= n THEN [train |-> n - 2, validation |-> 1] ELSE [train |-> x, validation |-> y]
  BY DEF Shares
<1> HIDE DEF x, y, share
<1>3. share.train \in Nat /\ share.validation \in Nat /\ share.train >= 1 /\ share.validation >= 1
      /\ share.train + share.validation < n
  BY <1>1, <1>2
<1> QED
  BY <1>3 DEF share

\* Three parts, none of them empty, that put together are what was split.
LEMMA SplitsWhole ==
    ASSUME NEW s, s \in Seq(Range(s)), CanSplit(s)
    PROVE  LET parts == Split(s)
           IN  /\ \A part \in {"train", "validation", "test"} : parts[part] # <<>>
               /\ parts.train \o parts.validation \o parts.test = s
<1> DEFINE R == Range(s)
           n == Len(s)
           share == Shares(n)
           a == share.train
           b == share.validation
           parts == Split(s)
<1>1. n \in Nat /\ n >= 3 /\ DOMAIN s = 1 .. n
  BY DEF CanSplit
<1>2. a \in Nat /\ b \in Nat /\ a >= 1 /\ b >= 1 /\ a + b < n
  BY <1>1, SharesFit
<1>3. parts = [train |-> SubSeq(s, 1, a), validation |-> SubSeq(s, a + 1, a + b), test |-> SubSeq(s, a + b + 1, n)]
  BY DEF Split
<1> HIDE DEF a, b, share, parts, n
<1> DEFINE u == SubSeq(s, 1, a)
           v == SubSeq(s, a + 1, a + b)
           w == SubSeq(s, a + b + 1, n)
<1>4. /\ DOMAIN u = 1 .. a /\ Len(u) = a /\ \A i \in 1 .. a : u[i] = s[i]
      /\ DOMAIN v = 1 .. b /\ Len(v) = b /\ \A i \in 1 .. b : v[i] = s[a + i]
      /\ DOMAIN w = 1 .. n - (a + b) /\ Len(w) = n - (a + b)
      /\ \A i \in 1 .. n - (a + b) : w[i] = s[a + b + i]
  <2>1. DOMAIN u = 1 .. a /\ Len(u) = a /\ \A i \in 1 .. a : u[i] = s[i]
    BY <1>1, <1>2
  <2>2. DOMAIN v = 1 .. b /\ Len(v) = b /\ \A i \in 1 .. b : v[i] = s[a + i]
    BY <1>1, <1>2
  <2>3. DOMAIN w = 1 .. n - (a + b) /\ Len(w) = n - (a + b)
    BY <1>1, <1>2
  <2>4. \A i \in 1 .. n - (a + b) : w[i] = s[a + b + i]
    BY <1>1, <1>2
  <2> HIDE DEF u, v, w
  <2> QED
    BY <2>1, <2>2, <2>3, <2>4
<1>5. u \in Seq(R) /\ v \in Seq(R) /\ w \in Seq(R) /\ s \in Seq(R) /\ Len(s) = n
  BY <1>1, <1>2 DEF n
<1> HIDE DEF u, v, w, R
<1>6. u # <<>> /\ v # <<>> /\ w # <<>>
  BY <1>1, <1>2, <1>4
<1> DEFINE x == u \o v
           all == x \o w
<1>7. /\ x \in Seq(R) /\ Len(x) = a + b
      /\ \A i \in 1 .. a : x[i] = u[i]
      /\ \A i \in 1 .. b : x[i + a] = v[i]
  <2>1. /\ x \in Seq(R) /\ Len(x) = Len(u) + Len(v)
        /\ \A i \in 1 .. Len(u) : x[i] = u[i]
        /\ \A i \in 1 .. Len(v) : x[i + Len(u)] = v[i]
    BY <1>5, Concatenated
  <2> HIDE DEF x
  <2> QED
    BY <1>4, <2>1
<1> HIDE DEF x
<1>8. /\ all \in Seq(R) /\ Len(all) = a + b + (n - (a + b))
      /\ \A i \in 1 .. a + b : all[i] = x[i]
      /\ \A i \in 1 .. n - (a + b) : all[i + (a + b)] = w[i]
  <2>1. /\ all \in Seq(R) /\ Len(all) = Len(x) + Len(w)
        /\ \A i \in 1 .. Len(x) : all[i] = x[i]
        /\ \A i \in 1 .. Len(w) : all[i + Len(x)] = w[i]
    <3>1. x \in Seq(R) /\ w \in Seq(R)
      BY <1>5, <1>7
    <3> QED
      BY <3>1, Concatenated
  <2>2. Len(x) = a + b /\ Len(w) = n - (a + b)
    BY <1>4, <1>7
  <2> HIDE DEF all
  <2>3. \A i \in 1 .. n - (a + b) : all[i + (a + b)] = w[i]
    BY <2>1, <2>2
  <2>4. \A i \in 1 .. a + b : all[i] = x[i]
    BY <2>1, <2>2
  <2> QED
    BY <2>1, <2>2, <2>3, <2>4
<1> HIDE DEF all
<1>9. ASSUME NEW i \in 1 .. n PROVE all[i] = s[i]
  <2>1. CASE i \in 1 .. a
    <3>1. i \in 1 .. a + b
      BY <1>2, <2>1
    <3> QED
      BY <1>4, <1>7, <1>8, <2>1, <3>1
  <2>2. CASE i \in a + 1 .. a + b
    <3>1. i \in 1 .. a + b /\ i - a \in 1 .. b /\ a + (i - a) = i /\ (i - a) + a = i
      BY <1>2, <2>2
    <3>2. all[i] = x[i]
      BY <1>8, <3>1
    <3>3. x[i] = v[i - a]
      BY <1>7, <3>1
    <3>4. v[i - a] = s[i]
      BY <1>4, <3>1
    <3> QED
      BY <3>2, <3>3, <3>4
  <2>3. CASE i \in a + b + 1 .. n
    <3>1. i - (a + b) \in 1 .. n - (a + b) /\ a + b + (i - (a + b)) = i
          /\ (i - (a + b)) + (a + b) = i
      BY <1>1, <1>2, <2>3
    <3>2. all[i] = w[i - (a + b)]
      BY <1>8, <3>1
    <3>3. w[i - (a + b)] = s[i]
      BY <1>4, <3>1
    <3> QED
      BY <3>2, <3>3
  <2> QED
    BY <1>1, <1>2, <2>1, <2>2, <2>3
<1>10. all = s
  <2>1. Len(all) = n
    BY <1>1, <1>2, <1>8
  <2> QED
    BY <1>5, <1>8, <1>9, <2>1, SequencesAgree
<1>11. parts.train = u /\ parts.validation = v /\ parts.test = w
  BY <1>3 DEF u, v, w
<1>12. u \o v \o w = s
  BY <1>10 DEF x, all
<1>13. \A part \in {"train", "validation", "test"} : parts[part] # <<>>
  BY <1>6, <1>11
<1>14. parts.train \o parts.validation \o parts.test = s
  BY <1>11, <1>12
<1> QED
  BY <1>13, <1>14 DEF parts

\* What a sweep has built is in order of time, with the history of each ride.
LEMMA SweptIsCausal ==
    ASSUME NEW records, AreSwept(Range(records)), NEW sweep, SweepHolds(Range(records), sweep)
    PROVE  LET built == sweep.built
               parts == Split(built)
           IN  /\ \A i \in DOMAIN built :
                    /\ built[i].history = FeaturesFor(records, built[i].ride)
                    /\ AreFeatures(built[i].history)
                    /\ i > 1 => built[i - 1].ride.start <= built[i].ride.start
               /\ sweep.todo = <<>> /\ CanSplit(built) =>
                    /\ Range(RidesOf(built)) = Range(records)
                    /\ \A part \in {"train", "validation", "test"} : parts[part] # <<>>
                    /\ parts.train \o parts.validation \o parts.test = built
<1> DEFINE S == Range(records)
           b == sweep.built
<1>1. b \in Seq(Cases(S))
  BY DEF SweepHolds, IsSweep
<1>2. \A i \in DOMAIN b : b[i].ride \in S /\ b[i].history = HistoryIn(S, b[i].ride)
  BY <1>1 DEF Cases
<1>3. ASSUME NEW i \in DOMAIN b
      PROVE  /\ b[i].history = FeaturesFor(records, b[i].ride)
             /\ AreFeatures(b[i].history)
             /\ i > 1 => b[i - 1].ride.start <= b[i].ride.start
  <2>1. b[i].history = FeaturesFor(records, b[i].ride)
    BY <1>2, FeaturesForIn
  <2>2. AreFeatures(b[i].history)
    BY <1>2, HistoryIsAccepted
  <2>3. i > 1 => i - 1 \in DOMAIN b /\ i - 1 < i
    BY <1>1
  <2> QED
    BY <2>1, <2>2, <2>3 DEF SweepHolds, InTime
<1>4. ASSUME sweep.todo = <<>> PROVE Range(RidesOf(b)) = S
  <2>1. \A r \in S : \E i \in DOMAIN b : b[i].ride = r
    BY <1>4 DEF SweepHolds, NoneIsLost
  <2>2. Range(RidesOf(b)) = {b[i].ride : i \in DOMAIN b}
    BY DEF RidesOf, Range
  <2> HIDE DEF S, b
  <2> QED
    BY <1>2, <2>1, <2>2
<1>5. ASSUME CanSplit(b)
      PROVE  LET parts == Split(b)
             IN  /\ \A part \in {"train", "validation", "test"} : parts[part] # <<>>
                 /\ parts.train \o parts.validation \o parts.test = b
  <2>1. b \in Seq(Range(b))
    <3> HIDE DEF b
    <3>1. Len(b) \in Nat /\ b \in [1 .. Len(b) -> Cases(S)]
      BY <1>1
    <3>2. b \in [1 .. Len(b) -> Range(b)]
      BY <3>1 DEF Range
    <3> QED
      BY <3>1, <3>2
  <2> QED
    BY <1>5, <2>1, SplitsWhole
<1> QED
  BY <1>3, <1>4, <1>5

-----------------------------------------------------------------------------
(* Figures of one strategy add up.                                         *)

LEMMA GapIsBounded ==
    ASSUME NEW a \in Int, NEW b \in Int, NEW c \in Int, a - b <= c, b - a <= c
    PROVE  Gap(a, b) \in Int /\ Gap(a, b) <= c
<1>1. a - b \in Int /\ b - a \in Int
  OBVIOUS
<1> QED
  BY <1>1, TwoAreFinite DEF Gap

\* Rounding half up is out by a half at most.
LEMMA HalfUpFits ==
    ASSUME NEW a \in Nat, NEW n \in Nat \ {0}
    PROVE  /\ HalfUp(a, n) \in Nat
           /\ 2 * (n * HalfUp(a, n)) <= 2 * a + n
           /\ 2 * a < 2 * (n * HalfUp(a, n)) + n
<1> DEFINE b == 2 * a + n
           d == 2 * n
           h == HalfUp(a, n)
<1>1. b \in Int /\ d \in Int /\ d > 0 /\ b \in Nat /\ 0 \in Nat /\ 0 <= b
  OBVIOUS
<1>2. h = b \div d
  BY DEF HalfUp
<1> HIDE DEF b, d, h
<1>3. h \in Int /\ d * h <= b /\ b < d * h + d
  BY <1>1, <1>2, QuotientBounds
<1>4. 0 <= h
  <2>1. 0 \div d <= b \div d
    BY <1>1, QuotientRises
  <2>2. 0 \div d = 0
    BY <1>1
  <2> QED
    BY <1>2, <2>1, <2>2
<1>5. d * h = 2 * (n * h)
  BY <1>3 DEF d
<1> DEFINE p == n * h
<1>6. p \in Int /\ d * h = 2 * p
  BY <1>3, <1>5
<1> HIDE DEF p
<1>7. 2 * p <= 2 * a + n /\ 2 * a < 2 * p + n
  BY <1>3, <1>6 DEF b, d
<1> QED
  BY <1>3, <1>4, <1>7 DEF h, p

LEMMA Divided ==
    ASSUME NEW n \in Nat \ {0}, NEW d \in Int, NEW c \in Int, n * d < n * c
    PROVE  d < c
<1> SUFFICES ASSUME ~(d < c) PROVE FALSE
  OBVIOUS
<1> DEFINE e == d - c
<1>1. e \in Nat /\ n * d = n * c + n * e
  OBVIOUS
<1>2. n * e >= 0 /\ n * c \in Int /\ n * e \in Int
  BY <1>1
<1> QED
  BY <1>1, <1>2

\* Shares that make up a whole are out by one unit at most.
LEMMA SharesAddUp ==
    ASSUME NEW n \in Nat \ {0}, NEW a \in Nat, NEW b \in Nat, a + b = n
    PROVE  Gap(RatioOf(a, n) + RatioOf(b, n), RatioUnit) <= 1
<1> DEFINE x == a * RatioUnit
           y == b * RatioUnit
           u == HalfUp(x, n)
           v == HalfUp(y, n)
           d == u + v - RatioUnit
<1>1. RatioUnit \in Nat /\ x \in Nat /\ y \in Nat
  BY EvaluationAssumption
<1>2. x + y = n * RatioUnit
  BY <1>1
<1>3. RatioOf(a, n) = u /\ RatioOf(b, n) = v
  BY DEF RatioOf
<1>4. /\ u \in Nat /\ 2 * (n * u) <= 2 * x + n /\ 2 * x < 2 * (n * u) + n
      /\ v \in Nat /\ 2 * (n * v) <= 2 * y + n /\ 2 * y < 2 * (n * v) + n
  <2> HIDE DEF x, y
  <2> QED
    BY <1>1, HalfUpFits
<1> HIDE DEF x, y, u, v
<1>5. d \in Int /\ n * d = n * u + n * v - n * RatioUnit
  BY <1>1, <1>4
<1> DEFINE nu == n * u
           nv == n * v
           nr == n * RatioUnit
           nd == n * d
<1>6. nu \in Int /\ nv \in Int /\ nr \in Int /\ nd \in Int
  BY <1>1, <1>4, <1>5
<1>7. nd < n * 2 /\ n * (-2) < nd
  <2> HIDE DEF nu, nv, nr, nd
  <2>1. 2 * nd <= 2 * n /\ -(2 * n) <= 2 * nd
    <3>1. nd = nu + nv - nr /\ x + y = nr
      BY <1>2, <1>5 DEF nu, nv, nr, nd
    <3>2. 2 * nu <= 2 * x + n /\ 2 * x < 2 * nu + n /\ 2 * nv <= 2 * y + n /\ 2 * y < 2 * nv + n
      BY <1>4 DEF nu, nv
    <3> QED
      BY <1>1, <1>6, <3>1, <3>2
  <2> QED
    BY <1>6, <2>1
<1> HIDE DEF d
<1>8. d < 2 /\ -2 < d
  BY <1>5, <1>7, Divided
<1>9. u + v - RatioUnit <= 1 /\ RatioUnit - (u + v) <= 1
  BY <1>1, <1>4, <1>5, <1>8 DEF d
<1> QED
  BY <1>1, <1>3, <1>4, <1>9, GapIsBounded

\* The means of what is reserved in vain and of what is missing differ by the
\* mean of what is reserved beyond the fares.
LEMMA MeansAddUp ==
    ASSUME NEW n \in Nat \ {0}, NEW a \in Nat, NEW b \in Nat, NEW c \in Int, a - b = c
    PROVE  Gap(n * (HalfUp(a, n) - HalfUp(b, n)), c) <= n
<1> DEFINE u == HalfUp(a, n)
           v == HalfUp(b, n)
           nu == n * u
           nv == n * v
           all == n * (u - v)
<1>1. /\ u \in Nat /\ 2 * nu <= 2 * a + n /\ 2 * a < 2 * nu + n
      /\ v \in Nat /\ 2 * nv <= 2 * b + n /\ 2 * b < 2 * nv + n
  BY HalfUpFits
<1> HIDE DEF u, v
<1>2. nu \in Int /\ nv \in Int /\ all = nu - nv
  BY <1>1
<1> HIDE DEF nu, nv, all
<1>3. all \in Int /\ all - c <= n /\ c - all <= n
  BY <1>1, <1>2
<1>4. Gap(all, c) <= n
  BY <1>3, GapIsBounded
<1> QED
  BY <1>4 DEF all, u, v

\* What is collected of what is reserved, from what is reserved in vain.
LEMMA EfficiencyAddsUp ==
    ASSUME NEW n \in Nat \ {0}, NEW b \in Nat \ {0}, NEW e \in Nat, e <= b
    PROVE  2 * Gap(RatioOf(b - e, b) * b, RatioUnit * (b - HalfUp(e, n) * n)) <= b + RatioUnit * n
<1> DEFINE R == RatioUnit
           x == (b - e) * R
           f == HalfUp(x, b)
           h == HalfUp(e, n)
           nh == n * h
           bf == b * f
           g == nh - e
           left == f * b
           right == R * (b - h * n)
<1>1. R \in Nat /\ x \in Nat /\ RatioOf(b - e, b) = f
  BY EvaluationAssumption DEF RatioOf
<1>2. f \in Nat /\ 2 * bf <= 2 * x + b /\ 2 * x < 2 * bf + b
  <2> HIDE DEF x
  <2> QED
    BY <1>1, HalfUpFits
<1>3. h \in Nat /\ 2 * nh <= 2 * e + n /\ 2 * e < 2 * nh + n
  BY HalfUpFits
<1> HIDE DEF f, h
<1>4. nh \in Int /\ bf \in Int /\ h * n = nh /\ left = bf
  BY <1>2, <1>3
<1>5. x = R * b - R * e /\ right = R * b - R * nh
  <2>1. right = R * (b - nh)
    BY <1>4
  <2> HIDE DEF nh, right, R
  <2> QED
    BY <1>1, <1>4, <2>1
<1> DEFINE Rg == R * g
           Rn == R * n
<1>6. g \in Int /\ R * nh - R * e = Rg
  <2> HIDE DEF nh, R
  <2> QED
    BY <1>1, <1>4
<1>7. 2 * Rg <= Rn /\ -Rn <= 2 * Rg /\ Rg \in Int /\ Rn \in Int
  <2>1. 2 * g <= n /\ -n <= 2 * g
    <3> HIDE DEF nh
    <3> QED
      BY <1>3, <1>4
  <2>2. n - 2 * g \in Nat /\ n + 2 * g \in Nat
    <3> HIDE DEF g
    <3> QED
      BY <1>6, <2>1
  <2> HIDE DEF g, R
  <2>3. R * (n - 2 * g) >= 0 /\ R * (n + 2 * g) >= 0
    BY <1>1, <2>2
  <2>4. R * (n - 2 * g) = R * n - 2 * (R * g) /\ R * (n + 2 * g) = R * n + 2 * (R * g)
    BY <1>1, <1>6
  <2>5. R * g \in Int /\ R * n \in Int
    BY <1>1, <1>6
  <2> QED
    BY <2>3, <2>4, <2>5
<1> DEFINE Rb == R * b
           Re == R * e
           Rh == R * nh
<1>8. /\ Rb \in Int /\ Re \in Int /\ Rh \in Int
      /\ x = Rb - Re /\ right = Rb - Rh /\ Rh - Re = Rg
  <2>1. Rb \in Int /\ Re \in Int /\ Rh \in Int
    <3> HIDE DEF nh, R
    <3> QED
      BY <1>1, <1>4
  <2> QED
    BY <1>5, <1>6, <2>1
<1> HIDE DEF x, Rb, Re, Rh, Rg, Rn, bf, left, right, nh
<1>9. left - right \in Int /\ 2 * (left - right) <= b + Rn /\ 2 * (right - left) <= b + Rn
  BY <1>2, <1>4, <1>7, <1>8
<1>10. 2 * Gap(left, right) <= b + Rn
  <2>1. left \in Int /\ right \in Int /\ left - right \in Int /\ right - left \in Int
    BY <1>4, <1>8
  <2>2. Gap(left, right) \in {left - right, right - left}
    BY <2>1, TwoAreFinite DEF Gap
  <2> QED
    BY <1>9, <2>1, <2>2
<1> QED
  BY <1>1, <1>10 DEF left, right, Rn, f, h, R

\* What an evaluation tells of a block and a fare.
IsJudged(e) ==
    /\ e.block \in Nat \ {0} /\ e.actual \in Nat \ {0} /\ e.excess \in Nat /\ e.under \in Nat
    /\ e.excess - e.under = e.block - e.actual
    /\ Min({e.block, e.actual}) = e.block - e.excess
    /\ e.excess <= e.block
    /\ e.under > 0 <=> ~e.success

LEMMA EvaluatedIsJudged ==
    ASSUME NEW ride, ride.fare \in Nat \ {0}, NEW block \in Nat \ {0}
    PROVE  IsJudged(Evaluated(ride, block)) /\ Evaluated(ride, block).actual = ride.fare
<1> DEFINE e == Evaluated(ride, block)
           f == ride.fare
           u == Max({block - f, 0})
           v == Max({f - block, 0})
<1>1. e.block = block /\ e.actual = f /\ e.excess = u /\ e.under = v /\ e.success = (block >= f)
  BY DEF Evaluated
<1>2. block - f \in Int /\ f - block \in Int /\ 0 \in Int
  OBVIOUS
<1>3. /\ u \in {block - f, 0} /\ u >= block - f /\ u >= 0
      /\ v \in {f - block, 0} /\ v >= f - block /\ v >= 0
  BY <1>2, TwoAreFinite
<1>4. Min({block, f}) \in {block, f} /\ Min({block, f}) <= block /\ Min({block, f}) <= f
  <2> DEFINE S == {block, f}
  <2>1. IsFiniteSet(S) /\ S \subseteq Int /\ S # {}
    <3>1. IsFiniteSet({block}) /\ S = {block} \cup {f}
      BY FS_Singleton
    <3>2. IsFiniteSet({block} \cup {f})
      BY <3>1, FS_AddElement
    <3> QED
      BY <3>1, <3>2
  <2> HIDE DEF S
  <2>2. Min(S) \in S /\ \A x \in S : Min(S) <= x
    BY <2>1, MinIsLeast
  <2> QED
    BY <2>2 DEF S
<1> HIDE DEF e, u, v
<1>5. /\ u \in Nat /\ v \in Nat /\ u - v = block - f /\ u <= block /\ (v > 0 <=> ~(block >= f))
  BY <1>3
<1>6. Min({block, f}) = block - u
  BY <1>3, <1>4
<1>7. IsJudged(e)
  BY <1>1, <1>5, <1>6 DEF IsJudged
<1> QED
  BY <1>1, <1>7 DEF e

\* The totals of some evaluations.
LEMMA TotalsOfJudged ==
    ASSUME NEW n \in Nat \ {0}, NEW s, DOMAIN s = 1 .. n, \A i \in 1 .. n : IsJudged(s[i])
    PROVE  LET blocked == Total(LAMBDA e : e.block, s)
               actual == Total(LAMBDA e : e.actual, s)
               excess == Total(LAMBDA e : e.excess, s)
               under == Total(LAMBDA e : e.under, s)
               successes == Count(LAMBDA e : e.success, s)
               shortfalls == Count(LAMBDA e : e.under > 0, s)
           IN  /\ blocked \in Nat \ {0} /\ actual \in Nat /\ excess \in Nat /\ under \in Nat
               /\ excess <= blocked /\ excess - under = blocked - actual
               /\ Total(LAMBDA e : Min({e.block, e.actual}), s) = blocked - excess
               /\ successes \in Nat /\ shortfalls \in Nat /\ successes + shortfalls = n
<1> DEFINE N == 1 .. n
           b == [i \in N |-> s[i].block]
           a == [i \in N |-> s[i].actual]
           e == [i \in N |-> s[i].excess]
           u == [i \in N |-> s[i].under]
           c == [i \in N |-> Min({s[i].block, s[i].actual})]
           d == [i \in N |-> s[i].block - s[i].actual]
           good == {i \in N : s[i].success}
           bad == {i \in N : s[i].under > 0}
<1>1. IsFiniteSet(N) /\ Cardinality(N) = n /\ N # {}
  <2>1. IsFiniteSet(N)
    BY NumbersAreFinite
  <2>2. Cardinality(N) = n
    <3>1. 1 \in Int /\ n \in Int /\ 1 <= n
      OBVIOUS
    <3> QED
      BY <3>1, FS_Interval
  <2> QED
    BY <2>1, <2>2
<1>2. /\ Total(LAMBDA x : x.block, s) = SumOver(b, N)
      /\ Total(LAMBDA x : x.actual, s) = SumOver(a, N)
      /\ Total(LAMBDA x : x.excess, s) = SumOver(e, N)
      /\ Total(LAMBDA x : x.under, s) = SumOver(u, N)
      /\ Total(LAMBDA x : Min({x.block, x.actual}), s) = SumOver(c, N)
  <2>1. /\ Total(LAMBDA x : x.block, s) = SumFunction(b)
        /\ Total(LAMBDA x : x.actual, s) = SumFunction(a)
        /\ Total(LAMBDA x : x.excess, s) = SumFunction(e)
        /\ Total(LAMBDA x : x.under, s) = SumFunction(u)
        /\ Total(LAMBDA x : Min({x.block, x.actual}), s) = SumFunction(c)
    BY DEF Total
  <2>2. DOMAIN b = N /\ DOMAIN a = N /\ DOMAIN e = N /\ DOMAIN u = N /\ DOMAIN c = N
    OBVIOUS
  <2> HIDE DEF b, a, e, u, c, N
  <2> QED
    BY <1>1, <2>1, <2>2, FoldIsSum
<1>3. /\ Count(LAMBDA x : x.success, s) = Cardinality(good)
      /\ Count(LAMBDA x : x.under > 0, s) = Cardinality(bad)
  BY DEF Count
<1>4. \A i \in N : /\ b[i] \in Nat \ {0} /\ a[i] \in Nat /\ e[i] \in Nat /\ u[i] \in Nat
                   /\ d[i] = b[i] - a[i] /\ d[i] = e[i] - u[i] /\ c[i] = b[i] - e[i] /\ e[i] <= b[i]
  BY DEF IsJudged
<1>5. good \cup bad = N /\ good \cap bad = {}
  BY DEF IsJudged
<1>6. Cardinality(good) \in Nat /\ Cardinality(bad) \in Nat /\ Cardinality(good) + Cardinality(bad) = n
  <2>1. IsFiniteSet(good) /\ IsFiniteSet(bad)
    <3>1. good \subseteq N /\ bad \subseteq N
      OBVIOUS
    <3> HIDE DEF good, bad, N
    <3> QED
      BY <1>1, <3>1, FS_Subset
  <2> HIDE DEF good, bad, N
  <2>2. Cardinality(good \cup bad) = Cardinality(good) + Cardinality(bad) - Cardinality(good \cap bad)
    BY <2>1, FS_Union
  <2>3. Cardinality(good) \in Nat /\ Cardinality(bad) \in Nat /\ Cardinality(good \cap bad) = 0
    BY <1>5, <2>1, FS_CardinalityType, FS_EmptySet
  <2>4. Cardinality(good \cup bad) = n
    BY <1>1, <1>5
  <2> DEFINE both == good \cap bad
             all == good \cup bad
  <2> HIDE DEF both, all
  <2>5. Cardinality(all) = Cardinality(good) + Cardinality(bad) - 0 /\ Cardinality(all) = n
    BY <2>2, <2>3, <2>4 DEF both, all
  <2> QED
    BY <2>3, <2>5
<1> HIDE DEF b, a, e, u, c, d, N
<1>7. /\ SumOver(b, N) \in Nat /\ SumOver(a, N) \in Nat /\ SumOver(e, N) \in Nat /\ SumOver(u, N) \in Nat
      /\ SumOver(b, N) > 0
  BY <1>1, <1>4, SumOfNaturals, SumIsPositive
<1>8. SumOver(d, N) = SumOver(b, N) - SumOver(a, N)
  BY <1>1, <1>4, SumMinus
<1>9. SumOver(d, N) = SumOver(e, N) - SumOver(u, N)
  BY <1>1, <1>4, SumMinus
<1>10. SumOver(c, N) = SumOver(b, N) - SumOver(e, N)
  BY <1>1, <1>4, SumMinus
<1>11. SumOver(e, N) <= SumOver(b, N)
  BY <1>1, <1>4, SumRises
<1> HIDE DEF good, bad
<1> QED
  BY <1>2, <1>3, <1>6, <1>7, <1>8, <1>9, <1>10, <1>11

LEMMA AggregatedAddsUp ==
    ASSUME NEW n \in Nat \ {0}, NEW s, DOMAIN s = 1 .. n, Len(s) = n,
           \A i \in 1 .. n : IsJudged(s[i]), HasMetrics(Aggregated(s))
    PROVE  MetricsAddUp(Aggregated(s))
<1> DEFINE m == Aggregated(s)
           blocked == Total(LAMBDA e : e.block, s)
           actual == Total(LAMBDA e : e.actual, s)
           excess == Total(LAMBDA e : e.excess, s)
           under == Total(LAMBDA e : e.under, s)
           successes == Count(LAMBDA e : e.success, s)
           shortfalls == Count(LAMBDA e : e.under > 0, s)
           collected == Total(LAMBDA e : Min({e.block, e.actual}), s)
<1>1. /\ blocked \in Nat \ {0} /\ actual \in Nat /\ excess \in Nat /\ under \in Nat
      /\ excess <= blocked /\ excess - under = blocked - actual /\ collected = blocked - excess
      /\ successes \in Nat /\ shortfalls \in Nat /\ successes + shortfalls = n
  BY TotalsOfJudged
<1>2. m # OutOfRange
  BY DEF HasMetrics, OutOfRange
<1>3. /\ m.count = n /\ m.successes = successes /\ m.shortfalls = shortfalls
      /\ m.successRate = RatioOf(successes, n) /\ m.shortfallRate = RatioOf(shortfalls, n)
      /\ m.averageExcess = HalfUp(excess, n) /\ m.averageUnder = HalfUp(under, n)
      /\ m.blocked = blocked /\ m.actual = actual /\ m.efficiency = RatioOf(collected, blocked)
  BY <1>2 DEF Aggregated
<1> HIDE DEF m, blocked, actual, excess, under, successes, shortfalls, collected
<1>4. Gap(m.successRate + m.shortfallRate, RatioUnit) <= 1
  BY <1>1, <1>3, SharesAddUp
<1>5. Gap(m.count * (m.averageExcess - m.averageUnder), m.blocked - m.actual) <= m.count
  <2> DEFINE c == blocked - actual
  <2>1. c \in Int /\ excess - under = c
    BY <1>1
  <2> HIDE DEF c
  <2>2. Gap(n * (HalfUp(excess, n) - HalfUp(under, n)), c) <= n
    BY <1>1, <2>1, MeansAddUp
  <2> QED
    BY <1>3, <2>2 DEF c
<1>6. 2 * Gap(m.efficiency * m.blocked, RatioUnit * (m.blocked - m.averageExcess * m.count))
        <= m.blocked + RatioUnit * m.count
  BY <1>1, <1>3, EfficiencyAddsUp
<1>7. m.successes + m.shortfalls = m.count
  BY <1>1, <1>3
<1>8. MetricsAddUp(m)
  BY <1>4, <1>5, <1>6, <1>7 DEF MetricsAddUp
<1> QED
  BY <1>8 DEF m

\* The figures of evaluations as sums over their places.
FieldOf(s, n, f) == [i \in 1 .. n |-> s[i][f]]
Successes(s, n) == {i \in 1 .. n : s[i].success}

LEMMA MetricsAreSums ==
    ASSUME NEW n \in Nat, NEW s, DOMAIN s = 1 .. n, Len(s) = n
    PROVE  LET blocked == SumOver(FieldOf(s, n, "block"), 1 .. n)
               actual == SumOver(FieldOf(s, n, "actual"), 1 .. n)
           IN  /\ HasMetrics(Aggregated(s)) <=> IsAmount(blocked) /\ IsAmount(actual)
               /\ HasMetrics(Aggregated(s)) =>
                    /\ Aggregated(s).count = n
                    /\ Aggregated(s).successes = Cardinality(Successes(s, n))
                    /\ Aggregated(s).blocked = blocked /\ Aggregated(s).actual = actual
<1> DEFINE N == 1 .. n
           b == FieldOf(s, n, "block")
           a == FieldOf(s, n, "actual")
           m == Aggregated(s)
           blocked == Total(LAMBDA e : e.block, s)
           actual == Total(LAMBDA e : e.actual, s)
           successes == Count(LAMBDA e : e.success, s)
<1>1. IsFiniteSet(N)
  BY NumbersAreFinite
<1>2. blocked = SumFunction(b) /\ actual = SumFunction(a)
  BY DEF Total, FieldOf
<1>3. DOMAIN b = N /\ DOMAIN a = N
  BY DEF FieldOf
<1>4. blocked = SumOver(b, N) /\ actual = SumOver(a, N)
  <2> HIDE DEF blocked, actual, a, b, N
  <2> QED
    BY <1>1, <1>2, <1>3, FoldIsSum
<1>5. successes = Cardinality(Successes(s, n))
  BY DEF Count, Successes
<1>6. CASE IsAmount(blocked) /\ IsAmount(actual)
  <2>1. /\ m.count = n /\ m.successes = successes /\ m.blocked = blocked /\ m.actual = actual
        /\ "error" \notin DOMAIN m
    BY <1>6 DEF Aggregated
  <2> HIDE DEF m, blocked, actual, successes
  <2> QED
    BY <1>4, <1>5, <1>6, <2>1 DEF HasMetrics, m
<1>7. CASE ~(IsAmount(blocked) /\ IsAmount(actual))
  <2>1. m = OutOfRange
    BY <1>7 DEF Aggregated
  <2>2. ~HasMetrics(OutOfRange)
    BY DEF HasMetrics, OutOfRange
  <2> HIDE DEF m, blocked, actual, successes
  <2> QED
    BY <1>4, <1>7, <2>1, <2>2 DEF m
<1> QED
  BY <1>6, <1>7

-----------------------------------------------------------------------------
(* Parts of a sequence, and their figures.                                 *)

\* What stands at some of the places of a sequence, as it comes.
Picked(I, s) == [k \in DOMAIN Increasing(I) |-> s[Increasing(I)[k]]]

\* The m places of I, as they come.
ArePlaces(I, m) ==
    /\ m \in Nat /\ m = Cardinality(I)
    /\ \A k \in 1 .. m : Increasing(I)[k] \in I
    /\ \A i \in I : \E k \in 1 .. m : Increasing(I)[k] = i
    /\ \A k, l \in 1 .. m : Increasing(I)[k] = Increasing(I)[l] => k = l
    /\ DOMAIN Increasing(I) = 1 .. m

LEMMA PlacesDiffer ==
    ASSUME NEW n \in Nat, NEW I \in SUBSET (1 .. n)
    PROVE  ArePlaces(I, Cardinality(I))
<1> DEFINE f == Increasing(I)
<1>1. PICK m \in Nat : /\ m = Cardinality(I) /\ f \in [1 .. m -> I]
                       /\ \A i \in I : \E k \in 1 .. m : f[k] = i
                       /\ \A k, l \in 1 .. m : k < l => f[k] < f[l]
  BY PlacesAreListed
<1>2. \A i \in I : i \in Int
  OBVIOUS
<1> HIDE DEF f
<1>3. DOMAIN f = 1 .. m /\ \A k \in 1 .. m : f[k] \in I /\ f[k] \in Int
  BY <1>1, <1>2
<1>4. ASSUME NEW k \in 1 .. m, NEW l \in 1 .. m, f[k] = f[l] PROVE k = l
  <2>1. k \in Int /\ l \in Int
    BY <1>1
  <2>2. ~(k < l) /\ ~(l < k)
    BY <1>1, <1>3, <1>4
  <2> QED
    BY <2>1, <2>2
<1>5. ArePlaces(I, m)
  BY <1>1, <1>3, <1>4 DEF ArePlaces, f
<1> QED
  BY <1>1, <1>5

LEMMA PickedIsListed ==
    ASSUME NEW I, NEW s, NEW m, ArePlaces(I, m)
    PROVE  /\ DOMAIN Picked(I, s) = 1 .. m /\ Len(Picked(I, s)) = m
           /\ \A k \in 1 .. m : Picked(I, s)[k] = s[Increasing(I)[k]]
<1> DEFINE f == Increasing(I)
           t == Picked(I, s)
<1>1. t = [k \in 1 .. m |-> s[f[k]]] /\ m \in Nat
  BY DEF Picked, ArePlaces
<1> HIDE DEF f, t
<1>2. DOMAIN t = 1 .. m /\ Len(t) = m /\ \A k \in 1 .. m : t[k] = s[f[k]]
  BY <1>1
<1> QED
  BY <1>2 DEF f, t

\* A sum over what is picked is a sum over its places.
LEMMA PickedSum ==
    ASSUME NEW I, NEW m, ArePlaces(I, m), NEW w, \A i \in I : w[i] \in Int,
           NEW v, \A k \in 1 .. m : v[k] = w[Increasing(I)[k]]
    PROVE  SumOver(v, 1 .. m) = SumOver(w, I)
<1> DEFINE f == Increasing(I)
           K == 1 .. m
           F == {f[k] : k \in K}
<1>1. \A k \in K : f[k] \in I
  BY DEF ArePlaces
<1>2. \A i \in I : \E k \in K : f[k] = i
  BY DEF ArePlaces
<1>3. \A k, l \in K : f[k] = f[l] => k = l
  BY DEF ArePlaces
<1>4. IsFiniteSet(K)
  BY NumbersAreFinite DEF ArePlaces
<1>5. \A k \in K : w[f[k]] \in Int /\ v[k] = w[f[k]]
  BY <1>1
<1> HIDE DEF f, K
<1>6. F = I
  <2>1. \A x \in F : x \in I
    BY <1>1
  <2>2. \A x \in I : x \in F
    BY <1>2
  <2> HIDE DEF F
  <2> QED
    BY <2>1, <2>2
<1>7. SumOver(v, K) = SumOver(w, F)
  BY <1>3, <1>4, <1>5, SumOverNumbered
<1> QED
  BY <1>6, <1>7 DEF K

\* As many are picked as have the property.
LEMMA PickedCount ==
    ASSUME NEW I, NEW m, ArePlaces(I, m), IsFiniteSet(I),
           NEW T, NEW U, U = {k \in 1 .. m : Increasing(I)[k] \in T}
    PROVE  Cardinality(U) = Cardinality(T \cap I)
<1> DEFINE f == Increasing(I)
           K == 1 .. m
           A == T \cap I
           w == [i \in I |-> IF i \in A THEN 1 ELSE 0]
           v == [k \in K |-> IF k \in U THEN 1 ELSE 0]
<1>1. \A k \in K : f[k] \in I
  BY DEF ArePlaces
<1>2. \A k \in K : v[k] = w[f[k]]
  BY <1>1
<1>3. \A i \in I : w[i] \in Int
  OBVIOUS
<1>4. SumOver(v, K) = SumOver(w, I)
  <2> HIDE DEF v, w
  <2> QED
    BY <1>2, <1>3, PickedSum
<1>5. SumOver(v, K) = Cardinality(U)
  <2>1. \A k \in K : v[k] = IF k \in U THEN 1 ELSE 0
    OBVIOUS
  <2>2. IsFiniteSet(K) /\ U \in SUBSET K
    BY NumbersAreFinite DEF ArePlaces
  <2> HIDE DEF v, K
  <2> QED
    BY <2>1, <2>2, CountIsSum
<1>6. SumOver(w, I) = Cardinality(A)
  <2>1. \A i \in I : w[i] = IF i \in A THEN 1 ELSE 0
    OBVIOUS
  <2>2. A \in SUBSET I
    OBVIOUS
  <2> HIDE DEF w, A
  <2> QED
    BY <2>1, <2>2, CountIsSum
<1> QED
  BY <1>4, <1>5, <1>6

\* Figures over some of the evaluations, as sums.
HasFigures(m, s, n, I) ==
    /\ m.count = Cardinality(I)
    /\ m.successes = Cardinality(Successes(s, n) \cap I)
    /\ m.blocked = SumOver(FieldOf(s, n, "block"), I)
    /\ m.actual = SumOver(FieldOf(s, n, "actual"), I)

\* The figures of a strategy over some of the rides.
LEMMA PartMetrics ==
    ASSUME NEW n \in Nat, NEW rides, DOMAIN rides = 1 .. n, Len(rides) = n, NEW blockOf,
           \A i \in 1 .. n : rides[i].fare \in Nat \ {0} /\ blockOf[rides[i].id] \in Nat \ {0},
           NEW s, s = Blocks(rides, blockOf), HasMetrics(Aggregated(s)),
           NEW I \in SUBSET (1 .. n), I # {}
    PROVE  LET part == MetricsOf(Picked(I, rides), blockOf)
           IN  HasMetrics(part) /\ MetricsAddUp(part) /\ HasFigures(part, s, n, I)
<1>0. PICK m : m = Cardinality(I)
  OBVIOUS
<1> DEFINE f == Increasing(I)
           t == Blocks(Picked(I, rides), blockOf)
           b == FieldOf(s, n, "block")
           a == FieldOf(s, n, "actual")
           c == FieldOf(t, m, "block")
           d == FieldOf(t, m, "actual")
           T == Successes(s, n)
           U == Successes(t, m)
           part == MetricsOf(Picked(I, rides), blockOf)
<1>1. /\ m \in Nat /\ DOMAIN Picked(I, rides) = 1 .. m /\ Len(Picked(I, rides)) = m
      /\ \A k \in 1 .. m : f[k] \in I /\ Picked(I, rides)[k] = rides[f[k]]
      /\ ArePlaces(I, m)
  <2>1. ArePlaces(I, m)
    BY <1>0, PlacesDiffer
  <2>2. /\ DOMAIN Picked(I, rides) = 1 .. m /\ Len(Picked(I, rides)) = m
        /\ \A k \in 1 .. m : Picked(I, rides)[k] = rides[f[k]]
    BY <2>1, PickedIsListed
  <2> QED
    BY <2>1, <2>2 DEF ArePlaces
<1>2. DOMAIN s = 1 .. n /\ Len(s) = n /\ \A i \in 1 .. n : s[i] = Evaluated(rides[i], blockOf[rides[i].id])
  BY DEF Blocks
<1>3. DOMAIN t = 1 .. m /\ Len(t) = m /\ \A k \in 1 .. m : t[k] = s[f[k]]
  <2>1. t = [k \in 1 .. m |-> Evaluated(rides[f[k]], blockOf[rides[f[k]].id])]
    BY <1>1 DEF Blocks
  <2>2. \A k \in 1 .. m : f[k] \in 1 .. n
    BY <1>1
  <2> HIDE DEF t, f
  <2> QED
    BY <1>1, <1>2, <2>1, <2>2
<1>4. \A i \in 1 .. n : IsJudged(s[i])
  <2> TAKE i \in 1 .. n
  <2> DEFINE ride == rides[i]
             x == blockOf[rides[i].id]
  <2>1. ride.fare \in Nat \ {0} /\ x \in Nat \ {0} /\ s[i] = Evaluated(ride, x)
    BY <1>2
  <2> HIDE DEF ride, x
  <2> QED
    BY <2>1, EvaluatedIsJudged
<1>5. IsFiniteSet(I) /\ IsFiniteSet(1 .. n)
  <2>1. IsFiniteSet(1 .. n)
    BY NumbersAreFinite
  <2> QED
    BY <2>1, FS_Subset
<1>6. m # 0
  BY <1>0, <1>5, FS_EmptySet
<1>7. \A i \in 1 .. n : b[i] \in Nat \ {0} /\ a[i] \in Nat \ {0} /\ b[i] \in Int /\ a[i] \in Int
  <2>1. \A i \in 1 .. n : b[i] = s[i].block /\ a[i] = s[i].actual
    BY DEF FieldOf
  <2>2. \A i \in 1 .. n : s[i].block \in Nat \ {0} /\ s[i].actual \in Nat \ {0}
    BY <1>4 DEF IsJudged
  <2> HIDE DEF a, b
  <2> QED
    BY <2>1, <2>2
<1>8. \A k \in 1 .. m : c[k] = b[f[k]] /\ d[k] = a[f[k]]
  <2>1. \A k \in 1 .. m : f[k] \in 1 .. n
    BY <1>1
  <2> HIDE DEF t, f
  <2> QED
    BY <1>3, <2>1 DEF FieldOf
<1>9. U = {k \in 1 .. m : f[k] \in T} /\ T \in SUBSET (1 .. n)
  <2>1. \A k \in 1 .. m : f[k] \in 1 .. n
    BY <1>1
  <2> HIDE DEF t, f
  <2> QED
    BY <1>3, <2>1 DEF Successes
<1>10. part = Aggregated(t)
  BY DEF MetricsOf
<1> HIDE DEF f, t, a, b, c, d, T, U, part
<1>11. SumOver(c, 1 .. m) = SumOver(b, I) /\ SumOver(d, 1 .. m) = SumOver(a, I)
  <2>1. SumOver(c, 1 .. m) = SumOver(b, I)
    <3>1. \A i \in I : b[i] \in Int
      BY <1>7
    <3>2. \A k \in 1 .. m : c[k] = b[Increasing(I)[k]]
      BY <1>8 DEF f
    <3>3. ArePlaces(I, m)
      BY <1>1
    <3> QED
      BY <3>1, <3>2, <3>3, PickedSum
  <2>2. SumOver(d, 1 .. m) = SumOver(a, I)
    <3>1. \A i \in I : a[i] \in Int
      BY <1>7
    <3>2. \A k \in 1 .. m : d[k] = a[Increasing(I)[k]]
      BY <1>8 DEF f
    <3>3. ArePlaces(I, m)
      BY <1>1
    <3> QED
      BY <3>1, <3>2, <3>3, PickedSum
  <2> QED
    BY <2>1, <2>2
<1>12. Cardinality(U) = Cardinality(T \cap I)
  <2>1. U = {k \in 1 .. m : Increasing(I)[k] \in T}
    BY <1>9 DEF f
  <2>2. ArePlaces(I, m) /\ IsFiniteSet(I)
    BY <1>1, <1>5
  <2> QED
    BY <2>1, <2>2, PickedCount
<1>13. IsAmount(SumOver(b, 1 .. n)) /\ IsAmount(SumOver(a, 1 .. n))
  BY <1>2, MetricsAreSums DEF a, b
<1>14. IsAmount(SumOver(b, I)) /\ IsAmount(SumOver(a, I))
  <2>1. ASSUME NEW w, \A i \in 1 .. n : w[i] \in Nat \ {0}, IsAmount(SumOver(w, 1 .. n))
        PROVE  IsAmount(SumOver(w, I))
    <3>1. SumOver(w, I) <= SumOver(w, 1 .. n)
      <4>1. \A i \in 1 .. n : w[i] \in Nat
        BY <2>1
      <4> DEFINE N == 1 .. n
      <4> HIDE DEF N
      <4> QED
        BY <1>5, <4>1, SomeSumToLess DEF N
    <3>2. SumOver(w, I) > 0
      <4>1. \A i \in I : w[i] \in Nat \ {0}
        BY <2>1
      <4> QED
        BY <1>5, <4>1, SumIsPositive
    <3>3. SumOver(w, I) \in Int /\ SumOver(w, 1 .. n) \in Int
      <4>1. (\A i \in I : w[i] \in Int) /\ \A i \in 1 .. n : w[i] \in Int
        BY <2>1
      <4>2. SumOver(w, I) \in Int
        BY <1>5, <4>1, SumType
      <4>3. SumOver(w, 1 .. n) \in Int
        BY <1>5, <4>1, SumType
      <4> QED
        BY <4>2, <4>3
    <3>4. MaxAmount \in Nat
      BY OptimizerAssumption
    <3> QED
      BY <2>1, <3>1, <3>2, <3>3, <3>4 DEF IsAmount
  <2> QED
    BY <1>7, <1>13, <2>1
<1>15. /\ HasMetrics(Aggregated(t))
       /\ Aggregated(t).count = m /\ Aggregated(t).successes = Cardinality(U)
       /\ Aggregated(t).blocked = SumOver(c, 1 .. m) /\ Aggregated(t).actual = SumOver(d, 1 .. m)
  <2>1. IsAmount(SumOver(c, 1 .. m)) /\ IsAmount(SumOver(d, 1 .. m))
    BY <1>11, <1>14
  <2> QED
    BY <1>1, <1>3, <2>1, MetricsAreSums DEF c, d, U
<1>16. MetricsAddUp(Aggregated(t))
  <2>1. \A k \in 1 .. m : IsJudged(t[k])
    <3>1. \A k \in 1 .. m : f[k] \in 1 .. n
      BY <1>1
    <3> QED
      BY <1>3, <1>4, <3>1
  <2>2. m \in Nat \ {0}
    BY <1>1, <1>6
  <2> QED
    BY <1>3, <1>15, <2>1, <2>2, AggregatedAddsUp
<1>17. /\ HasMetrics(part) /\ MetricsAddUp(part) /\ part.count = m
       /\ part.successes = Cardinality(T \cap I)
       /\ part.blocked = SumOver(b, I) /\ part.actual = SumOver(a, I)
  BY <1>10, <1>11, <1>12, <1>15, <1>16
<1> QED
  BY <1>0, <1>17 DEF part, T, a, b, HasFigures

-----------------------------------------------------------------------------
(* Cities, and the figures of their rides.                                 *)

\* Rides and their blocks, which can be evaluated and have figures.
AreEvaluable(rides, blockOf, n) ==
    /\ n \in Nat \ {0} /\ DOMAIN rides = 1 .. n /\ Len(rides) = n
    /\ \A i \in 1 .. n : rides[i].fare \in Nat \ {0} /\ blockOf[rides[i].id] \in Nat \ {0}
    /\ HasMetrics(MetricsOf(rides, blockOf))

Fares(rides, n) == [i \in 1 .. n |-> rides[i].fare]

LEMMA BlocksAreJudged ==
    ASSUME NEW rides, NEW blockOf, NEW n, AreEvaluable(rides, blockOf, n), NEW s, s = Blocks(rides, blockOf)
    PROVE  /\ DOMAIN s = 1 .. n /\ Len(s) = n /\ HasMetrics(Aggregated(s))
           /\ \A i \in 1 .. n : /\ s[i] = Evaluated(rides[i], blockOf[rides[i].id])
                                /\ IsJudged(s[i]) /\ s[i].actual = rides[i].fare
<1>1. DOMAIN s = 1 .. n /\ Len(s) = n /\ HasMetrics(Aggregated(s))
  BY DEF AreEvaluable, Blocks, MetricsOf
<1>2. ASSUME NEW i \in 1 .. n
      PROVE  s[i] = Evaluated(rides[i], blockOf[rides[i].id]) /\ IsJudged(s[i]) /\ s[i].actual = rides[i].fare
  <2> DEFINE ride == rides[i]
             x == blockOf[rides[i].id]
  <2>1. ride.fare \in Nat \ {0} /\ x \in Nat \ {0} /\ s[i] = Evaluated(ride, x)
    BY DEF AreEvaluable, Blocks
  <2> HIDE DEF ride, x
  <2>2. IsJudged(Evaluated(ride, x)) /\ Evaluated(ride, x).actual = ride.fare
    BY <2>1, EvaluatedIsJudged
  <2> QED
    BY <2>1, <2>2 DEF ride, x
<1> QED
  BY <1>1, <1>2

\* The figures of a strategy over all the rides.
LEMMA WholeMetrics ==
    ASSUME NEW rides, NEW blockOf, NEW n, AreEvaluable(rides, blockOf, n), NEW s, s = Blocks(rides, blockOf)
    PROVE  LET whole == MetricsOf(rides, blockOf)
           IN  /\ MetricsAddUp(whole) /\ HasFigures(whole, s, n, 1 .. n)
               /\ whole.count = n /\ whole.actual = SumOver(Fares(rides, n), 1 .. n)
<1>1. /\ DOMAIN s = 1 .. n /\ Len(s) = n /\ HasMetrics(Aggregated(s))
      /\ \A i \in 1 .. n : IsJudged(s[i]) /\ s[i].actual = rides[i].fare
  BY BlocksAreJudged
<1>2. n \in Nat \ {0} /\ MetricsOf(rides, blockOf) = Aggregated(s)
  BY DEF AreEvaluable, MetricsOf
<1>3. MetricsAddUp(Aggregated(s))
  BY <1>1, <1>2, AggregatedAddsUp
<1>4. /\ Aggregated(s).count = n /\ Aggregated(s).successes = Cardinality(Successes(s, n))
      /\ Aggregated(s).blocked = SumOver(FieldOf(s, n, "block"), 1 .. n)
      /\ Aggregated(s).actual = SumOver(FieldOf(s, n, "actual"), 1 .. n)
  BY <1>1, <1>2, MetricsAreSums
<1>5. SumOver(FieldOf(s, n, "actual"), 1 .. n) = SumOver(Fares(rides, n), 1 .. n)
  <2> DEFINE u == FieldOf(s, n, "actual")
             v == Fares(rides, n)
             N == 1 .. n
  <2>1. \A i \in N : u[i] = v[i]
    BY <1>1 DEF FieldOf, Fares
  <2>2. IsFiniteSet(N)
    BY <1>2, NumbersAreFinite
  <2> HIDE DEF u, v, N
  <2>3. SumOver(u, N) = SumOver(v, N)
    BY <2>1, <2>2, SumSame
  <2> QED
    BY <2>3 DEF u, v, N
<1>6. Cardinality(1 .. n) = n /\ Successes(s, n) \cap 1 .. n = Successes(s, n)
  <2>1. 1 \in Int /\ n \in Int /\ 1 <= n
    BY <1>2
  <2>2. Cardinality(1 .. n) = n
    BY <2>1, FS_Interval
  <2>3. Successes(s, n) \cap 1 .. n = Successes(s, n)
    BY DEF Successes
  <2> QED
    BY <2>2, <2>3
<1>7. HasFigures(Aggregated(s), s, n, 1 .. n)
  BY <1>4, <1>6 DEF HasFigures
<1> QED
  BY <1>2, <1>3, <1>4, <1>5, <1>7

InTheCity(rides, n, city) == {i \in 1 .. n : rides[i].city = city}

\* Of a city there are rides, and they have figures of their own.
LEMMA CityMetrics ==
    ASSUME NEW rides, NEW blockOf, NEW n, AreEvaluable(rides, blockOf, n), NEW s, s = Blocks(rides, blockOf),
           NEW city \in Cities(rides)
    PROVE  HasFigures(MetricsOf(InCity(rides, city), blockOf), s, n, InTheCity(rides, n, city))
<1> DEFINE I == InTheCity(rides, n, city)
<1>1. InCity(rides, city) = Picked(I, rides)
  <2>1. {i \in DOMAIN rides : rides[i].city = city} = I
    BY DEF AreEvaluable, InTheCity
  <2> HIDE DEF I
  <2> QED
    BY <2>1 DEF InCity, Selected, Places, Picked, Increasing
<1>2. I \in SUBSET (1 .. n) /\ I # {}
  BY DEF InTheCity, Cities, Range, AreEvaluable
<1> HIDE DEF I
<1>3. /\ n \in Nat /\ DOMAIN rides = 1 .. n /\ Len(rides) = n
      /\ \A i \in 1 .. n : rides[i].fare \in Nat \ {0} /\ blockOf[rides[i].id] \in Nat \ {0}
      /\ HasMetrics(Aggregated(s))
  BY DEF AreEvaluable, MetricsOf
<1>4. HasFigures(MetricsOf(Picked(I, rides), blockOf), s, n, I)
  BY <1>2, <1>3, PartMetrics
<1> QED
  BY <1>1, <1>4 DEF I

LEMMA CitiesAreFinite ==
    ASSUME NEW rides, NEW n \in Nat, DOMAIN rides = 1 .. n
    PROVE  IsFiniteSet(Cities(rides)) /\ \A i \in 1 .. n : rides[i].city \in Cities(rides)
<1> DEFINE f == [i \in 1 .. n |-> rides[i].city]
<1>1. f \in Surjection(1 .. n, Cities(rides))
  BY DEF Cities, Range, Surjection
<1>2. IsFiniteSet(1 .. n)
  BY NumbersAreFinite
<1>3. IsFiniteSet(Cities(rides))
  BY <1>1, <1>2, FS_Surjection
<1>4. \A i \in 1 .. n : rides[i].city \in Cities(rides)
  BY DEF Cities, Range
<1> QED
  BY <1>3, <1>4

FiguresByCity == {"count", "successes", "blocked", "actual"}

LEMMA CitiesAddUp ==
    ASSUME NEW rides, NEW blockOf, NEW n, AreEvaluable(rides, blockOf, n), NEW figure \in FiguresByCity
    PROVE  MetricsOf(rides, blockOf)[figure]
            = SumFunction([city \in Cities(rides) |-> MetricsOf(InCity(rides, city), blockOf)[figure]])
<1>0. PICK s : s = Blocks(rides, blockOf)
  OBVIOUS
<1> DEFINE N == 1 .. n
           C == Cities(rides)
           key == [i \in N |-> rides[i].city]
           parts == [city \in C |-> MetricsOf(InCity(rides, city), blockOf)[figure]]
           whole == MetricsOf(rides, blockOf)
           I(city) == InTheCity(rides, n, city)
           T == Successes(s, n)
           ones == [i \in N |-> 1]
           good == [i \in N |-> IF i \in T THEN 1 ELSE 0]
           blocks == FieldOf(s, n, "block")
           fares == FieldOf(s, n, "actual")
<1>1. n \in Nat /\ DOMAIN rides = N
  BY DEF AreEvaluable
<1>2. IsFiniteSet(N) /\ IsFiniteSet(C) /\ \A i \in N : key[i] \in C
  BY <1>1, NumbersAreFinite, CitiesAreFinite
<1>3. ASSUME NEW city \in C
      PROVE  I(city) = {i \in N : key[i] = city} /\ I(city) \in SUBSET N /\ IsFiniteSet(I(city))
  <2>1. I(city) = {i \in N : key[i] = city} /\ I(city) \in SUBSET N
    BY DEF InTheCity
  <2> QED
    BY <1>2, <2>1, FS_Subset
<1>4. DOMAIN parts = C /\ \A city \in C : parts[city] = MetricsOf(InCity(rides, city), blockOf)[figure]
  OBVIOUS
<1>5. HasFigures(whole, s, n, N)
  BY <1>0, WholeMetrics
<1>6. \A city \in C : HasFigures(MetricsOf(InCity(rides, city), blockOf), s, n, I(city))
  BY <1>0, CityMetrics
<1>7. T \in SUBSET N
  BY DEF Successes
<1>8. \A i \in N : ones[i] = 1 /\ good[i] = IF i \in T THEN 1 ELSE 0
  OBVIOUS
<1>9. \A i \in N : blocks[i] \in Int /\ fares[i] \in Int
  <2>1. \A i \in N : s[i].block \in Int /\ s[i].actual \in Int
    <3>1. \A i \in N : IsJudged(s[i])
      BY <1>0, BlocksAreJudged
    <3>2. \A i \in N : s[i].block \in Nat \ {0} /\ s[i].actual \in Nat \ {0}
      BY <3>1 DEF IsJudged
    <3> HIDE DEF N
    <3> QED
      BY <3>2
  <2> QED
    BY <2>1 DEF FieldOf
<1> HIDE DEF key, parts, C, I, N, whole, T, ones, good, blocks, fares
<1> SUFFICES whole[figure] = SumFunction(parts)
  BY DEF whole, parts, C
<1>10. ASSUME NEW w, \A i \in N : w[i] \in Int, whole[figure] = SumOver(w, N),
              \A city \in C : parts[city] = SumOver(w, I(city))
       PROVE  whole[figure] = SumFunction(parts)
  <2>1. \A city \in C : parts[city] = SumOver(w, {i \in N : key[i] = city})
    BY <1>3, <1>10
  <2>2. SumOver(w, N) = SumOver(parts, C)
    BY <1>2, <1>10, <2>1, SumOfParts
  <2>3. SumFunction(parts) = SumOver(parts, C)
    BY <1>2, <1>4, FoldIsSum
  <2> QED
    BY <1>10, <2>2, <2>3
\* The rides in I, and the successes among them, as sums.
<1>11. ASSUME NEW J \in SUBSET N, IsFiniteSet(J)
       PROVE  SumOver(ones, J) = Cardinality(J) /\ SumOver(good, J) = Cardinality(T \cap J)
  <2> DEFINE U == T \cap J
  <2>1. \A i \in J : ones[i] = IF i \in J THEN 1 ELSE 0
    BY <1>8
  <2>2. SumOver(ones, J) = Cardinality(J)
    BY <1>11, <2>1, CountIsSum
  <2>3. U \in SUBSET J /\ \A i \in J : good[i] = IF i \in U THEN 1 ELSE 0
    BY <1>8
  <2> HIDE DEF U
  <2>4. SumOver(good, J) = Cardinality(U)
    BY <1>11, <2>3, CountIsSum
  <2> QED
    BY <2>2, <2>4 DEF U
<1>12. \A i \in N : ones[i] \in Int /\ good[i] \in Int
  BY <1>8
<1>13. CASE figure = "count"
  <2>1. whole[figure] = SumOver(ones, N)
    BY <1>2, <1>5, <1>11, <1>13 DEF HasFigures
  <2>2. \A city \in C : parts[city] = SumOver(ones, I(city))
    BY <1>3, <1>4, <1>6, <1>11, <1>13 DEF HasFigures
  <2> QED
    BY <1>10, <1>12, <2>1, <2>2
<1>14. CASE figure = "successes"
  <2>1. whole[figure] = SumOver(good, N)
    BY <1>2, <1>5, <1>11, <1>14 DEF HasFigures, T
  <2>2. \A city \in C : parts[city] = SumOver(good, I(city))
    BY <1>3, <1>4, <1>6, <1>11, <1>14 DEF HasFigures, T
  <2> QED
    BY <1>10, <1>12, <2>1, <2>2
<1>15. CASE figure = "blocked"
  <2>1. whole[figure] = SumOver(blocks, N)
    BY <1>5, <1>15 DEF HasFigures, blocks
  <2>2. \A city \in C : parts[city] = SumOver(blocks, I(city))
    BY <1>4, <1>6, <1>15 DEF HasFigures, blocks
  <2> QED
    BY <1>9, <1>10, <2>1, <2>2
<1>16. CASE figure = "actual"
  <2>1. whole[figure] = SumOver(fares, N)
    BY <1>5, <1>16 DEF HasFigures, fares
  <2>2. \A city \in C : parts[city] = SumOver(fares, I(city))
    BY <1>4, <1>6, <1>16 DEF HasFigures, fares
  <2> QED
    BY <1>9, <1>10, <2>1, <2>2
<1> QED
  BY <1>13, <1>14, <1>15, <1>16 DEF FiguresByCity

-----------------------------------------------------------------------------
(* The figures of a comparison.                                            *)

LEMMA BufferAdds ==
    ASSUME NEW est \in Nat
    PROVE  BufferedBlock(est, Buffer) \in Int /\ est <= BufferedBlock(est, Buffer)
<1> DEFINE e == est * Buffer
           x == est * (100 + Buffer) + 99
           d == 100
           y == x \div d
<1>1. Buffer \in Nat
  BY EvaluationAssumption
<1>2. e \in Nat /\ x = 100 * est + e + 99
  <2>1. e \in Nat
    BY <1>1
  <2>2. est * (100 + Buffer) = est * 100 + est * Buffer
    BY <1>1
  <2> QED
    BY <2>1, <2>2
<1>3. x \in Int /\ d \in Int /\ d > 0
  BY <1>2
<1> HIDE DEF x, d, e
<1>4. y \in Int /\ x < d * y + d
  BY <1>3, QuotientBounds
<1> HIDE DEF y
<1>5. est <= y
  BY <1>2, <1>4 DEF d
<1> QED
  BY <1>4, <1>5 DEF y, x, d, BufferedBlock

\* The blocks of a comparison are amounts, each made for a ride of that id.
LEMMA ComparedAreAmounts ==
    ASSUME NEW rides, NEW raws, NEW m \in Nat, DOMAIN rides = 1 .. m,
           \A i \in 1 .. m : IsJoinedRide(rides[i]) /\ IsRaw(raws[rides[i].id]),
           NEW compared, NEW step, Comparable(compared, rides, raws, step),
           NEW s \in compared, NEW i \in 1 .. m
    PROVE  LET id == rides[i].id
               ride == CHOOSE r \in Range(rides) : r.id = id
           IN  /\ ride.est \in Nat
               /\ BlocksBy(s, rides, raws, step)[id] = BlockBy(s, ride, raws[id], step)
               /\ BlocksBy(s, rides, raws, step)[id] \in Nat \ {0}
<1> DEFINE id == rides[i].id
           ride == CHOOSE r \in Range(rides) : r.id = id
           q == Repaired(raws[id])
           block == BlockBy(s, ride, raws[id], step)
<1>1. \E r \in Range(rides) : r.id = id
  BY DEF Range
<1>2. ride \in Range(rides) /\ ride.id = id
  BY <1>1
<1>3. PICK j \in 1 .. m : ride = rides[j]
  BY <1>2 DEF Range
<1>4. ride.est \in Nat \ {0} /\ ride.est \in Int
  <2>1. rides[j].est \in Nat \ {0}
    BY DEF IsJoinedRide
  <2> HIDE DEF ride
  <2> QED
    BY <1>3, <2>1
<1>5. IsDistribution(q)
  BY RepairPublishes
<1>6. BlocksBy(s, rides, raws, step)[id] = block
  BY <1>1 DEF BlocksBy
<1>7. block \notin {Unreachable, TooManySteps} /\ IsAmount(block)
  BY <1>2 DEF Comparable
<1>8. block \in Int
  <2>1. CASE s = "exact_estimate"
    <3>1. block = ride.est
      BY <2>1 DEF BlockBy, ExactBlock
    <3> HIDE DEF block, ride
    <3> QED
      BY <1>4, <3>1
  <2>2. CASE s = "fixed_buffer"
    <3>1. block = BufferedBlock(ride.est, Buffer)
      BY <2>2 DEF BlockBy
    <3> HIDE DEF block, ride
    <3>2. ride.est \in Nat
      BY <1>4
    <3> QED
      BY <3>1, <3>2, BufferAdds
  <2>3. CASE s # "exact_estimate" /\ s # "fixed_buffer"
    <3> DEFINE t == TargetOf(s)
    <3>1. block = Recommend(ride.est, q, step, t)
      BY <2>3 DEF BlockBy, RecommendFor
    <3>2. t \in Int
      BY TargetsAreNumbers DEF TargetOf, Unconstrained
    <3> HIDE DEF block, ride, q, t
    <3>3. Recommend(ride.est, q, step, t) \notin {Unreachable, TooManySteps} /\ t <= t
      BY <1>7, <3>1, <3>2
    <3>4. Recommend(ride.est, q, step, t) \in Nat
      BY <1>4, <1>5, <3>2, <3>3, StricterIsLarger
    <3> QED
      BY <3>1, <3>4
  <2> QED
    BY <2>1, <2>2, <2>3
<1> HIDE DEF block, ride, id
<1>9. block \in Nat \ {0}
  BY <1>7, <1>8 DEF IsAmount
<1>10. ride.est \in Nat /\ BlocksBy(s, rides, raws, step)[id] \in Nat \ {0}
  BY <1>4, <1>6, <1>9
<1> QED
  BY <1>6, <1>10 DEF block, ride, id

LEMMA ComparedAreEvaluable ==
    ASSUME NEW rides, NEW raws, NEW m \in Nat, m > 0, DOMAIN rides = 1 .. m, Len(rides) = m,
           \A i \in 1 .. m : IsJoinedRide(rides[i]) /\ IsRaw(raws[rides[i].id]),
           NEW compared, NEW step, Comparable(compared, rides, raws, step),
           NEW s \in compared, HasMetrics(Compared(compared, rides, raws, step)[s])
    PROVE  /\ Compared(compared, rides, raws, step)[s] = MetricsOf(rides, BlocksBy(s, rides, raws, step))
           /\ AreEvaluable(rides, BlocksBy(s, rides, raws, step), m)
<1> DEFINE blockOf == BlocksBy(s, rides, raws, step)
<1>1. Compared(compared, rides, raws, step)[s] = MetricsOf(rides, blockOf)
  BY DEF Compared
<1>2. \A i \in 1 .. m : blockOf[rides[i].id] \in Nat \ {0}
  BY ComparedAreAmounts
<1>3. \A i \in 1 .. m : rides[i].fare \in Nat \ {0}
  BY DEF IsJoinedRide
<1> HIDE DEF blockOf
<1>4. m \in Nat \ {0} /\ HasMetrics(MetricsOf(rides, blockOf))
  BY <1>1
<1>5. AreEvaluable(rides, blockOf, m)
  BY <1>2, <1>3, <1>4 DEF AreEvaluable
<1> QED
  BY <1>1, <1>5 DEF blockOf

\* A buffer on the estimate covers every fare that the estimate covers.
LEMMA BufferCovers ==
    ASSUME NEW rides, NEW raws, NEW m \in Nat, m > 0, DOMAIN rides = 1 .. m, Len(rides) = m,
           \A i \in 1 .. m : IsJoinedRide(rides[i]) /\ IsRaw(raws[rides[i].id]),
           NEW compared, NEW step, Comparable(compared, rides, raws, step),
           {"exact_estimate", "fixed_buffer"} \subseteq compared,
           \A s \in compared : HasMetrics(Compared(compared, rides, raws, step)[s])
    PROVE  Compared(compared, rides, raws, step)["exact_estimate"].successes
            <= Compared(compared, rides, raws, step)["fixed_buffer"].successes
<1> DEFINE x == BlocksBy("exact_estimate", rides, raws, step)
           y == BlocksBy("fixed_buffer", rides, raws, step)
           a == Blocks(rides, x)
           b == Blocks(rides, y)
           metrics == Compared(compared, rides, raws, step)
<1>1. /\ metrics["exact_estimate"] = Aggregated(a) /\ AreEvaluable(rides, x, m)
      /\ metrics["fixed_buffer"] = Aggregated(b) /\ AreEvaluable(rides, y, m)
  BY ComparedAreEvaluable DEF MetricsOf
<1>2. ASSUME NEW i \in 1 .. m
      PROVE  x[rides[i].id] \in Nat /\ y[rides[i].id] \in Nat /\ x[rides[i].id] <= y[rides[i].id]
  <2> DEFINE id == rides[i].id
             ride == CHOOSE r \in Range(rides) : r.id = id
  <2>0. ASSUME NEW s \in compared
        PROVE  /\ ride.est \in Nat
               /\ BlocksBy(s, rides, raws, step)[id] = BlockBy(s, ride, raws[id], step)
               /\ BlocksBy(s, rides, raws, step)[id] \in Nat \ {0}
    BY ComparedAreAmounts
  <2>1. ride.est \in Nat /\ x[id] = BlockBy("exact_estimate", ride, raws[id], step) /\ x[id] \in Nat \ {0}
    BY <2>0
  <2>2. y[id] = BlockBy("fixed_buffer", ride, raws[id], step) /\ y[id] \in Nat \ {0}
    BY <2>0
  <2> HIDE DEF ride, x, y
  <2>3. x[id] = ride.est /\ y[id] = BufferedBlock(ride.est, Buffer)
    BY <2>1, <2>2 DEF BlockBy, ExactBlock
  <2>4. ride.est <= BufferedBlock(ride.est, Buffer)
    BY <2>1, BufferAdds
  <2> QED
    BY <2>1, <2>2, <2>3, <2>4
<1>3. /\ DOMAIN a = 1 .. m /\ Len(a) = m /\ HasMetrics(Aggregated(a))
      /\ \A i \in 1 .. m : a[i] = Evaluated(rides[i], x[rides[i].id])
  BY <1>1, BlocksAreJudged
<1>4. /\ DOMAIN b = 1 .. m /\ Len(b) = m /\ HasMetrics(Aggregated(b))
      /\ \A i \in 1 .. m : b[i] = Evaluated(rides[i], y[rides[i].id])
  BY <1>1, BlocksAreJudged
<1> HIDE DEF a, b, x, y, metrics
<1>5. ASSUME NEW i \in 1 .. m
      PROVE  /\ a[i].block \in Nat /\ b[i].block \in Nat /\ a[i].block <= b[i].block
             /\ a[i].excess \in Nat /\ b[i].excess \in Nat /\ a[i].excess <= b[i].excess
             /\ a[i].success => b[i].success
  <2> DEFINE u == x[rides[i].id]
             v == y[rides[i].id]
  <2>1. u \in Nat /\ v \in Nat /\ u <= v /\ u \in Int /\ v \in Int
    BY <1>2
  <2>2. rides[i].fare \in Int
    BY DEF IsJoinedRide
  <2>3. a[i] = Evaluated(rides[i], u) /\ b[i] = Evaluated(rides[i], v)
    BY <1>3, <1>4
  <2> HIDE DEF u, v
  <2> QED
    BY <2>1, <2>2, <2>3, EvaluationRises
<1>6. Aggregated(a).successes <= Aggregated(b).successes
  BY <1>3, <1>4, <1>5, MetricsRise
<1> QED
  BY <1>1, <1>6 DEF metrics

LEMMA ReportedComparisonAddsUp ==
    ASSUME NEW rides, NEW raws, AreCompared(rides, raws), NEW compared, NEW step,
           {"exact_estimate", "fixed_buffer"} \subseteq compared,
           ComparisonReport(compared, rides, raws, step).kind = "comparison"
    PROVE  ComparisonAddsUp(ComparisonReport(compared, rides, raws, step))
<1> DEFINE metrics == Compared(compared, rides, raws, step)
           r == ComparisonReport(compared, rides, raws, step)
           optimized == compared \ {"exact_estimate", "fixed_buffer"}
           byCity == [s \in optimized \cap Profiles |-> ByCity(s, rides, raws, step)]
           Over(s) == BlocksBy(s, rides, raws, step)
<1>1. PICK m \in Nat :
            /\ m > 0 /\ DOMAIN rides = 1 .. m /\ Len(rides) = m
            /\ \A i \in 1 .. m : IsJoinedRide(rides[i]) /\ IsRaw(raws[rides[i].id])
  BY DEF AreCompared
<1>2. Comparable(compared, rides, raws, step) /\ \A s \in compared : HasMetrics(metrics[s])
  BY DEF ComparisonReport
<1>3. r.rides = rides /\ r.metrics = metrics /\ r.byCity = byCity
  BY <1>2 DEF ComparisonReport
<1>4. DOMAIN metrics = compared
  BY DEF Compared
<1>5. \A s \in compared : metrics[s] = MetricsOf(rides, Over(s)) /\ AreEvaluable(rides, Over(s), m)
  BY <1>1, <1>2, ComparedAreEvaluable
<1>6. metrics["exact_estimate"].successes <= metrics["fixed_buffer"].successes
  BY <1>1, <1>2, BufferCovers
<1> HIDE DEF metrics
<1>7. ASSUME NEW s \in compared
      PROVE  /\ MetricsAddUp(metrics[s]) /\ metrics[s].count = m
             /\ metrics[s].actual = SumOver(Fares(rides, m), 1 .. m)
  <2>1. metrics[s] = MetricsOf(rides, Over(s)) /\ AreEvaluable(rides, Over(s), m)
    BY <1>5
  <2> QED
    BY <2>1, WholeMetrics
<1>8. ASSUME NEW s \in DOMAIN byCity, NEW figure \in FiguresByCity
      PROVE  metrics[s][figure] = SumFunction([c \in DOMAIN byCity[s] |-> byCity[s][c].metrics[figure]])
  <2> DEFINE parts == ByCity(s, rides, raws, step)
             C == Cities(rides)
             sums == [c \in C |-> MetricsOf(InCity(rides, c), Over(s))[figure]]
  <2>1. s \in compared /\ byCity[s] = parts
    OBVIOUS
  <2>2. DOMAIN parts = C /\ \A c \in C : parts[c].metrics = MetricsOf(InCity(rides, c), Over(s))
    BY DEF ByCity
  <2>3. metrics[s][figure] = SumFunction(sums)
    BY <1>5, <2>1, CitiesAddUp
  <2>4. [c \in DOMAIN byCity[s] |-> byCity[s][c].metrics[figure]] = sums
    <3> HIDE DEF parts, C, byCity
    <3> QED
      BY <2>1, <2>2
  <2> QED
    BY <2>3, <2>4
<1> HIDE DEF r, byCity
<1>9. ASSUME NEW s \in DOMAIN r.metrics
      PROVE  /\ MetricsAddUp(r.metrics[s])
             /\ r.metrics[s].actual = r.metrics["exact_estimate"].actual
             /\ r.metrics[s].count = Len(r.rides)
  BY <1>1, <1>3, <1>4, <1>7
<1>10. ASSUME NEW s \in DOMAIN r.byCity, NEW figure \in {"count", "successes", "blocked", "actual"}
       PROVE  r.metrics[s][figure] = SumFunction([c \in DOMAIN r.byCity[s] |-> r.byCity[s][c].metrics[figure]])
  BY <1>3, <1>8 DEF FiguresByCity
<1>11. ComparisonAddsUp(r)
  BY <1>3, <1>6, <1>9, <1>10 DEF ComparisonAddsUp
<1> QED
  BY <1>11 DEF r

-----------------------------------------------------------------------------
(* What is rated adds up *)

\* Rides whose fares and predictions can be compared.
AreRated(rides, raws, n) ==
    /\ n \in Nat /\ DOMAIN rides = 1 .. n /\ Len(rides) = n
    /\ \A j \in 1 .. n : rides[j].fare \in Nat \ {0} /\ IsRaw(raws[rides[j].id])

\* The rides that the i-th quantile covers, and what it loses by each ride.
CoveredAt(rides, raws, n, i) == {j \in 1 .. n : rides[j].fare <= Published(raws, rides[j])[i]}
LossAt(rides, raws, n, i) ==
    [j \in 1 .. n |-> PinballLoss(rides[j].fare, Published(raws, rides[j])[i], Levels[i])]

LEMMA RatedIsPublished ==
    ASSUME NEW rides, NEW raws, NEW n, AreRated(rides, raws, n), NEW j \in 1 .. n
    PROVE  /\ rides[j].fare \in Nat \ {0} /\ rides[j].fare \in Int
           /\ IsDistribution(Published(raws, rides[j]))
           /\ \A i \in 1 .. Top : Published(raws, rides[j])[i] \in Nat /\ Published(raws, rides[j])[i] \in Int
<1>1. rides[j].fare \in Nat \ {0} /\ IsRaw(raws[rides[j].id])
  BY DEF AreRated
<1>2. IsDistribution(Published(raws, rides[j]))
  BY <1>1, RepairPublishes DEF Published
<1>3. rides[j].fare \in Int
  BY <1>1
<1> DEFINE q == Published(raws, rides[j])
<1> HIDE DEF q
<1>4. ASSUME IsDistribution(q) PROVE \A i \in 1 .. Top : q[i] \in Nat /\ q[i] \in Int
  BY <1>4 DEF IsDistribution
<1> QED
  BY <1>1, <1>2, <1>3, <1>4 DEF q

LEMMA CoveredIsCount ==
    ASSUME NEW rides, NEW raws, NEW n \in Nat, DOMAIN rides = 1 .. n, NEW i
    PROVE  /\ Covered(rides, raws, i) = Cardinality(CoveredAt(rides, raws, n, i))
           /\ CoveredAt(rides, raws, n, i) \in SUBSET (1 .. n)
           /\ IsFiniteSet(CoveredAt(rides, raws, n, i))
           /\ Covered(rides, raws, i) \in Nat
<1>1. Covered(rides, raws, i) = Cardinality(CoveredAt(rides, raws, n, i))
  BY DEF Covered, Count, CoveredAt
<1>2. CoveredAt(rides, raws, n, i) \in SUBSET (1 .. n)
  BY DEF CoveredAt
<1>3. IsFiniteSet(1 .. n)
  BY NumbersAreFinite
<1>4. IsFiniteSet(CoveredAt(rides, raws, n, i))
  BY <1>2, <1>3, FS_Subset
<1> QED
  BY <1>1, <1>2, <1>4, FS_CardinalityType

\* A higher quantile covers no fewer rides.
LEMMA CoverageRises ==
    ASSUME NEW rides, NEW raws, NEW n, AreRated(rides, raws, n), NEW i \in 1 .. Top - 1
    PROVE  Covered(rides, raws, i) <= Covered(rides, raws, i + 1)
<1>1. n \in Nat /\ DOMAIN rides = 1 .. n
  BY DEF AreRated
<1> DEFINE C == CoveredAt(rides, raws, n, i)
           D == CoveredAt(rides, raws, n, i + 1)
<1>2. ASSUME NEW j \in C PROVE j \in D
  <2> DEFINE q == Published(raws, rides[j])
             f == rides[j].fare
  <2>1. j \in 1 .. n /\ f <= q[i]
    BY DEF CoveredAt
  <2>2. Top \in Nat
    BY LevelFacts
  <2>3. i \in 1 .. Top /\ i + 1 \in 1 .. Top /\ i <= i + 1
    BY <2>2
  <2>4. f \in Int /\ q[i] \in Int /\ q[i + 1] \in Int /\ IsDistribution(q)
    BY <2>1, <2>3, RatedIsPublished
  <2> HIDE DEF q, f
  <2>5. q[i] <= q[i + 1]
    BY <2>3, <2>4 DEF IsDistribution
  <2>6. f <= q[i + 1]
    BY <2>1, <2>4, <2>5
  <2> QED
    BY <2>1, <2>6 DEF CoveredAt, f, q
<1>3. /\ Covered(rides, raws, i) = Cardinality(C) /\ IsFiniteSet(C)
      /\ Covered(rides, raws, i + 1) = Cardinality(D) /\ IsFiniteSet(D)
  BY <1>1, CoveredIsCount
<1>4. C \subseteq D
  BY <1>2
<1> HIDE DEF C, D
<1> QED
  BY <1>3, <1>4, FS_Subset

LEMMA LevelsAreFound ==
    /\ DOMAIN Levels = 1 .. Top /\ IsFiniteSet(DOMAIN Levels)
    /\ LevelIndex(5) \in 1 .. Top /\ LevelIndex(95) \in 1 .. Top
<1>1. DOMAIN Levels = 1 .. Top /\ Top \in Nat
  BY LevelFacts
<1>2. \A level \in {5, 95} : \E i \in DOMAIN Levels : Levels[i] = level
  BY EvaluationAssumption DEF Range
<1>3. \A level \in {5, 95} : LevelIndex(level) \in DOMAIN Levels
  BY <1>2 DEF LevelIndex
<1> QED
  BY <1>1, <1>3, NumbersAreFinite

\* What lies within the central interval is covered by its upper end.
LEMMA InsideIsCovered ==
    ASSUME NEW rides, NEW raws, NEW n, AreRated(rides, raws, n)
    PROVE  LET q == Quality(rides, raws)
           IN  /\ q.inside \in Nat /\ q.inside <= q.covered[LevelIndex(95)]
               /\ q.covered[LevelIndex(95)] \in Nat /\ q.count = n
<1> DEFINE low == LevelIndex(5)
           high == LevelIndex(95)
           I == {j \in 1 .. n : /\ Published(raws, rides[j])[low] <= rides[j].fare
                                /\ rides[j].fare <= Published(raws, rides[j])[high]}
           C == CoveredAt(rides, raws, n, high)
           q == Quality(rides, raws)
<1>1. n \in Nat /\ DOMAIN rides = 1 .. n /\ Len(rides) = n
  BY DEF AreRated
<1>2. q.inside = Cardinality(I)
  BY <1>1 DEF Quality, Count
<1>3. q.covered[high] = Covered(rides, raws, high) /\ q.count = n
  BY <1>1, LevelsAreFound DEF Quality
<1>4. I \subseteq C
  BY DEF CoveredAt
<1>5. Covered(rides, raws, high) = Cardinality(C) /\ IsFiniteSet(C) /\ Covered(rides, raws, high) \in Nat
  BY <1>1, CoveredIsCount
<1> HIDE DEF I, C, q, high, low
<1>6. Cardinality(I) <= Cardinality(C) /\ IsFiniteSet(I)
  BY <1>4, <1>5, FS_Subset
<1>7. Cardinality(I) \in Nat
  BY <1>6, FS_CardinalityType
<1> QED
  BY <1>2, <1>3, <1>5, <1>6, <1>7 DEF q, high

\* A prediction whose quantiles cross has a pair that does.
LEMMA CrossedHasPairs ==
    ASSUME NEW raw, IsRaw(raw)
    PROVE  /\ CrossedPairs(raw) \in Nat
           /\ Crossed(raw) => CrossedPairs(raw) >= 1
<1> DEFINE P == {i \in 1 .. Len(raw) - 1 : raw[i + 1] < raw[i]}
<1>1. Len(raw) = Top /\ Top \in Nat
  BY LevelFacts DEF IsRaw
<1>2. IsFiniteSet(1 .. Len(raw) - 1)
  BY <1>1, FS_Interval
<1>3. IsFiniteSet(P) /\ CrossedPairs(raw) = Cardinality(P) /\ (Crossed(raw) => P # {})
  BY <1>2, FS_Subset DEF CrossedPairs, Crossed
<1> HIDE DEF P
<1>4. Cardinality(P) \in Nat /\ (P # {} => Cardinality(P) # 0)
  BY <1>3, FS_CardinalityType, FS_EmptySet
<1> QED
  BY <1>3, <1>4

LEMMA CrossedHavePairs ==
    ASSUME NEW rides, NEW raws, NEW n, AreRated(rides, raws, n)
    PROVE  Quality(rides, raws).crossed <= Quality(rides, raws).crossedPairs
<1> DEFINE N == 1 .. n
           T == {j \in N : Crossed(raws[rides[j].id])}
           u == [j \in N |-> IF j \in T THEN 1 ELSE 0]
           v == [j \in N |-> CrossedPairs(raws[rides[j].id])]
           q == Quality(rides, raws)
<1>1. n \in Nat /\ DOMAIN rides = N /\ IsFiniteSet(N)
  BY NumbersAreFinite DEF AreRated
<1>2. q.crossed = Cardinality(T) /\ q.crossedPairs = SumFunction(v)
  BY <1>1 DEF Quality, Count, Total
<1>3. ASSUME NEW j \in N PROVE u[j] \in Int /\ v[j] \in Int /\ u[j] <= v[j]
  <2>1. IsRaw(raws[rides[j].id])
    BY DEF AreRated
  <2> DEFINE raw == raws[rides[j].id]
  <2>2. CrossedPairs(raw) \in Nat /\ (Crossed(raw) => CrossedPairs(raw) >= 1)
    BY <2>1, CrossedHasPairs
  <2>3. v[j] = CrossedPairs(raw) /\ (j \in T <=> Crossed(raw)) /\ u[j] = IF j \in T THEN 1 ELSE 0
    OBVIOUS
  <2> HIDE DEF raw, u, v, T
  <2> QED
    BY <2>2, <2>3
<1>4. T \in SUBSET N /\ \A j \in N : u[j] = IF j \in T THEN 1 ELSE 0
  OBVIOUS
<1>5. DOMAIN v = N
  OBVIOUS
<1> HIDE DEF u, v, T, q, N
<1>6. SumOver(u, N) = Cardinality(T)
  BY <1>1, <1>4, CountIsSum
<1>7. SumFunction(v) = SumOver(v, N)
  BY <1>1, <1>5, FoldIsSum
<1>8. SumOver(u, N) <= SumOver(v, N)
  BY <1>1, <1>3, SumRises
<1> QED
  BY <1>2, <1>6, <1>7, <1>8 DEF q

\* The rides of a city are picked at their places.
LEMMA CityIsPicked ==
    ASSUME NEW rides, NEW n \in Nat, DOMAIN rides = 1 .. n, NEW city
    PROVE  /\ InCity(rides, city) = Picked(InTheCity(rides, n, city), rides)
           /\ InTheCity(rides, n, city) \in SUBSET (1 .. n)
<1> DEFINE I == InTheCity(rides, n, city)
<1>1. {i \in DOMAIN rides : rides[i].city = city} = I
  BY DEF InTheCity
<1>2. I \in SUBSET (1 .. n)
  BY DEF InTheCity
<1> HIDE DEF I
<1>3. InCity(rides, city) = Picked(I, rides)
  BY <1>1 DEF InCity, Selected, Places, Picked, Increasing
<1> QED
  BY <1>2, <1>3 DEF I

\* What is picked, place by place.
LEMMA PickedPlaces ==
    ASSUME NEW n \in Nat, NEW I \in SUBSET (1 .. n), NEW s, NEW m, m = Cardinality(I)
    PROVE  /\ ArePlaces(I, m) /\ m \in Nat /\ IsFiniteSet(I)
           /\ DOMAIN Picked(I, s) = 1 .. m /\ Len(Picked(I, s)) = m
           /\ \A k \in 1 .. m : Increasing(I)[k] \in I /\ Picked(I, s)[k] = s[Increasing(I)[k]]
<1>1. ArePlaces(I, m)
  BY PlacesDiffer
<1>2. /\ DOMAIN Picked(I, s) = 1 .. m /\ Len(Picked(I, s)) = m
      /\ \A k \in 1 .. m : Picked(I, s)[k] = s[Increasing(I)[k]]
  BY <1>1, PickedIsListed
<1>3. IsFiniteSet(1 .. n)
  BY NumbersAreFinite
<1>4. IsFiniteSet(I)
  BY <1>3, FS_Subset
<1> QED
  BY <1>1, <1>2, <1>4 DEF ArePlaces

LEMMA LossIsNumber ==
    ASSUME NEW rides, NEW raws, NEW n, AreRated(rides, raws, n), NEW i \in 1 .. Top, NEW j \in 1 .. n
    PROVE  LossAt(rides, raws, n, i)[j] \in Int
<1> DEFINE f == rides[j].fare
           x == Published(raws, rides[j])[i]
           level == Levels[i]
<1>1. f \in Int /\ x \in Int
  BY RatedIsPublished
<1>2. level \in Int
  <2>1. level \in 1 .. 99
    BY LevelFacts
  <2> HIDE DEF level
  <2> QED
    BY <2>1
<1>3. LossAt(rides, raws, n, i)[j] = PinballLoss(f, x, level)
  BY DEF LossAt
<1> HIDE DEF f, x, level
<1> QED
  BY <1>1, <1>2, <1>3 DEF PinballLoss

\* Of all the rides and of those of a city.
LEMMA LossIsSum ==
    ASSUME NEW rides, NEW raws, NEW n, AreRated(rides, raws, n), NEW i \in 1 .. Top
    PROVE  Loss(rides, raws, i) = SumOver(LossAt(rides, raws, n, i), 1 .. n)
<1> DEFINE w == LossAt(rides, raws, n, i)
<1>1. n \in Nat /\ DOMAIN rides = 1 .. n
  BY DEF AreRated
<1>2. Loss(rides, raws, i) = SumFunction(w) /\ DOMAIN w = 1 .. n
  BY <1>1 DEF Loss, Total, LossAt
<1> HIDE DEF w
<1> QED
  BY <1>1, <1>2, NumbersAreFinite, FoldIsSum DEF w

LEMMA LossOfPicked ==
    ASSUME NEW rides, NEW raws, NEW n, AreRated(rides, raws, n), NEW i \in 1 .. Top,
           NEW I \in SUBSET (1 .. n)
    PROVE  Loss(Picked(I, rides), raws, i) = SumOver(LossAt(rides, raws, n, i), I)
<1>0. PICK m : m = Cardinality(I)
  OBVIOUS
<1> DEFINE w == LossAt(rides, raws, n, i)
           f == Increasing(I)
           t == Picked(I, rides)
           v == [k \in DOMAIN t |-> PinballLoss(t[k].fare, Published(raws, t[k])[i], Levels[i])]
<1>1. n \in Nat /\ DOMAIN rides = 1 .. n
  BY DEF AreRated
<1>2. /\ ArePlaces(I, m) /\ m \in Nat /\ DOMAIN t = 1 .. m
      /\ \A k \in 1 .. m : f[k] \in I /\ t[k] = rides[f[k]]
  <2> HIDE DEF f, t
  <2>1. ArePlaces(I, m)
    BY <1>0, <1>1, PlacesDiffer
  <2>2. /\ DOMAIN Picked(I, rides) = 1 .. m
        /\ \A k \in 1 .. m : Picked(I, rides)[k] = rides[Increasing(I)[k]]
    BY <2>1, PickedIsListed
  <2>3. m \in Nat /\ \A k \in 1 .. m : Increasing(I)[k] \in I
    BY <2>1 DEF ArePlaces
  <2> QED
    BY <2>1, <2>2, <2>3 DEF f, t
<1>3. Loss(t, raws, i) = SumFunction(v) /\ DOMAIN v = 1 .. m
  BY <1>2 DEF Loss, Total
<1>4. \A k \in 1 .. m : v[k] = w[f[k]]
  <2>1. \A k \in 1 .. m : f[k] \in 1 .. n
    BY <1>2
  <2> HIDE DEF t, f
  <2> QED
    BY <1>2, <2>1 DEF LossAt
<1>5. \A j \in I : w[j] \in Int
  BY LossIsNumber
<1> HIDE DEF v, w, t
<1>6. SumOver(v, 1 .. m) = SumOver(w, I)
  <2>1. \A k \in 1 .. m : v[k] = w[Increasing(I)[k]]
    BY <1>4 DEF f
  <2> HIDE DEF f
  <2> QED
    BY <1>2, <1>5, <2>1, PickedSum
<1>7. SumFunction(v) = SumOver(v, 1 .. m)
  BY <1>2, <1>3, NumbersAreFinite, FoldIsSum
<1> QED
  BY <1>3, <1>6, <1>7 DEF t, w

\* A count over the whole is the sum of the counts of the parts.
LEMMA PartsAddUp ==
    ASSUME NEW n \in Nat, NEW T \in SUBSET (1 .. n),
           NEW C, IsFiniteSet(C), NEW key, \A j \in 1 .. n : key[j] \in C,
           NEW part, DOMAIN part = C,
           \A c \in C : part[c] = Cardinality(T \cap {j \in 1 .. n : key[j] = c})
    PROVE  Cardinality(T) = SumFunction(part)
<1> DEFINE N == 1 .. n
           w == [j \in N |-> IF j \in T THEN 1 ELSE 0]
           Keyed(c) == {j \in N : key[j] = c}
<1>1. IsFiniteSet(N)
  BY NumbersAreFinite
<1>2. \A j \in N : w[j] = (IF j \in T THEN 1 ELSE 0) /\ w[j] \in Int
  OBVIOUS
<1>3. \A c \in C : Keyed(c) \in SUBSET N /\ part[c] = Cardinality(T \cap Keyed(c))
  OBVIOUS
<1> HIDE DEF w
<1>4. ASSUME NEW c \in C PROVE part[c] = SumOver(w, Keyed(c))
  <2> DEFINE I == Keyed(c)
             U == T \cap I
  <2>1. IsFiniteSet(I) /\ I \in SUBSET N
    BY <1>1, <1>3, FS_Subset
  <2>2. U \in SUBSET I /\ \A j \in I : w[j] = IF j \in U THEN 1 ELSE 0
    BY <1>2
  <2>3. part[c] = Cardinality(U)
    BY <1>3
  <2> HIDE DEF I, U
  <2>4. SumOver(w, I) = Cardinality(U)
    BY <2>1, <2>2, CountIsSum
  <2> QED
    BY <2>3, <2>4 DEF I
<1>5. SumOver(w, N) = Cardinality(T)
  BY <1>1, <1>2, CountIsSum
<1>6. SumOver(w, N) = SumOver(part, C)
  <2>1. \A c \in C : part[c] = SumOver(w, {j \in N : key[j] = c})
    BY <1>4
  <2>2. \A j \in N : key[j] \in C /\ w[j] \in Int
    BY <1>2
  <2> HIDE DEF N
  <2> QED
    BY <1>1, <2>1, <2>2, SumOfParts
<1>7. SumFunction(part) = SumOver(part, C)
  BY FoldIsSum
<1> QED
  BY <1>5, <1>6, <1>7

\* The figures of a column of predictions agree with one another, and with
\* those of the cities.
LEMMA RatedAddsUp ==
    ASSUME NEW rides, NEW raws, NEW n, AreRated(rides, raws, n)
    PROVE  QualityAddsUp(Quality(rides, raws))
<1> DEFINE q == Quality(rides, raws)
           N == 1 .. n
           C == Cities(rides)
           key == [j \in N |-> rides[j].city]
           I(city) == InTheCity(rides, n, city)
<1>1. n \in Nat /\ DOMAIN rides = N /\ Len(rides) = n
  BY DEF AreRated
<1>2. /\ DOMAIN q.byCity = C /\ q.count = n
      /\ q.covered = [i \in DOMAIN Levels |-> Covered(rides, raws, i)]
      /\ q.loss = [i \in DOMAIN Levels |-> Loss(rides, raws, i)]
  BY <1>1 DEF Quality
<1>3. \A city \in C : /\ q.byCity[city].count = Len(InCity(rides, city))
                      /\ q.byCity[city].loss = SumFunction([i \in DOMAIN Levels |-> Loss(InCity(rides, city), raws, i)])
  BY DEF Quality
<1>4. q.inside <= q.covered[LevelIndex(95)] /\ q.crossed <= q.crossedPairs
  BY InsideIsCovered, CrossedHavePairs
<1>5. IsFiniteSet(N) /\ IsFiniteSet(C) /\ \A j \in N : key[j] \in C
  BY <1>1, NumbersAreFinite, CitiesAreFinite
<1>6. \A city \in C : /\ InCity(rides, city) = Picked(I(city), rides)
                      /\ I(city) = {j \in N : key[j] = city} /\ I(city) \in SUBSET N
  <2>1. \A city \in C : InCity(rides, city) = Picked(I(city), rides)
    BY <1>1, CityIsPicked
  <2>2. \A city \in C : I(city) = {j \in N : key[j] = city} /\ I(city) \in SUBSET N
    BY DEF InTheCity
  <2> QED
    BY <2>1, <2>2
<1> HIDE DEF q, C, key, I
<1>7. ASSUME NEW i \in 1 .. Top - 1 PROVE q.covered[i] <= q.covered[i + 1]
  <2>1. i \in DOMAIN Levels /\ i + 1 \in DOMAIN Levels
    BY LevelFacts
  <2> QED
    BY <1>2, <2>1, CoverageRises
<1>8. q.count = SumFunction([city \in C |-> q.byCity[city].count])
  <2> DEFINE part == [city \in C |-> q.byCity[city].count]
  <2>1. ASSUME NEW city \in C PROVE part[city] = Cardinality(N \cap {j \in N : key[j] = city})
    <3>1. I(city) \in SUBSET (1 .. n) /\ N \cap I(city) = I(city)
      BY <1>6
    <3>2. PICK m : m = Cardinality(I(city))
      OBVIOUS
    <3>3. ArePlaces(I(city), m)
      BY <1>1, <3>1, <3>2, PlacesDiffer
    <3>4. Len(Picked(I(city), rides)) = m
      BY <3>3, PickedIsListed
    <3>5. part[city] = m
      BY <1>3, <1>6, <3>4
    <3>6. N \cap {j \in N : key[j] = city} = I(city)
      BY <1>6, <3>1
    <3> QED
      BY <3>2, <3>5, <3>6
  <2>2. DOMAIN part = C /\ N \in SUBSET N
    OBVIOUS
  <2> HIDE DEF part
  <2>3. Cardinality(N) = SumFunction(part)
    BY <1>1, <1>5, <2>1, <2>2, PartsAddUp
  <2>4. Cardinality(N) = n
    BY <1>1, FS_Interval
  <2> QED
    BY <1>2, <2>3, <2>4 DEF part
<1>9. SumFunction(q.loss) = SumFunction([city \in C |-> q.byCity[city].loss])
  <2> DEFINE L == DOMAIN Levels
             w == [i \in L |-> [city \in C |-> SumOver(LossAt(rides, raws, n, i), I(city))]]
             u == q.loss
             v == [city \in C |-> q.byCity[city].loss]
  <2>1. L = 1 .. Top /\ IsFiniteSet(L)
    BY LevelsAreFound
  <2>2. ASSUME NEW i \in L, NEW city \in C
        PROVE  /\ w[i][city] \in Int /\ w[i][city] = Loss(InCity(rides, city), raws, i)
               /\ w[i][city] = SumOver(LossAt(rides, raws, n, i), {j \in N : key[j] = city})
    <3>1. w[i][city] = SumOver(LossAt(rides, raws, n, i), I(city))
      OBVIOUS
    <3>2. i \in 1 .. Top /\ I(city) \in SUBSET (1 .. n) /\ IsFiniteSet(I(city))
      BY <1>5, <1>6, <2>1, FS_Subset
    <3>3. \A j \in I(city) : LossAt(rides, raws, n, i)[j] \in Int
      BY <3>2, LossIsNumber
    <3> HIDE DEF w, L
    <3>4. w[i][city] \in Int
      BY <3>1, <3>2, <3>3, SumType
    <3>5. Loss(Picked(I(city), rides), raws, i) = w[i][city]
      BY <3>1, <3>2, LossOfPicked
    <3> QED
      BY <1>6, <3>1, <3>4, <3>5
  <2>3. \A i \in L : u[i] = Loss(rides, raws, i) /\ DOMAIN u = L /\ DOMAIN w[i] = C
    BY <1>2
  <2>4. \A city \in C : v[city] = SumFunction([i \in L |-> Loss(InCity(rides, city), raws, i)])
    BY <1>3
  <2>5. DOMAIN u = L /\ DOMAIN v = C
    BY <1>2
  <2> HIDE DEF L, w, u, v
  <2>6. ASSUME NEW i \in L PROVE u[i] = SumOver(w[i], C)
    <3> DEFINE lost == LossAt(rides, raws, n, i)
    <3>1. u[i] = SumOver(lost, N)
      BY <2>1, <2>3, LossIsSum
    <3>2. \A j \in N : lost[j] \in Int
      BY <2>1, LossIsNumber
    <3>3. \A city \in C : w[i][city] = SumOver(lost, {j \in N : key[j] = city})
      BY <2>2
    <3> HIDE DEF lost, N
    <3>4. SumOver(lost, N) = SumOver(w[i], C)
      BY <1>5, <3>2, <3>3, SumOfParts
    <3> QED
      BY <3>1, <3>4
  <2> DEFINE z == [city \in C |-> [i \in L |-> Loss(InCity(rides, city), raws, i)]]
  <2>7. ASSUME NEW city \in C
        PROVE  /\ v[city] = SumOver(z[city], L)
               /\ \A i \in L : z[city][i] = w[i][city]
    <3>1. \A i \in L : z[city][i] = w[i][city]
      BY <2>2
    <3>2. v[city] = SumFunction(z[city]) /\ DOMAIN z[city] = L
      BY <2>4
    <3> HIDE DEF z
    <3>3. SumFunction(z[city]) = SumOver(z[city], L)
      BY <2>1, <3>2, FoldIsSum
    <3> QED
      BY <3>1, <3>2, <3>3
  <2> HIDE DEF z
  <2>8. SumOver(u, L) = SumOver(v, C)
    <3>1. IsFiniteSet(L) /\ IsFiniteSet(C)
      BY <1>5, <2>1
    <3>2. \A i \in L : \A city \in C : w[i][city] \in Int
      BY <2>2
    <3>3. \A i \in L : u[i] = SumOver(w[i], C)
      BY <2>6
    <3>4. \A city \in C : v[city] = SumOver(z[city], L)
      BY <2>7
    <3>5. \A city \in C : \A i \in L : z[city][i] = w[i][city]
      BY <2>7
    <3>6. SumBothWays(L, C, w, z, u, v)
      BY <3>1, <3>2, <3>3, <3>4, <3>5 DEF SumBothWays
    <3> QED
      BY <3>6, SumsSwap
  <2>9. SumFunction(u) = SumOver(u, L) /\ SumFunction(v) = SumOver(v, C)
    BY <1>5, <2>1, <2>5, FoldIsSum
  <2> QED
    BY <2>8, <2>9 DEF u, v
<1>10. AddsUp(q, q.byCity, LAMBDA x : x.count)
  BY <1>2, <1>8 DEF AddsUp
<1> QED
  BY <1>2, <1>4, <1>7, <1>9, <1>10 DEF QualityAddsUp, q
-----------------------------------------------------------------------------
(* Cases add up, by depth and by segment *)

\* Cases whose rides have fares, and that both columns have predictions for.
AreCases(cases, n, base, personal) ==
    /\ n \in Nat /\ DOMAIN cases = 1 .. n /\ Len(cases) = n
    /\ \A j \in 1 .. n :
        /\ cases[j].ride.fare \in Nat \ {0}
        /\ cases[j].history.count \in Nat
        /\ cases[j].ride.id \in DOMAIN base
        /\ IsRaw(base[cases[j].ride.id]) /\ IsRaw(personal[cases[j].ride.id])

EnoughAt(cases, n, enough) == {j \in 1 .. n : cases[j].ride.id \in enough}

LEMMA DepthsAreNumbers ==
    /\ DOMAIN Depths = {"0-2", "3-5", "6-10", "11+"}
    /\ Depths["0-2"] = 0 .. 2 /\ Depths["3-5"] = 3 .. 5 /\ Depths["6-10"] = 6 .. 10
    /\ Depths["11+"] = Nat \ (0 .. 10)
  BY DEF Depths

\* The rides of cases that either column predicts.
LEMMA CasesAreRated ==
    ASSUME NEW cases, NEW n, NEW base, NEW personal, AreCases(cases, n, base, personal), NEW enough
    PROVE  /\ AreRated(RidesOf(cases), base, n)
           /\ AreRated(RidesOf(cases), Fallback(base, personal, enough), n)
<1> DEFINE rides == RidesOf(cases)
           column == Fallback(base, personal, enough)
<1>1. n \in Nat /\ DOMAIN cases = 1 .. n /\ Len(cases) = n
  BY DEF AreCases
<1>2. DOMAIN rides = 1 .. n /\ \A j \in 1 .. n : rides[j] = cases[j].ride
  BY <1>1 DEF RidesOf
<1>3. Len(rides) = n
  BY <1>1, <1>2 DEF RidesOf
<1>4. ASSUME NEW j \in 1 .. n
      PROVE  rides[j].fare \in Nat \ {0} /\ IsRaw(base[rides[j].id]) /\ IsRaw(column[rides[j].id])
  <2>1. /\ rides[j] = cases[j].ride
        /\ cases[j].ride.fare \in Nat \ {0} /\ cases[j].ride.id \in DOMAIN base
        /\ IsRaw(base[cases[j].ride.id]) /\ IsRaw(personal[cases[j].ride.id])
    BY <1>2 DEF AreCases
  <2>2. column[rides[j].id] = IF rides[j].id \in enough THEN personal[rides[j].id] ELSE base[rides[j].id]
    BY <2>1 DEF Fallback
  <2> QED
    BY <2>1, <2>2
<1> HIDE DEF rides, column
<1> SUFFICES AreRated(rides, base, n) /\ AreRated(rides, column, n)
  BY DEF rides, column
<1> QED
  BY <1>1, <1>2, <1>3, <1>4 DEF AreRated

\* What is counted of a cohort.
LEMMA CohortCounts ==
    ASSUME NEW cases, NEW n, NEW base, NEW personal, AreCases(cases, n, base, personal), NEW enough
    PROVE  LET c == Cohort(cases, base, personal, enough)
           IN  /\ c.count = n /\ c.personalized = Cardinality(EnoughAt(cases, n, enough))
               /\ c.personalized \in Nat /\ c.fallback = n - c.personalized
               /\ c.base = Quality(RidesOf(cases), base)
               /\ c.personal = Quality(RidesOf(cases), Fallback(base, personal, enough))
               /\ \A i \in DOMAIN Levels :
                    c.personal.covered[i] = Covered(RidesOf(cases), Fallback(base, personal, enough), i)
<1> DEFINE c == Cohort(cases, base, personal, enough)
           P == EnoughAt(cases, n, enough)
<1>1. n \in Nat /\ DOMAIN cases = 1 .. n /\ Len(cases) = n
  BY DEF AreCases
<1>2. Count(LAMBDA x : x.ride.id \in enough, cases) = Cardinality(P)
  BY <1>1 DEF Count, EnoughAt
<1>3. IsFiniteSet(1 .. n) /\ P \in SUBSET (1 .. n)
  BY <1>1, NumbersAreFinite DEF EnoughAt
<1>4. Cardinality(P) \in Nat
  BY <1>3, FS_Subset, FS_CardinalityType
<1> HIDE DEF P
<1>5. /\ c.count = n /\ c.personalized = Cardinality(P) /\ c.fallback = n - Cardinality(P)
      /\ c.base = Quality(RidesOf(cases), base)
      /\ c.personal = Quality(RidesOf(cases), Fallback(base, personal, enough))
  BY <1>1, <1>2 DEF Cohort
<1>6. \A i \in DOMAIN Levels :
        c.personal.covered[i] = Covered(RidesOf(cases), Fallback(base, personal, enough), i)
  <2>1. ASSUME NEW rides, NEW raws, NEW i \in DOMAIN Levels
        PROVE  Quality(rides, raws).covered[i] = Covered(rides, raws, i)
    BY DEF Quality
  <2> HIDE DEF c
  <2> QED
    BY <1>5, <2>1
<1> HIDE DEF c
<1> QED
  BY <1>4, <1>5, <1>6 DEF c, P

\* Where no ride has enough history, the columns are one.
LEMMA CohortAdds ==
    ASSUME NEW cases, NEW n, NEW base, NEW personal, AreCases(cases, n, base, personal), NEW enough,
           base = [id \in DOMAIN base |-> base[id]],
           \A id \in DOMAIN base : \E j \in 1 .. n : cases[j].ride.id = id
    PROVE  CohortAddsUp(Cohort(cases, base, personal, enough))
<1> DEFINE c == Cohort(cases, base, personal, enough)
           P == EnoughAt(cases, n, enough)
           column == Fallback(base, personal, enough)
<1>1. /\ c.count = n /\ c.personalized = Cardinality(P) /\ c.personalized \in Nat
      /\ c.fallback = n - c.personalized
      /\ c.base = Quality(RidesOf(cases), base) /\ c.personal = Quality(RidesOf(cases), column)
  BY CohortCounts
<1>2. n \in Nat
  BY DEF AreCases
<1>3. QualityAddsUp(Quality(RidesOf(cases), base)) /\ QualityAddsUp(Quality(RidesOf(cases), column))
  BY CasesAreRated, RatedAddsUp
<1>4. ASSUME c.personalized = 0 PROVE column = base
  <2>1. IsFiniteSet(1 .. n) /\ P \in SUBSET (1 .. n)
    BY <1>2, NumbersAreFinite DEF EnoughAt
  <2>2. IsFiniteSet(P)
    BY <2>1, FS_Subset
  <2>3. P = {}
    BY <1>1, <1>4, <2>2, FS_EmptySet
  <2>4. \A id \in DOMAIN base : id \notin enough
    BY <2>3 DEF EnoughAt
  <2>5. column = [id \in DOMAIN base |-> base[id]]
    BY <2>4 DEF Fallback
  <2> QED
    BY <2>5
<1> HIDE DEF c, column, P
<1>5. c.fallback + c.personalized = c.count
  BY <1>1, <1>2
<1> QED
  BY <1>1, <1>3, <1>4, <1>5 DEF CohortAddsUp, c

AtDepth(cases, n, g) == {j \in 1 .. n : cases[j].history.count \in Depths[g]}

LEMMA CountsDiffer ==
    ASSUME NEW I, IsFiniteSet(I), NEW T
    PROVE  Cardinality(I) - Cardinality(T \cap I) = Cardinality(I \ T)
<1>1. Cardinality(I \ T) = Cardinality(I) - Cardinality(I \cap T)
  BY FS_Difference
<1>2. I \cap T = T \cap I
  OBVIOUS
<1> QED
  BY <1>1, <1>2

\* What is counted of the cases at the places I.
HasCounts(c, cases, n, column, enough, I) ==
    LET N == 1 .. n
        P == EnoughAt(cases, n, enough)
    IN  /\ c.count = Cardinality(N \cap I) /\ c.personalized = Cardinality(P \cap I)
        /\ c.fallback = Cardinality((N \ P) \cap I)
        /\ \A i \in DOMAIN Levels :
            c.personal.covered[i] = Cardinality(CoveredAt(RidesOf(cases), column, n, i) \cap I)

\* The cases that are picked are cases, and are counted at their places.
LEMMA PartCounts ==
    ASSUME NEW cases, NEW n, NEW base, NEW personal, AreCases(cases, n, base, personal), NEW enough,
           NEW I \in SUBSET (1 .. n)
    PROVE  HasCounts(Cohort(Picked(I, cases), base, personal, enough), cases, n,
                     Fallback(base, personal, enough), enough, I)
<1> DEFINE part == Picked(I, cases)
           c == Cohort(part, base, personal, enough)
           N == 1 .. n
           P == EnoughAt(cases, n, enough)
           column == Fallback(base, personal, enough)
           f == Increasing(I)
<1>1. n \in Nat /\ DOMAIN cases = N
  BY DEF AreCases
<1>2. PICK m : m = Cardinality(I)
  OBVIOUS
<1>3. /\ ArePlaces(I, m) /\ m \in Nat /\ IsFiniteSet(I)
      /\ DOMAIN part = 1 .. m /\ Len(part) = m
      /\ \A k \in 1 .. m : f[k] \in I /\ part[k] = cases[f[k]]
  <2> HIDE DEF c, column, P
  <2>1. /\ ArePlaces(I, m) /\ m \in Nat /\ IsFiniteSet(I)
        /\ DOMAIN Picked(I, cases) = 1 .. m /\ Len(Picked(I, cases)) = m
    BY <1>1, <1>2, PickedPlaces
  <2>2. \A k \in 1 .. m : Increasing(I)[k] \in I
    BY <2>1 DEF ArePlaces
  <2>3. \A k \in 1 .. m : Picked(I, cases)[k] = cases[Increasing(I)[k]]
    BY <2>1, PickedIsListed
  <2> QED
    BY <2>1, <2>2, <2>3
<1>4. \A k \in 1 .. m : f[k] \in N
  BY <1>3
<1> HIDE DEF part, f
<1>5. AreCases(part, m, base, personal)
  BY <1>3, <1>4 DEF AreCases
<1>6. /\ c.count = m /\ c.personalized = Cardinality(EnoughAt(part, m, enough))
      /\ c.fallback = m - c.personalized
      /\ \A i \in DOMAIN Levels : c.personal.covered[i] = Covered(RidesOf(part), column, i)
  BY <1>5, CohortCounts
<1> HIDE DEF c
<1>7. c.personalized = Cardinality(P \cap I)
  <2>1. EnoughAt(part, m, enough) = {k \in 1 .. m : f[k] \in P}
    BY <1>3, <1>4 DEF EnoughAt
  <2> QED
    BY <1>3, <1>6, <2>1, PickedCount DEF f
<1>8. c.fallback = Cardinality((N \ P) \cap I)
  <2>1. (N \ P) \cap I = I \ P
    OBVIOUS
  <2>2. Cardinality(I) - Cardinality(P \cap I) = Cardinality(I \ P)
    BY <1>3, CountsDiffer
  <2> QED
    BY <1>2, <1>6, <1>7, <2>1, <2>2
<1>9. ASSUME NEW i \in DOMAIN Levels
      PROVE  c.personal.covered[i] = Cardinality(CoveredAt(RidesOf(cases), column, n, i) \cap I)
  <2> DEFINE V == CoveredAt(RidesOf(cases), column, n, i)
             U == CoveredAt(RidesOf(part), column, m, i)
  <2>1. DOMAIN RidesOf(part) = 1 .. m
    BY <1>3 DEF RidesOf
  <2>2. Covered(RidesOf(part), column, i) = Cardinality(U)
    BY <1>3, <2>1, CoveredIsCount
  <2>3. \A k \in 1 .. m : RidesOf(part)[k] = RidesOf(cases)[f[k]]
    BY <1>1, <1>3, <1>4 DEF RidesOf
  <2>4. U = {k \in 1 .. m : f[k] \in V}
    BY <1>4, <2>3 DEF CoveredAt
  <2> HIDE DEF U, V
  <2>5. Cardinality(U) = Cardinality(V \cap I)
    BY <1>3, <2>4, PickedCount DEF f
  <2> QED
    BY <1>6, <2>2, <2>5 DEF V
<1>10. N \cap I = I
  OBVIOUS
<1> SUFFICES HasCounts(c, cases, n, column, enough, I)
  BY DEF c, part
<1> QED
  BY <1>2, <1>6, <1>7, <1>8, <1>9, <1>10 DEF HasCounts

\* The same counts over all the cases.
LEMMA WholeCounts ==
    ASSUME NEW cases, NEW n, NEW base, NEW personal, AreCases(cases, n, base, personal), NEW enough
    PROVE  HasCounts(Cohort(cases, base, personal, enough), cases, n,
                     Fallback(base, personal, enough), enough, 1 .. n)
<1> DEFINE c == Cohort(cases, base, personal, enough)
           N == 1 .. n
           P == EnoughAt(cases, n, enough)
           column == Fallback(base, personal, enough)
<1>1. n \in Nat /\ DOMAIN cases = N
  BY DEF AreCases
<1>2. /\ c.count = n /\ c.personalized = Cardinality(P) /\ c.fallback = n - c.personalized
      /\ \A i \in DOMAIN Levels : c.personal.covered[i] = Covered(RidesOf(cases), column, i)
  BY CohortCounts
<1>3. IsFiniteSet(N) /\ Cardinality(N) = n
  BY <1>1, NumbersAreFinite, FS_Interval
<1>4. P \cap N = P /\ (N \ P) \cap N = N \ P /\ N \cap N = N
  BY DEF EnoughAt
<1>5. Cardinality(N) - Cardinality(P \cap N) = Cardinality(N \ P)
  BY <1>3, CountsDiffer
<1>6. DOMAIN RidesOf(cases) = 1 .. n
  BY <1>1 DEF RidesOf
<1>7. \A i \in DOMAIN Levels :
        /\ Covered(RidesOf(cases), column, i) = Cardinality(CoveredAt(RidesOf(cases), column, n, i))
        /\ CoveredAt(RidesOf(cases), column, n, i) \cap N = CoveredAt(RidesOf(cases), column, n, i)
  <2>1. \A i \in DOMAIN Levels :
        /\ Covered(RidesOf(cases), column, i) = Cardinality(CoveredAt(RidesOf(cases), column, n, i))
        /\ CoveredAt(RidesOf(cases), column, n, i) \in SUBSET (1 .. n)
    BY <1>1, <1>6, CoveredIsCount
  <2> QED
    BY <2>1
<1> HIDE DEF c
<1> SUFFICES HasCounts(c, cases, n, column, enough, N)
  BY DEF c
<1> QED
  BY <1>2, <1>3, <1>4, <1>5, <1>7 DEF HasCounts

\* Every depth of history is in one of the groups.
DepthAt(cases, n) ==
    [j \in 1 .. n |-> CHOOSE g \in DOMAIN Depths : cases[j].history.count \in Depths[g]]

LEMMA DepthIsOne ==
    ASSUME NEW cases, NEW n, \A j \in 1 .. n : cases[j].history.count \in Nat
    PROVE  /\ \A j \in 1 .. n : DepthAt(cases, n)[j] \in DOMAIN Depths
           /\ \A g \in DOMAIN Depths : AtDepth(cases, n, g) = {j \in 1 .. n : DepthAt(cases, n)[j] = g}
<1>1. ASSUME NEW k \in Nat PROVE \E g \in DOMAIN Depths : k \in Depths[g]
  BY DepthsAreNumbers
<1>2. ASSUME NEW k \in Nat, NEW g \in DOMAIN Depths, NEW h \in DOMAIN Depths,
             k \in Depths[g], k \in Depths[h]
      PROVE  g = h
  BY <1>2, DepthsAreNumbers
<1>3. ASSUME NEW j \in 1 .. n
      PROVE  /\ DepthAt(cases, n)[j] \in DOMAIN Depths
             /\ cases[j].history.count \in Depths[DepthAt(cases, n)[j]]
  <2>1. \E g \in DOMAIN Depths : cases[j].history.count \in Depths[g]
    BY <1>1
  <2> QED
    BY <2>1 DEF DepthAt
<1>4. ASSUME NEW g \in DOMAIN Depths
      PROVE  AtDepth(cases, n, g) = {j \in 1 .. n : DepthAt(cases, n)[j] = g}
  <2>1. \A j \in 1 .. n : cases[j].history.count \in Depths[g] <=> DepthAt(cases, n)[j] = g
    BY <1>2, <1>3
  <2> QED
    BY <2>1 DEF AtDepth
<1> QED
  BY <1>3, <1>4

\* The cases of a group are picked.
LEMMA DepthIsPicked ==
    ASSUME NEW cases, NEW n \in Nat, DOMAIN cases = 1 .. n, NEW g \in DOMAIN Depths
    PROVE  /\ ByDepth(cases)[g] = Picked(AtDepth(cases, n, g), cases)
           /\ AtDepth(cases, n, g) \in SUBSET (1 .. n)
<1> DEFINE I == AtDepth(cases, n, g)
<1>1. {i \in DOMAIN cases : InDepth(g, cases[i].history)} = I
  BY DEF AtDepth, InDepth
<1>2. I \in SUBSET (1 .. n)
  BY DEF AtDepth
<1>3. ByDepth(cases)[g] = Selected(LAMBDA c : InDepth(g, c.history), cases)
  BY DEF ByDepth
<1> HIDE DEF I
<1>4. Selected(LAMBDA c : InDepth(g, c.history), cases) = Picked(I, cases)
  BY <1>1 DEF Selected, Places, Picked, Increasing
<1> QED
  BY <1>2, <1>3, <1>4 DEF I

LEMMA PickedIsThere ==
    ASSUME NEW n \in Nat, NEW I \in SUBSET (1 .. n), NEW i \in I, NEW s
    PROVE  Picked(I, s) # <<>>
<1>1. PICK m : m = Cardinality(I)
  OBVIOUS
<1>2. ArePlaces(I, m)
  BY <1>1, PlacesDiffer
<1>3. Len(Picked(I, s)) = m
  BY <1>2, PickedIsListed
<1>4. PICK k \in 1 .. m : Increasing(I)[k] = i
  BY <1>2 DEF ArePlaces
<1>5. m # 0
  BY <1>2, <1>4 DEF ArePlaces
<1> QED
  BY <1>3, <1>5

\* What is counted at each depth is in all what is counted over the whole.
LEMMA DepthsCount ==
    ASSUME NEW cases, NEW n, NEW base, NEW personal, AreCases(cases, n, base, personal), NEW enough,
           NEW depths, depths = Grouped(ByDepth(cases), base, personal, enough),
           NEW T \in SUBSET (1 .. n), NEW part, DOMAIN part = DOMAIN depths,
           \A g \in DOMAIN depths : part[g] = Cardinality(T \cap AtDepth(cases, n, g))
    PROVE  Cardinality(T) = SumFunction(part)
<1> DEFINE C == DOMAIN depths
           key == DepthAt(cases, n)
<1>1. n \in Nat /\ DOMAIN cases = 1 .. n /\ \A j \in 1 .. n : cases[j].history.count \in Nat
  BY DEF AreCases
<1>2. C = {g \in DOMAIN Depths : ByDepth(cases)[g] # <<>>}
  BY DEF Grouped, ByDepth
<1>3. IsFiniteSet(C)
  <2>1. IsFiniteSet({"0-2", "3-5", "6-10", "11+"})
    <3>1. IsFiniteSet({"0-2"}) /\ IsFiniteSet({"3-5"}) /\ IsFiniteSet({"6-10"}) /\ IsFiniteSet({"11+"})
      BY FS_Singleton
    <3>2. IsFiniteSet({"0-2"} \cup {"3-5"}) /\ IsFiniteSet({"6-10"} \cup {"11+"})
      BY <3>1, FS_Union
    <3>3. IsFiniteSet(({"0-2"} \cup {"3-5"}) \cup ({"6-10"} \cup {"11+"}))
      BY <3>2, FS_Union
    <3>4. ({"0-2"} \cup {"3-5"}) \cup ({"6-10"} \cup {"11+"}) = {"0-2", "3-5", "6-10", "11+"}
      OBVIOUS
    <3> QED
      BY <3>3, <3>4
  <2>2. C \in SUBSET {"0-2", "3-5", "6-10", "11+"}
    BY <1>2, DepthsAreNumbers
  <2> QED
    BY <2>1, <2>2, FS_Subset
<1>4. \A j \in 1 .. n : key[j] \in DOMAIN Depths
  BY <1>1, DepthIsOne
<1>5. \A g \in DOMAIN Depths : AtDepth(cases, n, g) = {j \in 1 .. n : key[j] = g}
  BY <1>1, DepthIsOne
<1> HIDE DEF C, key
<1>6. ASSUME NEW j \in 1 .. n PROVE key[j] \in C
  <2>1. j \in AtDepth(cases, n, key[j]) /\ key[j] \in DOMAIN Depths
    BY <1>4, <1>5
  <2>2. /\ ByDepth(cases)[key[j]] = Picked(AtDepth(cases, n, key[j]), cases)
        /\ AtDepth(cases, n, key[j]) \in SUBSET (1 .. n)
    BY <1>1, <2>1, DepthIsPicked
  <2>3. Picked(AtDepth(cases, n, key[j]), cases) # <<>>
    BY <1>1, <2>1, <2>2, PickedIsThere
  <2> QED
    BY <1>2, <2>1, <2>2, <2>3
<1>7. \A g \in C : part[g] = Cardinality(T \cap {j \in 1 .. n : key[j] = g})
  BY <1>2, <1>5 DEF C
<1>8. DOMAIN part = C
  BY DEF C
<1> QED
  BY <1>1, <1>3, <1>6, <1>7, <1>8, PartsAddUp

\* What is told of a depth.
LEMMA DepthIsCohort ==
    ASSUME NEW cases, NEW n, NEW base, NEW personal, AreCases(cases, n, base, personal), NEW enough,
           NEW depths, depths = Grouped(ByDepth(cases), base, personal, enough), NEW g \in DOMAIN depths
    PROVE  LET I == AtDepth(cases, n, g)
           IN  depths[g] = Cohort(Picked(I, cases), base, personal, enough) /\ I \in SUBSET (1 .. n)
<1>1. n \in Nat /\ DOMAIN cases = 1 .. n
  BY DEF AreCases
<1>2. g \in DOMAIN Depths /\ depths[g] = Cohort(ByDepth(cases)[g], base, personal, enough)
  BY DEF Grouped, ByDepth
<1> QED
  BY <1>1, <1>2, DepthIsPicked

\* The depths add up to the whole, figure by figure.
LEMMA DepthsAddUp ==
    ASSUME NEW cases, NEW n, NEW base, NEW personal, AreCases(cases, n, base, personal), NEW enough,
           NEW overall, overall = Cohort(cases, base, personal, enough),
           NEW depths, depths = Grouped(ByDepth(cases), base, personal, enough)
    PROVE  /\ \A figure \in {"count", "fallback", "personalized"} :
                overall[figure] = SumFunction([g \in DOMAIN depths |-> depths[g][figure]])
           /\ \A i \in DOMAIN Levels :
                overall.personal.covered[i] = SumFunction([g \in DOMAIN depths |-> depths[g].personal.covered[i]])
<1> DEFINE N == 1 .. n
           P == EnoughAt(cases, n, enough)
           V(i) == CoveredAt(RidesOf(cases), Fallback(base, personal, enough), n, i)
           I(g) == AtDepth(cases, n, g)
<1>1. /\ overall.count = Cardinality(N) /\ overall.personalized = Cardinality(P)
      /\ overall.fallback = Cardinality(N \ P)
      /\ \A i \in DOMAIN Levels : overall.personal.covered[i] = Cardinality(V(i))
  <2>1. HasCounts(overall, cases, n, Fallback(base, personal, enough), enough, 1 .. n)
    BY WholeCounts
  <2>2. N \cap N = N /\ P \cap N = P /\ (N \ P) \cap N = N \ P /\ \A i : V(i) \cap N = V(i)
    BY DEF EnoughAt, CoveredAt
  <2> QED
    BY <2>1, <2>2 DEF HasCounts
<1>2. \A i \in DOMAIN Levels : V(i) \in SUBSET (1 .. n)
  BY DEF CoveredAt
<1>3. ASSUME NEW g \in DOMAIN depths
      PROVE  /\ depths[g].count = Cardinality(N \cap I(g)) /\ depths[g].personalized = Cardinality(P \cap I(g))
             /\ depths[g].fallback = Cardinality((N \ P) \cap I(g))
             /\ \A i \in DOMAIN Levels : depths[g].personal.covered[i] = Cardinality(V(i) \cap I(g))
  <2>1. depths[g] = Cohort(Picked(I(g), cases), base, personal, enough) /\ I(g) \in SUBSET (1 .. n)
    BY DepthIsCohort
  <2> HIDE DEF I
  <2>2. HasCounts(depths[g], cases, n, Fallback(base, personal, enough), enough, I(g))
    BY <2>1, PartCounts
  <2> QED
    BY <2>2 DEF HasCounts
<1>4. N \in SUBSET (1 .. n) /\ P \in SUBSET (1 .. n) /\ (N \ P) \in SUBSET (1 .. n)
  BY DEF EnoughAt
<1> HIDE DEF N, P
<1> DEFINE Over(figure) == [g \in DOMAIN depths |-> depths[g][figure]]
<1>5. overall["count"] = SumFunction(Over("count"))
  <2>1. /\ DOMAIN Over("count") = DOMAIN depths
        /\ \A g \in DOMAIN depths : Over("count")[g] = Cardinality(N \cap AtDepth(cases, n, g))
    BY <1>3
  <2> HIDE DEF Over
  <2>2. Cardinality(N) = SumFunction(Over("count"))
    BY <1>4, <2>1, DepthsCount
  <2> QED
    BY <1>1, <2>2
<1>6. overall["personalized"] = SumFunction(Over("personalized"))
  <2>1. /\ DOMAIN Over("personalized") = DOMAIN depths
        /\ \A g \in DOMAIN depths : Over("personalized")[g] = Cardinality(P \cap AtDepth(cases, n, g))
    BY <1>3
  <2> HIDE DEF Over
  <2>2. Cardinality(P) = SumFunction(Over("personalized"))
    BY <1>4, <2>1, DepthsCount
  <2> QED
    BY <1>1, <2>2
<1>7. overall["fallback"] = SumFunction(Over("fallback"))
  <2>1. /\ DOMAIN Over("fallback") = DOMAIN depths
        /\ \A g \in DOMAIN depths : Over("fallback")[g] = Cardinality((N \ P) \cap AtDepth(cases, n, g))
    BY <1>3
  <2> HIDE DEF Over
  <2>2. Cardinality(N \ P) = SumFunction(Over("fallback"))
    BY <1>4, <2>1, DepthsCount
  <2> QED
    BY <1>1, <2>2
<1>8. ASSUME NEW i \in DOMAIN Levels
      PROVE  overall.personal.covered[i] = SumFunction([g \in DOMAIN depths |-> depths[g].personal.covered[i]])
  <2> DEFINE part == [g \in DOMAIN depths |-> depths[g].personal.covered[i]]
             W == V(i)
  <2>1. /\ DOMAIN part = DOMAIN depths
        /\ \A g \in DOMAIN depths : part[g] = Cardinality(W \cap AtDepth(cases, n, g))
    BY <1>3
  <2>2. W \in SUBSET (1 .. n) /\ overall.personal.covered[i] = Cardinality(W)
    BY <1>1, <1>2
  <2> HIDE DEF part, W
  <2>3. Cardinality(W) = SumFunction(part)
    BY <2>1, <2>2, DepthsCount
  <2> QED
    BY <2>2, <2>3 DEF part
<1> QED
  BY <1>5, <1>6, <1>7, <1>8

\* A kind of history is told of rides with enough of it alone.
LEMMA SegmentsAreEnough ==
    ASSUME NEW cases, NEW n, NEW base, NEW personal, AreCases(cases, n, base, personal), NEW enough,
           NEW segments, segments = Grouped(BySegment(cases, enough), base, personal, enough),
           NEW g \in DOMAIN segments
    PROVE  segments[g].fallback = 0 /\ segments[g].count <= Cohort(cases, base, personal, enough).personalized
<1> DEFINE P == EnoughAt(cases, n, enough)
           I == {j \in 1 .. n : cases[j].ride.id \in enough /\ InSegment(g, cases[j].history)}
<1>1. n \in Nat /\ DOMAIN cases = 1 .. n
  BY DEF AreCases
<1>2. g \in SegmentNames /\ segments[g] = Cohort(BySegment(cases, enough)[g], base, personal, enough)
  BY DEF Grouped, BySegment
<1>3. BySegment(cases, enough)[g] = Picked(I, cases)
  <2>1. BySegment(cases, enough)[g]
            = Selected(LAMBDA c : c.ride.id \in enough /\ InSegment(g, c.history), cases)
    BY <1>2 DEF BySegment
  <2>2. {i \in DOMAIN cases : cases[i].ride.id \in enough /\ InSegment(g, cases[i].history)} = I
    BY <1>1
  <2> HIDE DEF I
  <2>3. Selected(LAMBDA c : c.ride.id \in enough /\ InSegment(g, c.history), cases) = Picked(I, cases)
    BY <2>2 DEF Selected, Places, Picked, Increasing
  <2> QED
    BY <2>1, <2>3
<1>4. I \in SUBSET (1 .. n) /\ I \in SUBSET P /\ (1 .. n \ P) \cap I = {} /\ 1 .. n \cap I = I
  BY DEF EnoughAt
<1>5. P \in SUBSET (1 .. n) /\ IsFiniteSet(1 .. n)
  BY <1>1, NumbersAreFinite DEF EnoughAt
<1>6. IsFiniteSet(P)
  BY <1>5, FS_Subset
<1> HIDE DEF I
<1>7. /\ segments[g].count = Cardinality(1 .. n \cap I)
      /\ segments[g].fallback = Cardinality((1 .. n \ P) \cap I)
  <2>1. HasCounts(segments[g], cases, n, Fallback(base, personal, enough), enough, I)
    BY <1>2, <1>3, <1>4, PartCounts
  <2> QED
    BY <2>1 DEF HasCounts
<1>8. Cardinality(I) <= Cardinality(P)
  BY <1>4, <1>6, FS_Subset
<1>9. Cohort(cases, base, personal, enough).personalized = Cardinality(P)
  BY CohortCounts
<1> QED
  BY <1>4, <1>7, <1>8, <1>9, FS_EmptySet

\* The blocks that either column leads to have metrics that add up.
LEMMA DownstreamAddsUp ==
    ASSUME NEW cases, NEW n \in Nat, n > 0, NEW base, NEW personal, AreCases(cases, n, base, personal),
           \A j \in 1 .. n : IsJoinedRide(cases[j].ride),
           NEW step, HasDownstream(cases, base, personal, step),
           NEW raws \in {base, Fallback(base, personal, WithEnough(cases))}
    PROVE  MetricsAddUp(Downstream(RidesOf(cases), raws, step))
<1> DEFINE rides == RidesOf(cases)
           blocks == BlocksBy("balanced", rides, raws, step)
<1>1. AreRated(rides, raws, n)
  BY CasesAreRated
<1>2. Comparable({"balanced"}, rides, raws, step) /\ HasMetrics(MetricsOf(rides, blocks))
  BY DEF HasDownstream, Downstream
<1>3. DOMAIN rides = 1 .. n /\ Len(rides) = n /\ \A j \in 1 .. n : IsRaw(raws[rides[j].id])
  BY <1>1 DEF AreRated
<1>4. \A j \in 1 .. n : IsJoinedRide(rides[j])
  <2>1. DOMAIN cases = 1 .. n
    BY DEF AreCases
  <2> QED
    BY <2>1 DEF RidesOf
<1>5. Compared({"balanced"}, rides, raws, step)["balanced"] = MetricsOf(rides, blocks)
  BY DEF Compared
<1> HIDE DEF rides
<1>6. HasMetrics(Compared({"balanced"}, rides, raws, step)["balanced"])
  BY <1>2, <1>5
<1>7. AreEvaluable(rides, blocks, n)
  BY <1>2, <1>3, <1>4, <1>6, ComparedAreEvaluable
<1> HIDE DEF blocks
<1>8. MetricsAddUp(MetricsOf(rides, blocks))
  BY <1>7, WholeMetrics
<1> QED
  BY <1>8 DEF Downstream, rides, blocks

\* What the evaluation of personalized predictions reports.
LEMMA CasesAddUp ==
    ASSUME NEW cases, NEW n \in Nat, n > 0, NEW base, NEW personal, AreCases(cases, n, base, personal),
           base = [id \in DOMAIN base |-> base[id]],
           \A id \in DOMAIN base : \E j \in 1 .. n : cases[j].ride.id = id,
           \A j \in 1 .. n : IsJoinedRide(cases[j].ride),
           NEW step, HasDownstream(cases, base, personal, step),
           NEW enough, enough = WithEnough(cases),
           NEW r, r.overall = Cohort(cases, base, personal, enough),
           r.depths = Grouped(ByDepth(cases), base, personal, enough),
           r.segments = Grouped(BySegment(cases, enough), base, personal, enough),
           r.downstream = <<Downstream(RidesOf(cases), base, step),
                            Downstream(RidesOf(cases), Fallback(base, personal, enough), step)>>
    PROVE  PersonalizationAddsUp(r)
<1>1. CohortAddsUp(r.overall)
  BY CohortAdds
<1>2. /\ \A figure \in {"count", "fallback", "personalized"} :
            r.overall[figure] = SumFunction([g \in DOMAIN r.depths |-> r.depths[g][figure]])
      /\ \A i \in DOMAIN Levels :
            r.overall.personal.covered[i] = SumFunction([g \in DOMAIN r.depths |-> r.depths[g].personal.covered[i]])
  BY DepthsAddUp
<1>3. ASSUME NEW g \in DOMAIN r.segments
      PROVE  r.segments[g].fallback = 0 /\ r.segments[g].count <= r.overall.personalized
  <2> DEFINE segments == r.segments
  <2>1. segments = Grouped(BySegment(cases, enough), base, personal, enough) /\ g \in DOMAIN segments
    OBVIOUS
  <2> HIDE DEF segments
  <2>2. segments[g].fallback = 0 /\ segments[g].count <= Cohort(cases, base, personal, enough).personalized
    BY <2>1, SegmentsAreEnough
  <2> QED
    BY <2>2 DEF segments
<1>4. \A i \in 1 .. 2 : MetricsAddUp(r.downstream[i])
  <2>1. MetricsAddUp(Downstream(RidesOf(cases), base, step))
    BY DownstreamAddsUp
  <2>2. MetricsAddUp(Downstream(RidesOf(cases), Fallback(base, personal, enough), step))
    BY DownstreamAddsUp
  <2> QED
    BY <2>1, <2>2
<1>5. \A figure \in {"count", "fallback", "personalized"} : AddsUp(r.overall, r.depths, LAMBDA x : x[figure])
  BY <1>2 DEF AddsUp
<1>6. \A i \in DOMAIN Levels : AddsUp(r.overall, r.depths, LAMBDA x : x.personal.covered[i])
  BY <1>2 DEF AddsUp
<1> QED
  BY <1>1, <1>3, <1>4, <1>5, <1>6 DEF PersonalizationAddsUp
-----------------------------------------------------------------------------
(* What is held out of what was swept *)

\* A history counts the rides it was made of.
LEMMA HistoryIsCounted ==
    ASSUME NEW S, AreSwept(S), NEW ride
    PROVE  HistoryIn(S, ride).count \in Nat
<1> DEFINE H == EarlierRides(S, ride)
           s == Sorted(H, ByEnd)
<1>1. H \in SUBSET S /\ AreSwept(H)
  BY SweptSubset DEF EarlierRides
<1> HIDE DEF H
<1>2. PICK n \in Nat : Lists(s, n, EndOrder(H), H)
  BY <1>1, SortedLists
<1>3. DOMAIN s = 1 .. n
  BY <1>2 DEF Lists
<1> HIDE DEF s
<1> DEFINE t == Ratios(s)
<1>4. Len(t) = n
  BY <1>3 DEF Ratios
<1>5. HistoryIn(S, ride).count = Len(t)
  BY DEF HistoryIn, Features, s, H
<1> QED
  BY <1>4, <1>5

\* What is held out of cases in order of time: there is some of it, and every
\* ride of it has its fare and the history looked up for it.
LEMMA TestIsBuilt ==
    ASSUME NEW S, AreSwept(S), NEW built \in Seq(Cases(S)), CanSplit(built)
    PROVE  \E n \in Nat \ {0} :
            /\ DOMAIN Split(built).test = 1 .. n /\ Len(Split(built).test) = n
            /\ \A j \in 1 .. n : /\ IsJoinedRide(Split(built).test[j].ride)
                                 /\ Split(built).test[j].history.count \in Nat
<1> DEFINE test == Split(built).test
<1>1. PICK n \in Nat \ {0} : /\ DOMAIN test = 1 .. n /\ Len(test) = n
                             /\ \A j \in 1 .. n : test[j] \in Cases(S)
  <2> DEFINE R == Cases(S)
             share == Shares(Len(built))
             a == share.train + share.validation + 1
             n == Len(built)
  <2>1. n \in Nat /\ n >= 3 /\ DOMAIN built = 1 .. n
    BY DEF CanSplit
  <2>2. share.train \in Nat /\ share.validation \in Nat /\ share.train + share.validation < n
    BY <2>1, SharesFit
  <2>3. test = SubSeq(built, a, n)
    BY DEF Split
  <2>4. a \in Nat /\ a >= 1 /\ a <= n
    BY <2>1, <2>2
  <2> HIDE DEF a, n, R, test, share
  <2>5. DOMAIN test = 1 .. n - a + 1 /\ Len(test) = n - a + 1
    BY <2>1, <2>3, <2>4
  <2>6. \A i \in 1 .. n - a + 1 : test[i] = built[a + i - 1] /\ a + i - 1 \in 1 .. n
    BY <2>1, <2>3, <2>4
  <2>7. \A i \in 1 .. n : built[i] \in R
    BY <2>1 DEF R
  <2>8. n - a + 1 \in Nat \ {0}
    BY <2>1, <2>4
  <2> QED
    BY <2>5, <2>6, <2>7, <2>8 DEF R
<1>2. ASSUME NEW j \in 1 .. n PROVE IsJoinedRide(test[j].ride) /\ test[j].history.count \in Nat
  <2>1. PICK r \in S : test[j] = [ride |-> r, history |-> HistoryIn(S, r)]
    BY <1>1 DEF Cases
  <2>2. IsJoinedRide(r)
    BY DEF AreSwept, IsSwept, IsJoinedRide
  <2> QED
    BY <2>1, <2>2, HistoryIsCounted
<1> QED
  BY <1>1, <1>2

-----------------------------------------------------------------------------
(* Rides under way: a trip's contexts and sessions, update by update       *)

IsList(s) == s \in Seq(Range(s))

LEMMA ListFacts ==
    ASSUME NEW s, IsList(s)
    PROVE  DOMAIN s = 1 .. Len(s) /\ Len(s) \in Nat
BY DEF IsList

LEMMA AppendFacts ==
    ASSUME NEW s, IsList(s), NEW e
    PROVE  /\ IsList(Append(s, e)) /\ Len(Append(s, e)) = Len(s) + 1
           /\ Append(s, e)[Len(s) + 1] = e
           /\ \A i \in 1 .. Len(s) : Append(s, e)[i] = s[i]
<1> DEFINE t == Append(s, e)
           S == Range(s) \cup {e}
<1>1. s \in Seq(S) /\ e \in S
  BY DEF IsList
<1> HIDE DEF S
<1>2. /\ t \in Seq(S) /\ Len(t) = Len(s) + 1
      /\ t[Len(s) + 1] = e /\ \A i \in 1 .. Len(s) : t[i] = s[i]
  BY <1>1
<1> HIDE DEF t
<1>3. \A i \in 1 .. Len(t) : t[i] \in Range(t)
  BY <1>2 DEF Range
<1>4. t \in Seq(Range(t))
  BY <1>2, <1>3
<1> QED
  BY <1>2, <1>4 DEF t, IsList

LEMMA EmptyList == IsList(<<>>) /\ Len(<<>>) = 0
BY DEF IsList

\* A ride goes from one session to the next.
RidesAlong(f, trip, targets, confirming, n) ==
    f = [i \in 0 .. n |->
            IF i = 0 THEN SessionOf(trip, targets)
            ELSE Followed(f[i - 1], trip.updates[i], targets, confirming)]

LEMMA RideExists ==
    ASSUME NEW trip, NEW targets, NEW confirming, NEW n \in Nat
    PROVE  \E f : RidesAlong(f, trip, targets, confirming, n)
<1> DEFINE Done == {m \in Nat : \E f : RidesAlong(f, trip, targets, confirming, m)}
<1>1. 0 \in Done
  <2> DEFINE f == [i \in 0 .. 0 |-> SessionOf(trip, targets)]
  <2>1. f = [i \in 0 .. 0 |-> IF i = 0 THEN SessionOf(trip, targets)
                              ELSE Followed(f[i - 1], trip.updates[i], targets, confirming)]
    OBVIOUS
  <2> HIDE DEF f
  <2> QED
    BY <2>1 DEF RidesAlong
<1>2. ASSUME NEW m \in Nat, m \in Done PROVE m + 1 \in Done
  <2>1. PICK f : RidesAlong(f, trip, targets, confirming, m)
    BY <1>2
  <2> DEFINE g == [i \in 0 .. m + 1 |->
                    IF i = m + 1 THEN Followed(f[m], trip.updates[m + 1], targets, confirming) ELSE f[i]]
  <2>2. ASSUME NEW i \in 0 .. m + 1
        PROVE  g[i] = IF i = 0 THEN SessionOf(trip, targets)
                      ELSE Followed(g[i - 1], trip.updates[i], targets, confirming)
    <3>1. CASE i = m + 1
      <4>1. g[i] = Followed(f[m], trip.updates[m + 1], targets, confirming)
        BY <3>1
      <4>2. g[m] = f[m] /\ i - 1 = m /\ i # 0
        BY <3>1
      <4> HIDE DEF g
      <4> QED
        BY <3>1, <4>1, <4>2
    <3>2. CASE i \in 0 .. m
      <4>1. g[i] = f[i]
        BY <3>2
      <4>2. i # 0 => g[i - 1] = f[i - 1]
        BY <3>2
      <4>3. f[i] = IF i = 0 THEN SessionOf(trip, targets)
                   ELSE Followed(f[i - 1], trip.updates[i], targets, confirming)
        BY <2>1, <3>2 DEF RidesAlong
      <4> HIDE DEF g
      <4> QED
        BY <4>1, <4>2, <4>3
    <3> QED
      BY <3>1, <3>2
  <2>3. g = [i \in 0 .. m + 1 |-> g[i]]
    OBVIOUS
  <2> HIDE DEF g
  <2>4. RidesAlong(g, trip, targets, confirming, m + 1)
    BY <2>2, <2>3 DEF RidesAlong
  <2> QED
    BY <2>4
<1> HIDE DEF Done
<1>3. n \in Done
  BY <1>1, <1>2, Induction
<1> QED
  BY <1>3 DEF Done

LEMMA RideAlong ==
    ASSUME NEW trip, NEW targets, NEW confirming, NEW n \in Nat, Len(trip.updates) = n
    PROVE  \E f : RidesAlong(f, trip, targets, confirming, n) /\ Ridden(trip, targets, confirming) = f[n]
<1> DEFINE f == CHOOSE g : RidesAlong(g, trip, targets, confirming, n)
<1>1. RidesAlong(f, trip, targets, confirming, n)
  BY RideExists
<1>2. Ridden(trip, targets, confirming) = f[n]
  BY DEF Ridden, RidesAlong
<1> QED
  BY <1>1, <1>2

\* A course goes from one context to the next.
RunsAlong(f, trip, n) ==
    f = [i \in 0 .. n |->
            IF i = 0 THEN StartOf(trip.transaction)
            ELSE IF Repeats(trip, i) THEN f[i - 1]
            ELSE RevisedBy(f[i - 1], trip.updates[i])]

LEMMA CourseExists ==
    ASSUME NEW trip, NEW n \in Nat
    PROVE  \E f : RunsAlong(f, trip, n)
<1> DEFINE Done == {m \in Nat : \E f : RunsAlong(f, trip, m)}
           Next(f, i) == IF Repeats(trip, i) THEN f[i - 1] ELSE RevisedBy(f[i - 1], trip.updates[i])
<1>1. 0 \in Done
  <2> DEFINE f == [i \in 0 .. 0 |-> StartOf(trip.transaction)]
  <2>1. f = [i \in 0 .. 0 |-> IF i = 0 THEN StartOf(trip.transaction) ELSE Next(f, i)]
    OBVIOUS
  <2> HIDE DEF f
  <2> QED
    BY <2>1 DEF RunsAlong
<1>2. ASSUME NEW m \in Nat, m \in Done PROVE m + 1 \in Done
  <2>1. PICK f : RunsAlong(f, trip, m)
    BY <1>2
  <2> DEFINE g == [i \in 0 .. m + 1 |-> IF i = m + 1 THEN Next(f, i) ELSE f[i]]
  <2>2. ASSUME NEW i \in 0 .. m + 1
        PROVE  g[i] = IF i = 0 THEN StartOf(trip.transaction) ELSE Next(g, i)
    <3>1. i # 0 => g[i - 1] = f[i - 1]
      OBVIOUS
    <3>2. i # 0 => Next(g, i) = Next(f, i)
      <4> HIDE DEF g
      <4> QED
        BY <3>1
    <3>3. g[i] = IF i = m + 1 THEN Next(f, i) ELSE f[i]
      OBVIOUS
    <3>4. i # m + 1 => f[i] = IF i = 0 THEN StartOf(trip.transaction) ELSE Next(f, i)
      BY <2>1 DEF RunsAlong
    <3> HIDE DEF g, Next
    <3> QED
      BY <3>2, <3>3, <3>4
  <2>3. g = [i \in 0 .. m + 1 |-> g[i]]
    OBVIOUS
  <2> HIDE DEF g
  <2>4. RunsAlong(g, trip, m + 1)
    BY <2>2, <2>3 DEF RunsAlong
  <2> QED
    BY <2>4
<1> HIDE DEF Done
<1>3. n \in Done
  BY <1>1, <1>2, Induction
<1> QED
  BY <1>3 DEF Done

LEMMA CourseRuns ==
    ASSUME NEW trip, NEW n \in Nat, Len(trip.updates) = n
    PROVE  RunsAlong(Course(trip), trip, n)
<1> DEFINE f == CHOOSE g : RunsAlong(g, trip, n)
<1>1. RunsAlong(f, trip, n)
  BY CourseExists
<1>2. Course(trip) = f
  BY DEF Course, RunsAlong
<1> QED
  BY <1>1, <1>2

-----------------------------------------------------------------------------
(* What an update does to a session.                                       *)

SessionFields ==
    {"context", "initial", "block", "last", "processed", "confirmed", "additions", "updates", "stopped"}

\* What a followed update does to a session that goes on: it counts the update
\* and what it asked for, and confirms that if it is to.
FollowsOn(s, t, decision, confirming) ==
    /\ DOMAIN t = SessionFields
    /\ t.initial = s.initial /\ t.updates = s.updates + 1
    /\ t.additions = Append(s.additions, decision.additional)
    /\ IF confirming /\ decision.additional > 0
       THEN /\ \A c \in s.confirmed : c.event = decision.event => c.total = s.block + decision.additional
            /\ t.block = s.block + decision.additional
            /\ t.confirmed = s.confirmed \cup {[event |-> decision.event, total |-> s.block + decision.additional]}
       ELSE t.block = s.block /\ t.confirmed = s.confirmed

CountedFrom(s, decision) == [s EXCEPT !.updates = @ + 1, !.additions = Append(@, decision.additional)]
ConfirmedFrom(s, decision, confirming) ==
    IF confirming /\ decision.additional > 0
    THEN Confirmed(CountedFrom(s, decision), decision) ELSE CountedFrom(s, decision)

LEMMA CountedGoesOn ==
    ASSUME NEW s, DOMAIN s = SessionFields, s.stopped = "no", NEW decision, NEW confirming,
           NEW t, t = ConfirmedFrom(s, decision, confirming), t.stopped = "no"
    PROVE  FollowsOn(s, t, decision, confirming) /\ t.context = s.context /\ t.processed = s.processed
<1> DEFINE counted == CountedFrom(s, decision)
<1>0. t = IF confirming /\ decision.additional > 0 THEN Confirmed(counted, decision) ELSE counted
  BY DEF ConfirmedFrom
<1>1. /\ DOMAIN counted = SessionFields
      /\ counted.context = s.context /\ counted.processed = s.processed
      /\ counted.initial = s.initial /\ counted.block = s.block /\ counted.confirmed = s.confirmed
      /\ counted.updates = s.updates + 1 /\ counted.additions = Append(s.additions, decision.additional)
  BY DEF SessionFields, CountedFrom
<1> HIDE DEF counted
<1>2. CASE confirming /\ decision.additional > 0
  <2>1. t = Confirmed(counted, decision)
    BY <1>0, <1>2
  <2>2. CASE \E c \in counted.confirmed : c.event = decision.event /\ c.total # counted.block + decision.additional
    <3>1. t = [counted EXCEPT !.stopped = "confirmation_conflict"]
      BY <2>1, <2>2 DEF Confirmed
    <3>2. t.stopped = "confirmation_conflict"
      BY <1>1, <3>1 DEF SessionFields
    <3> QED
      BY <3>2
  <2>3. CASE ~(\E c \in counted.confirmed : c.event = decision.event /\ c.total # counted.block + decision.additional)
    <3> DEFINE more == counted.confirmed \cup {[event |-> decision.event, total |-> counted.block + decision.additional]}
    <3>1. t = [counted EXCEPT !.block = counted.block + decision.additional, !.confirmed = more]
      BY <2>1, <2>3 DEF Confirmed
    <3>2. more = s.confirmed \cup {[event |-> decision.event, total |-> s.block + decision.additional]}
      BY <1>1
    <3> HIDE DEF more
    <3>3. /\ DOMAIN t = SessionFields
          /\ t.context = s.context /\ t.processed = s.processed /\ t.initial = s.initial
          /\ t.updates = s.updates + 1 /\ t.additions = Append(s.additions, decision.additional)
          /\ t.block = s.block + decision.additional /\ t.confirmed = more
      BY <1>1, <3>1 DEF SessionFields
    <3> QED
      BY <1>1, <1>2, <2>3, <3>2, <3>3 DEF FollowsOn
  <2> QED
    BY <2>2, <2>3
<1>3. CASE ~(confirming /\ decision.additional > 0)
  <2>1. t = counted
    BY <1>0, <1>3
  <2> QED
    BY <1>1, <1>3, <2>1 DEF FollowsOn
<1> QED
  BY <1>2, <1>3

\* The decision on an update that is applied.
DecisionOn(s, update, targets) ==
    LET target == targets[RevisedBy(s.context, update)]
    IN  [event |-> update["event_id"], previous |-> s.block, target |-> target,
         additional |-> Max({target - s.block, 0})]

\* An update that is answered was not seen before, or was exactly so before.
LEMMA AnsweredUpdates ==
    ASSUME NEW s, NEW update
    PROVE  /\ Reply(s, update) = "applied" => Earlier(s, update) = {}
           /\ Reply(s, update) = "replayed" => \E i \in Earlier(s, update) : s.processed[i].update = update
BY DEF Reply

LEMMA ReplayedUpdates ==
    ASSUME NEW s, DOMAIN s = SessionFields, s.stopped = "no", NEW update, NEW targets, NEW confirming,
           NEW t, t = Followed(s, update, targets, confirming), t.stopped = "no",
           Reply(s, update) = "replayed"
    PROVE  /\ t.context = s.context /\ t.processed = s.processed
           /\ \E i \in Earlier(s, update) : FollowsOn(s, t, s.processed[i].decision, confirming)
<1> DEFINE i == CHOOSE j \in Earlier(s, update) : TRUE
           decision == s.processed[i].decision
<1>1. i \in Earlier(s, update)
  BY AnsweredUpdates
<1>2. t = ConfirmedFrom(s, decision, confirming)
  BY DEF Followed, ConfirmedFrom, CountedFrom
<1> HIDE DEF decision
<1>4. FollowsOn(s, t, decision, confirming) /\ t.context = s.context /\ t.processed = s.processed
  BY <1>2, CountedGoesOn
<1> QED
  BY <1>1, <1>4 DEF decision

LEMMA AppliedUpdates ==
    ASSUME NEW s, DOMAIN s = SessionFields, s.stopped = "no", NEW update, NEW targets, NEW confirming,
           NEW t, t = Followed(s, update, targets, confirming), t.stopped = "no",
           Reply(s, update) = "applied", IsList(s.processed)
    PROVE  /\ IsBlock(targets[RevisedBy(s.context, update)])
           /\ t.context = RevisedBy(s.context, update)
           /\ t.processed = Append(s.processed, [update |-> update, decision |-> DecisionOn(s, update, targets)])
           /\ FollowsOn(s, t, DecisionOn(s, update, targets), confirming)
<1> DEFINE revised == RevisedBy(s.context, update)
           d == DecisionOn(s, update, targets)
           entry == [update |-> update, decision |-> d]
           longer == Append(s.processed, entry)
           next == Applied(s, update, targets)
           decision == next.processed[CHOOSE i \in Earlier(next, update) : TRUE].decision
<1>1. t = IF next.stopped # "no" THEN next ELSE ConfirmedFrom(next, decision, confirming)
  BY DEF Followed, ConfirmedFrom, CountedFrom
<1>2. next.stopped = "no"
  <2> HIDE DEF next, decision
  <2> QED
    BY <1>1
<1>3. IsBlock(targets[revised])
  <2> SUFFICES ASSUME ~IsBlock(targets[revised]) PROVE FALSE
    OBVIOUS
  <2>1. next = [s EXCEPT !.stopped = "no block"]
    BY DEF Applied
  <2>2. next.stopped = "no block"
    BY <2>1 DEF SessionFields
  <2> QED
    BY <1>2, <2>2
<1>4. next = [s EXCEPT !.context = revised, !.last = update["observed_at"].number, !.processed = longer]
  BY <1>3 DEF Applied, DecisionOn
<1> HIDE DEF longer, revised
<1>5. /\ DOMAIN next = SessionFields /\ next.context = revised /\ next.processed = longer
      /\ next.initial = s.initial /\ next.block = s.block /\ next.confirmed = s.confirmed
      /\ next.updates = s.updates /\ next.additions = s.additions /\ next.stopped = "no"
  <2> HIDE DEF d
  <2> QED
    BY <1>2, <1>4 DEF SessionFields
<1> HIDE DEF next, entry
<1>6. /\ Len(longer) = Len(s.processed) + 1 /\ Len(s.processed) \in Nat
      /\ DOMAIN longer = 1 .. Len(s.processed) + 1 /\ DOMAIN s.processed = 1 .. Len(s.processed)
      /\ longer[Len(s.processed) + 1] = entry /\ \A i \in 1 .. Len(s.processed) : longer[i] = s.processed[i]
  BY AppendFacts, ListFacts DEF longer
<1>7. entry.update = update /\ entry.decision = d
  BY DEF entry
<1>8. Earlier(s, update) = {}
  BY AnsweredUpdates
<1>9. Earlier(next, update) = {Len(s.processed) + 1}
  <2> DEFINE k == Len(s.processed)
             E == {i \in 1 .. k + 1 : longer[i].update["event_id"] = update["event_id"]}
  <2>1. Earlier(next, update) = E
    BY <1>5, <1>6 DEF Earlier
  <2>2. ASSUME NEW i \in 1 .. k PROVE longer[i].update["event_id"] # update["event_id"]
    BY <1>6, <1>8 DEF Earlier
  <2>3. longer[k + 1].update["event_id"] = update["event_id"]
    BY <1>6, <1>7
  <2> QED
    BY <1>6, <2>1, <2>2, <2>3
<1>10. decision = d
  <2>1. (CHOOSE i \in Earlier(next, update) : TRUE) = Len(s.processed) + 1
    BY <1>9
  <2> QED
    BY <1>5, <1>6, <1>7, <2>1
<1>12. t = ConfirmedFrom(next, d, confirming)
  BY <1>1, <1>2, <1>10
<1> HIDE DEF decision, d
<1>13. FollowsOn(next, t, d, confirming) /\ t.context = next.context /\ t.processed = next.processed
  BY <1>5, <1>12, CountedGoesOn
<1>14. FollowsOn(s, t, d, confirming)
  BY <1>5, <1>13 DEF FollowsOn
<1> QED
  BY <1>3, <1>5, <1>13, <1>14 DEF revised, longer, entry, d

-----------------------------------------------------------------------------
(* What is true of a session that was not stopped.                         *)

\* What is true of a session that followed the first i updates of a trip and
\* was not stopped.
DecisionsHold(s) ==
    /\ IsList(s.processed)
    /\ \A a \in DOMAIN s.processed :
        LET d == s.processed[a].decision IN
        /\ d.event = s.processed[a].update["event_id"]
        /\ d.target \in Nat \ {0} /\ d.additional \in Nat

EventsHold(s, trip, i) ==
    /\ \A a \in DOMAIN s.processed : \E j \in 1 .. i :
        trip.updates[j]["event_id"] = s.processed[a].update["event_id"]
    /\ \A j \in 1 .. i : \E a \in DOMAIN s.processed :
        trip.updates[j]["event_id"] = s.processed[a].update["event_id"]

ConfirmationsHold(s, confirming) ==
    confirming => \A a \in DOMAIN s.processed :
        LET d == s.processed[a].decision IN
        d.additional > 0 => \E c \in s.confirmed : c.event = d.event /\ c.total \in Nat /\ c.total <= s.block

BlockHolds(s, confirming) ==
    /\ s.initial \in Nat \ {0} /\ s.block \in Nat /\ s.initial <= s.block
    /\ IF confirming
       THEN /\ \A a \in DOMAIN s.processed : s.processed[a].decision.target <= s.block
            /\ s.block = s.initial \/ \E a \in DOMAIN s.processed : s.processed[a].decision.target = s.block
       ELSE s.block = s.initial

AdditionsHold(s) ==
    /\ IsList(s.additions) /\ Len(s.additions) = s.updates
    /\ Len(s.processed) <= s.updates
    /\ \A j \in DOMAIN s.additions : s.additions[j] \in Nat
    /\ s.initial < s.block => \E j \in DOMAIN s.additions : s.additions[j] > 0

AdditionalOf(processed) == [a \in DOMAIN processed |-> processed[a].decision.additional]

SumHolds(s) == SumOver(AdditionalOf(s.processed), DOMAIN s.processed) >= s.block - s.initial

SessionHolds(s, trip, i, confirming) ==
    /\ DOMAIN s = SessionFields /\ s.context = Course(trip)[i]
    /\ DecisionsHold(s) /\ EventsHold(s, trip, i) /\ ConfirmationsHold(s, confirming)
    /\ BlockHolds(s, confirming) /\ AdditionsHold(s) /\ SumHolds(s)

\* An update seen before asks for nothing that was not confirmed.
LEMMA ReplayChangesNothing ==
    ASSUME NEW s, NEW t, NEW confirming, NEW a \in DOMAIN s.processed,
           FollowsOn(s, t, s.processed[a].decision, confirming),
           DecisionsHold(s), ConfirmationsHold(s, confirming), s.block \in Nat
    PROVE  t.block = s.block /\ t.confirmed = s.confirmed
<1> DEFINE d == s.processed[a].decision
<1>1. d.additional \in Nat
  BY DEF DecisionsHold
<1>2. CASE confirming /\ d.additional > 0
  <2>1. PICK c \in s.confirmed : c.event = d.event /\ c.total \in Nat /\ c.total <= s.block
    BY <1>2 DEF ConfirmationsHold
  <2> HIDE DEF d
  <2>2. c.total = s.block + d.additional
    BY <1>2, <2>1 DEF FollowsOn, d
  <2> QED
    BY <1>1, <1>2, <2>1, <2>2
<1>3. CASE ~(confirming /\ d.additional > 0)
  BY <1>3 DEF FollowsOn
<1> QED
  BY <1>2, <1>3

LEMMA ReplayKeeps ==
    ASSUME NEW trip, NEW i \in Nat, NEW s, NEW confirming, SessionHolds(s, trip, i, confirming),
           NEW t, NEW a \in DOMAIN s.processed, FollowsOn(s, t, s.processed[a].decision, confirming),
           t.context = s.context, t.processed = s.processed,
           s.processed[a].update["event_id"] = trip.updates[i + 1]["event_id"],
           s.context = Course(trip)[i + 1]
    PROVE  SessionHolds(t, trip, i + 1, confirming)
<1>0. /\ DecisionsHold(s) /\ EventsHold(s, trip, i) /\ ConfirmationsHold(s, confirming)
      /\ BlockHolds(s, confirming) /\ AdditionsHold(s) /\ SumHolds(s)
  BY DEF SessionHolds
<1>1. t.block = s.block /\ t.confirmed = s.confirmed
  BY <1>0, ReplayChangesNothing DEF BlockHolds
<1> DEFINE more == s.processed[a].decision.additional
<1>2. /\ DOMAIN t = SessionFields /\ t.initial = s.initial /\ t.updates = s.updates + 1
      /\ t.additions = Append(s.additions, more)
  BY DEF FollowsOn
<1>3. more \in Nat
  BY <1>0 DEF DecisionsHold
<1> HIDE DEF more
<1>4. DecisionsHold(t)
  BY <1>0 DEF DecisionsHold
<1>5. EventsHold(t, trip, i + 1)
  <2>1. \A j \in 1 .. i + 1 : j \in 1 .. i \/ j = i + 1
    OBVIOUS
  <2>2. \A j \in 1 .. i : j \in 1 .. i + 1
    OBVIOUS
  <2> QED
    BY <1>0, <2>1, <2>2 DEF EventsHold
<1>6. ConfirmationsHold(t, confirming)
  BY <1>0, <1>1 DEF ConfirmationsHold
<1>7. BlockHolds(t, confirming)
  BY <1>0, <1>1, <1>2 DEF BlockHolds
<1>8. AdditionsHold(t)
  <2>1. /\ IsList(s.additions) /\ Len(s.additions) = s.updates
        /\ Len(s.processed) <= s.updates
        /\ \A j \in DOMAIN s.additions : s.additions[j] \in Nat
        /\ s.initial < s.block => \E j \in DOMAIN s.additions : s.additions[j] > 0
    BY <1>0 DEF AdditionsHold
  <2>2. DOMAIN s.additions = 1 .. s.updates /\ s.updates \in Nat
    BY <2>1, ListFacts
  <2>3. /\ IsList(t.additions) /\ Len(t.additions) = s.updates + 1 /\ t.additions[s.updates + 1] = more
        /\ \A j \in 1 .. s.updates : t.additions[j] = s.additions[j]
    BY <1>2, <2>1, AppendFacts
  <2>4. DOMAIN t.additions = 1 .. s.updates + 1
    BY <2>3, ListFacts
  <2>5. Len(s.processed) \in Nat
    <3>1. s.processed \in Seq(Range(s.processed))
      BY <1>0 DEF DecisionsHold, IsList
    <3> QED
      BY <3>1
  <2>6. \A j \in DOMAIN t.additions : t.additions[j] \in Nat
    <3> SUFFICES ASSUME NEW j \in DOMAIN t.additions PROVE t.additions[j] \in Nat
      OBVIOUS
    <3>1. j \in 1 .. s.updates \/ j = s.updates + 1
      BY <2>2, <2>4
    <3>2. CASE j \in 1 .. s.updates
      <4>1. s.additions[j] \in Nat
        BY <2>1, <2>2, <3>2
      <4> QED
        BY <2>3, <3>2, <4>1
    <3>3. CASE j = s.updates + 1
      BY <1>3, <2>3, <3>3
    <3> QED
      BY <3>1, <3>2, <3>3
  <2>7. s.initial < s.block => \E j \in DOMAIN t.additions : t.additions[j] > 0
    BY <2>1, <2>2, <2>3, <2>4
  <2> QED
    BY <1>1, <1>2, <2>1, <2>2, <2>3, <2>5, <2>6, <2>7 DEF AdditionsHold
<1>9. SumHolds(t)
  BY <1>0, <1>1, <1>2 DEF SumHolds
<1> QED
  BY <1>2, <1>4, <1>5, <1>6, <1>7, <1>8, <1>9 DEF SessionHolds

\* What an applied update adds.
LEMMA RaiseFacts ==
    ASSUME NEW block \in Nat, NEW target \in Nat
    PROVE  Max({target - block, 0}) = IF target > block THEN target - block ELSE 0
<1>1. PICK x \in Int : x = target - block
  OBVIOUS
<1>2. Max({x, 0}) \in {x, 0} /\ Max({x, 0}) >= x /\ Max({x, 0}) >= 0
  BY TwoAreFinite
<1>3. Max({x, 0}) = IF x > 0 THEN x ELSE 0
  BY <1>2
<1> QED
  BY <1>1, <1>3

LEMMA AppliedRaises ==
    ASSUME NEW s, NEW t, NEW confirming, NEW d,
           FollowsOn(s, t, d, confirming), s.block \in Nat, d.target \in Nat,
           d.additional = Max({d.target - s.block, 0})
    PROVE  /\ d.additional \in Nat
           /\ d.additional = IF d.target > s.block THEN d.target - s.block ELSE 0
           /\ t.block = IF confirming /\ d.target > s.block THEN d.target ELSE s.block
           /\ t.block \in Nat
           /\ s.confirmed \subseteq t.confirmed
           /\ confirming /\ d.additional > 0 => \E c \in t.confirmed : c.event = d.event /\ c.total = t.block
<1>1. d.additional = IF d.target > s.block THEN d.target - s.block ELSE 0
  BY RaiseFacts
<1>2. CASE confirming /\ d.additional > 0
  <2>1. t.block = s.block + d.additional
        /\ t.confirmed = s.confirmed \cup {[event |-> d.event, total |-> s.block + d.additional]}
    BY <1>2 DEF FollowsOn
  <2>2. \E c \in t.confirmed : c.event = d.event /\ c.total = t.block
    <3> DEFINE c == [event |-> d.event, total |-> s.block + d.additional]
    <3>1. c \in t.confirmed /\ c.event = d.event /\ c.total = t.block
      BY <2>1
    <3> QED
      BY <3>1
  <2> QED
    BY <1>1, <1>2, <2>1, <2>2
<1>3. CASE ~(confirming /\ d.additional > 0)
  <2>1. t.block = s.block /\ t.confirmed = s.confirmed
    BY <1>3 DEF FollowsOn
  <2>2. confirming => ~(d.target > s.block)
    BY <1>1, <1>3
  <2> QED
    BY <1>1, <1>3, <2>1, <2>2
<1> QED
  BY <1>2, <1>3

\* The entry that an applied update leaves.
Entered(s, t, update, d) ==
    /\ IsList(s.processed)
    /\ t.processed = Append(s.processed, [update |-> update, decision |-> d])

LEMMA EntryFacts ==
    ASSUME NEW s, NEW t, NEW update, NEW d, Entered(s, t, update, d)
    PROVE  /\ IsList(t.processed) /\ Len(s.processed) \in Nat /\ Len(t.processed) = Len(s.processed) + 1
           /\ DOMAIN s.processed = 1 .. Len(s.processed)
           /\ DOMAIN t.processed = 1 .. Len(s.processed) + 1
           /\ \A a \in DOMAIN s.processed : a \in DOMAIN t.processed /\ t.processed[a] = s.processed[a]
           /\ Len(s.processed) + 1 \in DOMAIN t.processed
           /\ t.processed[Len(s.processed) + 1].update = update
           /\ t.processed[Len(s.processed) + 1].decision = d
           /\ \A a \in DOMAIN t.processed : a \in DOMAIN s.processed \/ a = Len(s.processed) + 1
<1> DEFINE e == [update |-> update, decision |-> d]
<1>1. PICK q : q = s.processed
  OBVIOUS
<1>2. PICK r : r = t.processed
  OBVIOUS
<1>3. IsList(q) /\ r = Append(q, e)
  BY <1>1, <1>2 DEF Entered
<1>4. e.update = update /\ e.decision = d
  OBVIOUS
<1> HIDE DEF e
<1>5. IsList(r) /\ Len(r) = Len(q) + 1 /\ r[Len(q) + 1] = e /\ \A a \in 1 .. Len(q) : r[a] = q[a]
  BY <1>3, AppendFacts
<1>6. DOMAIN q = 1 .. Len(q) /\ Len(q) \in Nat /\ DOMAIN r = 1 .. Len(q) + 1
  BY <1>3, <1>5, ListFacts
<1>7. /\ \A a \in DOMAIN q : a \in DOMAIN r /\ r[a] = q[a]
      /\ Len(q) + 1 \in DOMAIN r /\ r[Len(q) + 1].update = update /\ r[Len(q) + 1].decision = d
      /\ \A a \in DOMAIN r : a \in DOMAIN q \/ a = Len(q) + 1
  BY <1>4, <1>5, <1>6
<1> QED
  BY <1>1, <1>2, <1>5, <1>6, <1>7

\* The decisions, the events and what was confirmed, with one more decision.
LEMMA AppliedDecisions ==
    ASSUME NEW trip, NEW i \in Nat, NEW s, NEW t, NEW confirming, NEW update, NEW d,
           Entered(s, t, update, d), FollowsOn(s, t, d, confirming),
           d.event = update["event_id"], d.target \in Nat \ {0}, d.additional = Max({d.target - s.block, 0}),
           update["event_id"] = trip.updates[i + 1]["event_id"],
           DecisionsHold(s), EventsHold(s, trip, i), ConfirmationsHold(s, confirming),
           BlockHolds(s, confirming)
    PROVE  DecisionsHold(t) /\ EventsHold(t, trip, i + 1) /\ ConfirmationsHold(t, confirming)
<1>1. PICK m : m = Len(s.processed)
  OBVIOUS
<1>2. /\ IsList(t.processed)
      /\ \A a \in DOMAIN s.processed : a \in DOMAIN t.processed /\ t.processed[a] = s.processed[a]
      /\ m + 1 \in DOMAIN t.processed /\ t.processed[m + 1].update = update /\ t.processed[m + 1].decision = d
      /\ \A a \in DOMAIN t.processed : a \in DOMAIN s.processed \/ a = m + 1
  BY <1>1, EntryFacts
<1>3. s.block \in Nat /\ d.target \in Nat
  BY DEF BlockHolds
<1>4. /\ d.additional \in Nat /\ t.block \in Nat /\ s.block <= t.block
      /\ s.confirmed \subseteq t.confirmed
      /\ confirming /\ d.additional > 0 => \E c \in t.confirmed : c.event = d.event /\ c.total = t.block
  BY <1>3, AppliedRaises
<1>5. DecisionsHold(t)
  <2> SUFFICES ASSUME NEW a \in DOMAIN t.processed
               PROVE  LET e == t.processed[a].decision IN
                      /\ e.event = t.processed[a].update["event_id"]
                      /\ e.target \in Nat \ {0} /\ e.additional \in Nat
    BY <1>2 DEF DecisionsHold
  <2>1. CASE a \in DOMAIN s.processed
    BY <1>2, <2>1 DEF DecisionsHold
  <2>2. CASE a = m + 1
    BY <1>2, <1>4, <2>2
  <2> QED
    BY <1>2, <2>1, <2>2
<1>6. EventsHold(t, trip, i + 1)
  <2>1. \A j \in 1 .. i : j \in 1 .. i + 1
    OBVIOUS
  <2>2. i + 1 \in 1 .. i + 1 /\ \A j \in 1 .. i + 1 : j \in 1 .. i \/ j = i + 1
    OBVIOUS
  <2>3. ASSUME NEW a \in DOMAIN t.processed
        PROVE  \E j \in 1 .. i + 1 : trip.updates[j]["event_id"] = t.processed[a].update["event_id"]
    <3>1. CASE a \in DOMAIN s.processed
      <4>1. PICK j \in 1 .. i : trip.updates[j]["event_id"] = s.processed[a].update["event_id"]
        BY <3>1 DEF EventsHold
      <4> QED
        BY <1>2, <2>1, <3>1, <4>1
    <3>2. CASE a = m + 1
      <4>1. trip.updates[i + 1]["event_id"] = t.processed[a].update["event_id"]
        BY <1>2, <3>2
      <4> QED
        BY <2>2, <4>1
    <3> QED
      BY <1>2, <3>1, <3>2
  <2>4. ASSUME NEW j \in 1 .. i + 1
        PROVE  \E a \in DOMAIN t.processed : trip.updates[j]["event_id"] = t.processed[a].update["event_id"]
    <3>1. CASE j \in 1 .. i
      <4>1. PICK a \in DOMAIN s.processed : trip.updates[j]["event_id"] = s.processed[a].update["event_id"]
        BY <3>1 DEF EventsHold
      <4> QED
        BY <1>2, <4>1
    <3>2. CASE j = i + 1
      <4>1. trip.updates[j]["event_id"] = t.processed[m + 1].update["event_id"]
        BY <1>2, <3>2
      <4> QED
        BY <1>2, <4>1
    <3> QED
      BY <2>2, <3>1, <3>2
  <2> QED
    BY <2>3, <2>4 DEF EventsHold
<1>7. ConfirmationsHold(t, confirming)
  <2> SUFFICES ASSUME confirming, NEW a \in DOMAIN t.processed, t.processed[a].decision.additional > 0
               PROVE  \E c \in t.confirmed : /\ c.event = t.processed[a].decision.event
                                             /\ c.total \in Nat /\ c.total <= t.block
    BY DEF ConfirmationsHold
  <2>1. CASE a \in DOMAIN s.processed
    <3>1. s.processed[a].decision.additional > 0
      BY <1>2, <2>1
    <3>2. PICK c \in s.confirmed : c.event = s.processed[a].decision.event /\ c.total \in Nat /\ c.total <= s.block
      BY <2>1, <3>1 DEF ConfirmationsHold
    <3>3. c \in t.confirmed /\ c.total <= t.block
      BY <1>3, <1>4, <3>2
    <3> QED
      BY <1>2, <2>1, <3>2, <3>3
  <2>2. CASE a = m + 1
    <3>1. d.additional > 0
      BY <1>2, <2>2
    <3>2. PICK c \in t.confirmed : c.event = d.event /\ c.total = t.block
      BY <1>4, <3>1
    <3> QED
      BY <1>2, <1>4, <2>2, <3>2
  <2> QED
    BY <1>2, <2>1, <2>2
<1> QED
  BY <1>5, <1>6, <1>7

\* The block with one more decision.
LEMMA AppliedBlock ==
    ASSUME NEW s, NEW t, NEW confirming, NEW update, NEW d,
           Entered(s, t, update, d), FollowsOn(s, t, d, confirming),
           d.target \in Nat \ {0}, d.additional = Max({d.target - s.block, 0}), BlockHolds(s, confirming),
           DecisionsHold(s)
    PROVE  BlockHolds(t, confirming)
<1>1. PICK m : m = Len(s.processed)
  OBVIOUS
<1>2. /\ \A a \in DOMAIN s.processed : a \in DOMAIN t.processed /\ t.processed[a] = s.processed[a]
      /\ m + 1 \in DOMAIN t.processed /\ t.processed[m + 1].decision = d
      /\ \A a \in DOMAIN t.processed : a \in DOMAIN s.processed \/ a = m + 1
  BY <1>1, EntryFacts
<1>3. s.block \in Nat /\ d.target \in Nat /\ s.initial \in Nat \ {0} /\ s.initial <= s.block
  BY DEF BlockHolds
<1>4. t.block = (IF confirming /\ d.target > s.block THEN d.target ELSE s.block) /\ t.block \in Nat
  BY <1>3, AppliedRaises
<1>5. t.initial = s.initial
  BY DEF FollowsOn
<1>6. CASE confirming
  <2>1. /\ \A a \in DOMAIN s.processed : s.processed[a].decision.target <= s.block
        /\ s.block = s.initial \/ \E a \in DOMAIN s.processed : s.processed[a].decision.target = s.block
    BY <1>6 DEF BlockHolds
  <2>2. t.block = (IF d.target > s.block THEN d.target ELSE s.block)
    BY <1>4, <1>6
  <2>3. s.block <= t.block /\ d.target <= t.block
    BY <1>3, <2>2
  <2>4. ASSUME NEW a \in DOMAIN t.processed PROVE t.processed[a].decision.target <= t.block
    <3>1. CASE a \in DOMAIN s.processed
      <4>1. s.processed[a].decision.target <= s.block /\ s.processed[a].decision.target \in Nat
        BY <2>1, <3>1 DEF DecisionsHold
      <4> QED
        BY <1>2, <1>3, <1>4, <2>3, <3>1, <4>1
    <3>2. CASE a = m + 1
      BY <1>2, <2>3, <3>2
    <3> QED
      BY <1>2, <3>1, <3>2
  <2>5. t.block = t.initial \/ \E a \in DOMAIN t.processed : t.processed[a].decision.target = t.block
    <3>1. CASE d.target > s.block
      BY <1>2, <2>2, <3>1
    <3>2. CASE ~(d.target > s.block)
      <4>1. t.block = s.block
        BY <2>2, <3>2
      <4>2. CASE s.block = s.initial
        BY <1>5, <4>1, <4>2
      <4>3. CASE \E a \in DOMAIN s.processed : s.processed[a].decision.target = s.block
        BY <1>2, <4>1, <4>3
      <4> QED
        BY <2>1, <4>2, <4>3
    <3> QED
      BY <3>1, <3>2
  <2>6. s.initial <= t.block
    BY <1>3, <1>4, <2>3
  <2> QED
    BY <1>3, <1>4, <1>5, <1>6, <2>4, <2>5, <2>6 DEF BlockHolds
<1>7. CASE ~confirming
  <2>1. s.block = s.initial
    BY <1>7 DEF BlockHolds
  <2> QED
    BY <1>3, <1>4, <1>5, <1>7, <2>1 DEF BlockHolds
<1> QED
  BY <1>6, <1>7

\* What was asked for, with one more decision.
LEMMA AppliedAdditions ==
    ASSUME NEW s, NEW t, NEW confirming, NEW update, NEW d,
           Entered(s, t, update, d), FollowsOn(s, t, d, confirming),
           d.target \in Nat, d.additional = Max({d.target - s.block, 0}), BlockHolds(s, confirming),
           AdditionsHold(s)
    PROVE  AdditionsHold(t)
<1>1. /\ s.block \in Nat /\ s.initial \in Nat /\ s.initial <= s.block
      /\ confirming \/ s.block = s.initial
  BY DEF BlockHolds
<1>2. /\ d.additional \in Nat
      /\ d.additional = IF d.target > s.block THEN d.target - s.block ELSE 0
      /\ t.block = IF confirming /\ d.target > s.block THEN d.target ELSE s.block
  BY <1>1, AppliedRaises
<1>3. t.initial = s.initial /\ t.updates = s.updates + 1 /\ t.additions = Append(s.additions, d.additional)
  BY DEF FollowsOn
<1>4. PICK x : x = d.additional
  OBVIOUS
<1>5. PICK q : q = s.additions
  OBVIOUS
<1>6. PICK r : r = t.additions
  OBVIOUS
<1>7. /\ IsList(q) /\ Len(q) = s.updates /\ Len(s.processed) <= s.updates
      /\ \A j \in DOMAIN q : q[j] \in Nat
      /\ s.initial < s.block => \E j \in DOMAIN q : q[j] > 0
  BY <1>5 DEF AdditionsHold
<1>8. r = Append(q, x)
  BY <1>3, <1>4, <1>5, <1>6
<1>9. /\ IsList(r) /\ Len(r) = Len(q) + 1 /\ r[Len(q) + 1] = x
      /\ \A j \in 1 .. Len(q) : r[j] = q[j]
  BY <1>7, <1>8, AppendFacts
<1>10. DOMAIN q = 1 .. Len(q) /\ Len(q) \in Nat /\ DOMAIN r = 1 .. Len(q) + 1
  BY <1>7, <1>9, ListFacts
<1>11. ASSUME NEW j \in DOMAIN r PROVE r[j] \in Nat
  <2>1. CASE j \in 1 .. Len(q)
    <3>1. q[j] \in Nat
      BY <1>7, <1>10, <2>1
    <3> QED
      BY <1>9, <2>1, <3>1
  <2>2. CASE j = Len(q) + 1
    BY <1>2, <1>4, <1>9, <2>2
  <2> QED
    BY <1>10, <2>1, <2>2
<1>12. ASSUME t.initial < t.block PROVE \E j \in DOMAIN r : r[j] > 0
  <2>1. CASE s.initial < s.block
    <3>1. PICK j \in DOMAIN q : q[j] > 0
      BY <1>7, <2>1
    <3>2. j \in DOMAIN r /\ r[j] = q[j]
      BY <1>9, <1>10
    <3> QED
      BY <3>1, <3>2
  <2>2. CASE ~(s.initial < s.block)
    <3>1. x > 0
      BY <1>1, <1>2, <1>3, <1>4, <1>12, <2>2
    <3>2. Len(q) + 1 \in DOMAIN r
      BY <1>10
    <3> QED
      BY <1>9, <3>1, <3>2
  <2> QED
    BY <2>1, <2>2
<1>13. Len(s.processed) \in Nat /\ Len(t.processed) = Len(s.processed) + 1
  BY EntryFacts
<1>14. Len(r) = t.updates /\ Len(t.processed) <= t.updates
  BY <1>3, <1>7, <1>9, <1>10, <1>13
<1> QED
  BY <1>6, <1>9, <1>11, <1>12, <1>14 DEF AdditionsHold

LEMMA AppliedSum ==
    ASSUME NEW s, NEW t, NEW confirming, NEW update, NEW d,
           Entered(s, t, update, d), FollowsOn(s, t, d, confirming),
           d.target \in Nat, d.additional = Max({d.target - s.block, 0}), BlockHolds(s, confirming),
           DecisionsHold(s), SumHolds(s)
    PROVE  SumHolds(t)
<1>1. s.block \in Nat /\ s.initial \in Nat
  BY DEF BlockHolds
<1>2. /\ d.additional \in Nat
      /\ d.additional = IF d.target > s.block THEN d.target - s.block ELSE 0
      /\ t.block = IF confirming /\ d.target > s.block THEN d.target ELSE s.block
  BY <1>1, AppliedRaises
<1>3. t.initial = s.initial
  BY DEF FollowsOn
<1>4. PICK m : m = Len(s.processed)
  OBVIOUS
<1>5. /\ m \in Nat /\ DOMAIN s.processed = 1 .. m /\ DOMAIN t.processed = 1 .. m + 1
      /\ \A a \in 1 .. m : t.processed[a] = s.processed[a]
      /\ t.processed[m + 1].decision = d
  BY <1>4, EntryFacts
<1> DEFINE S == 1 .. m
           T == 1 .. m + 1
           v == AdditionalOf(s.processed)
           w == AdditionalOf(t.processed)
<1>6. /\ \A a \in S : v[a] \in Nat /\ w[a] = v[a]
      /\ w[m + 1] = d.additional
  <2>1. \A a \in S : v[a] = s.processed[a].decision.additional
    BY <1>5 DEF AdditionalOf
  <2>2. \A a \in T : w[a] = t.processed[a].decision.additional
    BY <1>5 DEF AdditionalOf
  <2>3. \A a \in S : s.processed[a].decision.additional \in Nat
    BY <1>5 DEF DecisionsHold
  <2>4. S \subseteq T /\ m + 1 \in T
    BY <1>5
  <2> HIDE DEF v, w, S, T
  <2>5. \A a \in S : w[a] = v[a]
    BY <1>5, <2>1, <2>2, <2>4 DEF S
  <2> QED
    BY <1>5, <2>1, <2>2, <2>3, <2>4, <2>5
<1>7. IsFiniteSet(S) /\ IsFiniteSet(T)
  BY <1>5, NumbersAreFinite
<1>8. m + 1 \in T /\ T \ {m + 1} = S /\ \A a \in T : a \in S \/ a = m + 1
  BY <1>5
<1> HIDE DEF S, T, v, w
<1>9. \A a \in T : w[a] \in Int
  BY <1>2, <1>6, <1>8
<1>10. SumOver(w, T) = w[m + 1] + SumOver(w, S)
  BY <1>7, <1>8, <1>9, SumWithout
<1>11. SumOver(w, S) = SumOver(v, S)
  BY <1>6, <1>7, SumSame
<1>12. SumOver(v, S) \in Int
  BY <1>6, <1>7, SumType
<1>13. SumOver(v, S) >= s.block - s.initial
  BY <1>5 DEF SumHolds, v, S
<1>14. SumOver(w, T) >= t.block - t.initial
  BY <1>1, <1>2, <1>3, <1>6, <1>10, <1>11, <1>12, <1>13
<1> QED
  BY <1>5, <1>14 DEF SumHolds, w, T

LEMMA AppliedKeeps ==
    ASSUME NEW trip, NEW i \in Nat, NEW s, NEW confirming, SessionHolds(s, trip, i, confirming),
           NEW t, NEW update, NEW d, Entered(s, t, update, d), FollowsOn(s, t, d, confirming),
           d.event = update["event_id"], d.target \in Nat \ {0}, d.additional = Max({d.target - s.block, 0}),
           update["event_id"] = trip.updates[i + 1]["event_id"],
           t.context = Course(trip)[i + 1]
    PROVE  SessionHolds(t, trip, i + 1, confirming)
<1>1. /\ DecisionsHold(s) /\ EventsHold(s, trip, i) /\ ConfirmationsHold(s, confirming)
      /\ BlockHolds(s, confirming) /\ AdditionsHold(s) /\ SumHolds(s)
  BY DEF SessionHolds
<1>2. DOMAIN t = SessionFields
  BY DEF FollowsOn
<1>3. DecisionsHold(t) /\ EventsHold(t, trip, i + 1) /\ ConfirmationsHold(t, confirming)
  BY <1>1, AppliedDecisions
<1>4. BlockHolds(t, confirming)
  BY <1>1, AppliedBlock
<1>5. AdditionsHold(t)
  BY <1>1, AppliedAdditions
<1>6. SumHolds(t)
  BY <1>1, AppliedSum
<1> QED
  BY <1>2, <1>3, <1>4, <1>5, <1>6 DEF SessionHolds

-----------------------------------------------------------------------------
(* A session holds as long as it goes on.                                  *)

\* Where a block is recommended for a context of the trip, it is an amount.
TargetsFit(targets, trip) ==
    \A i \in DOMAIN Course(trip) :
        IsBlock(targets[Course(trip)[i]]) => targets[Course(trip)[i]] \in Nat \ {0}

LEMMA CourseGoesOn ==
    ASSUME NEW trip, NEW n \in Nat, Len(trip.updates) = n
    PROVE  /\ DOMAIN Course(trip) = 0 .. n
           /\ Course(trip)[0] = StartOf(trip.transaction)
           /\ \A i \in 0 .. n - 1 :
                /\ Repeats(trip, i + 1) => Course(trip)[i + 1] = Course(trip)[i]
                /\ ~Repeats(trip, i + 1) =>
                    Course(trip)[i + 1] = RevisedBy(Course(trip)[i], trip.updates[i + 1])
<1>1. PICK c : c = Course(trip)
  OBVIOUS
<1>2. RunsAlong(c, trip, n)
  BY <1>1, CourseRuns
<1>3. c = [i \in 0 .. n |-> IF i = 0 THEN StartOf(trip.transaction)
                            ELSE IF Repeats(trip, i) THEN c[i - 1] ELSE RevisedBy(c[i - 1], trip.updates[i])]
  BY <1>2 DEF RunsAlong
<1>4. DOMAIN c = 0 .. n
  BY <1>3
<1>5. c[0] = StartOf(trip.transaction)
  <2>1. 0 \in 0 .. n
    OBVIOUS
  <2> QED
    BY <1>3, <2>1
<1>6. ASSUME NEW i \in 0 .. n - 1
      PROVE  c[i + 1] = IF Repeats(trip, i + 1) THEN c[i] ELSE RevisedBy(c[i], trip.updates[i + 1])
  <2>1. i + 1 \in 0 .. n /\ i + 1 # 0 /\ (i + 1) - 1 = i
    OBVIOUS
  <2>2. PICK k : k = i + 1
    OBVIOUS
  <2>3. c[k] = IF Repeats(trip, k) THEN c[k - 1] ELSE RevisedBy(c[k - 1], trip.updates[k])
    BY <1>3, <2>1, <2>2
  <2> QED
    BY <2>1, <2>2, <2>3
<1> QED
  BY <1>1, <1>4, <1>5, <1>6

\* The events that were processed are those of the updates so far.
LEMMA EventsRepeat ==
    ASSUME NEW trip, NEW i \in Nat, NEW s, EventsHold(s, trip, i)
    PROVE  Repeats(trip, i + 1) <=> Earlier(s, trip.updates[i + 1]) # {}
<1>1. (i + 1) - 1 = i
  OBVIOUS
<1>2. Repeats(trip, i + 1) <=> \E j \in 1 .. i : trip.updates[j]["event_id"] = trip.updates[i + 1]["event_id"]
  BY <1>1 DEF Repeats
<1>3. ASSUME NEW j \in 1 .. i, trip.updates[j]["event_id"] = trip.updates[i + 1]["event_id"]
      PROVE  Earlier(s, trip.updates[i + 1]) # {}
  <2>1. PICK a \in DOMAIN s.processed : trip.updates[j]["event_id"] = s.processed[a].update["event_id"]
    BY DEF EventsHold
  <2>2. a \in Earlier(s, trip.updates[i + 1])
    BY <1>3, <2>1 DEF Earlier
  <2> QED
    BY <2>2
<1>4. ASSUME NEW a \in Earlier(s, trip.updates[i + 1])
      PROVE  \E j \in 1 .. i : trip.updates[j]["event_id"] = trip.updates[i + 1]["event_id"]
  <2>1. a \in DOMAIN s.processed /\ s.processed[a].update["event_id"] = trip.updates[i + 1]["event_id"]
    BY DEF Earlier
  <2>2. PICK j \in 1 .. i : trip.updates[j]["event_id"] = s.processed[a].update["event_id"]
    BY <2>1 DEF EventsHold
  <2> QED
    BY <2>1, <2>2
<1> QED
  BY <1>2, <1>3, <1>4

LEMMA SessionStarts ==
    ASSUME NEW trip, NEW n \in Nat, Len(trip.updates) = n, NEW targets, TargetsFit(targets, trip),
           NEW confirming, NEW s, s = SessionOf(trip, targets), s.stopped = "no"
    PROVE  SessionHolds(s, trip, 0, confirming)
<1> DEFINE start == StartOf(trip.transaction)
           target == targets[start]
<1>1. Course(trip)[0] = start /\ 0 \in DOMAIN Course(trip)
  BY CourseGoesOn
<1>2. /\ DOMAIN s = SessionFields /\ s.context = start /\ s.initial = target /\ s.block = target
      /\ s.processed = <<>> /\ s.additions = <<>> /\ s.confirmed = {} /\ s.updates = 0
      /\ s.stopped = IF IsBlock(target) THEN "no" ELSE "no block"
  <2> HIDE DEF start, target
  <2> QED
    BY DEF SessionOf, SessionFields, start, target
<1> HIDE DEF start
<1>3. target \in Nat \ {0}
  <2>1. IsBlock(target)
    BY <1>2
  <2> QED
    BY <1>1, <2>1 DEF TargetsFit
<1>4. IsList(<<>>) /\ Len(<<>>) = 0 /\ DOMAIN <<>> = {}
  BY EmptyList
<1> HIDE DEF target
<1>11. /\ DOMAIN s.processed = {} /\ DOMAIN s.additions = {} /\ IsList(s.processed) /\ IsList(s.additions)
       /\ Len(s.processed) = 0 /\ Len(s.additions) = 0
  BY <1>2, <1>4
<1>12. s.initial \in Nat \ {0} /\ s.block = s.initial /\ s.updates = 0
  BY <1>2, <1>3
<1>5. DecisionsHold(s)
  BY <1>2, <1>4 DEF DecisionsHold
<1>6. EventsHold(s, trip, 0)
  <2>1. \A j \in 1 .. 0 : FALSE
    OBVIOUS
  <2> QED
    BY <1>2, <1>4, <2>1 DEF EventsHold
<1>7. ConfirmationsHold(s, confirming)
  BY <1>2, <1>4 DEF ConfirmationsHold
<1>8. BlockHolds(s, confirming)
  BY <1>11, <1>12 DEF BlockHolds
<1>9. AdditionsHold(s)
  BY <1>11, <1>12 DEF AdditionsHold
<1>10. SumHolds(s)
  <2>1. SumOver(AdditionalOf(s.processed), {}) = 0
    BY SumOfNone
  <2>2. DOMAIN s.processed = {} /\ s.block - s.initial = 0
    BY <1>11, <1>12
  <2> QED
    BY <2>1, <2>2 DEF SumHolds
<1> QED
  BY <1>1, <1>2, <1>5, <1>6, <1>7, <1>8, <1>9, <1>10 DEF SessionHolds

LEMMA FollowedKeeps ==
    ASSUME NEW trip, NEW n \in Nat, Len(trip.updates) = n, NEW targets, TargetsFit(targets, trip),
           NEW confirming, NEW i \in 0 .. n - 1, NEW s, SessionHolds(s, trip, i, confirming), s.stopped = "no",
           NEW t, t = Followed(s, trip.updates[i + 1], targets, confirming), t.stopped = "no"
    PROVE  SessionHolds(t, trip, i + 1, confirming)
<1>1. PICK update : update = trip.updates[i + 1]
  OBVIOUS
<1>2. /\ DOMAIN s = SessionFields /\ s.context = Course(trip)[i] /\ IsList(s.processed)
      /\ EventsHold(s, trip, i)
  BY DEF SessionHolds, DecisionsHold
<1>3. i \in Nat /\ i + 1 \in 0 .. n
  OBVIOUS
<1>4. Repeats(trip, i + 1) <=> Earlier(s, update) # {}
  BY <1>1, <1>2, <1>3, EventsRepeat
<1>5. /\ DOMAIN Course(trip) = 0 .. n
      /\ Repeats(trip, i + 1) => Course(trip)[i + 1] = s.context
      /\ ~Repeats(trip, i + 1) => Course(trip)[i + 1] = RevisedBy(s.context, update)
  BY <1>1, <1>2, CourseGoesOn
<1>6. t = Followed(s, update, targets, confirming)
  BY <1>1
<1>7. CASE Reply(s, update) = "replayed"
  <2>1. /\ t.context = s.context /\ t.processed = s.processed
        /\ \E a \in Earlier(s, update) : FollowsOn(s, t, s.processed[a].decision, confirming)
    BY <1>2, <1>6, <1>7, ReplayedUpdates
  <2>2. PICK a \in Earlier(s, update) : FollowsOn(s, t, s.processed[a].decision, confirming)
    BY <2>1
  <2>3. a \in DOMAIN s.processed /\ s.processed[a].update["event_id"] = trip.updates[i + 1]["event_id"]
    BY <1>1 DEF Earlier
  <2>4. s.context = Course(trip)[i + 1]
    BY <1>4, <1>5, <2>2
  <2> QED
    BY <1>3, <2>1, <2>2, <2>3, <2>4, ReplayKeeps
<1>8. CASE Reply(s, update) = "applied"
  <2> DEFINE d == DecisionOn(s, update, targets)
  <2>1. /\ IsBlock(targets[RevisedBy(s.context, update)])
        /\ t.context = RevisedBy(s.context, update)
        /\ t.processed = Append(s.processed, [update |-> update, decision |-> d])
        /\ FollowsOn(s, t, d, confirming)
    BY <1>2, <1>6, <1>8, AppliedUpdates
  <2>2. Earlier(s, update) = {}
    BY <1>8, AnsweredUpdates
  <2>3. t.context = Course(trip)[i + 1]
    BY <1>4, <1>5, <2>1, <2>2
  <2>4. /\ d.event = update["event_id"] /\ d.target = targets[RevisedBy(s.context, update)]
        /\ d.additional = Max({d.target - s.block, 0})
    BY DEF DecisionOn
  <2> HIDE DEF d
  <2>5. d.target \in Nat \ {0}
    BY <1>3, <1>5, <2>1, <2>3, <2>4 DEF TargetsFit
  <2>6. Entered(s, t, update, d)
    BY <1>2, <2>1 DEF Entered
  <2>7. update["event_id"] = trip.updates[i + 1]["event_id"]
    BY <1>1
  <2> QED
    BY <1>3, <2>1, <2>3, <2>4, <2>5, <2>6, <2>7, AppliedKeeps
<1>9. CASE Reply(s, update) \notin {"applied", "replayed"}
  <2>1. t = [s EXCEPT !.stopped = Reply(s, update)]
    BY <1>6, <1>9 DEF Followed
  <2>2. t.stopped = Reply(s, update)
    BY <1>2, <2>1 DEF SessionFields
  <2>3. Reply(s, update) # "no"
    BY DEF Reply
  <2> QED
    BY <2>2, <2>3
<1> QED
  BY <1>7, <1>8, <1>9

LEMMA RiddenHolds ==
    ASSUME NEW trip, NEW n \in Nat, Len(trip.updates) = n, NEW targets, TargetsFit(targets, trip),
           NEW confirming, NEW s, s = Ridden(trip, targets, confirming), s.stopped = "no"
    PROVE  SessionHolds(s, trip, n, confirming)
<1>1. PICK f : RidesAlong(f, trip, targets, confirming, n) /\ s = f[n]
  BY RideAlong
<1>2. f = [i \in 0 .. n |-> IF i = 0 THEN SessionOf(trip, targets)
                            ELSE Followed(f[i - 1], trip.updates[i], targets, confirming)]
  BY <1>1 DEF RidesAlong
<1> DEFINE Done == {i \in Nat : i <= n => (f[i].stopped = "no" => SessionHolds(f[i], trip, i, confirming))}
<1>3. 0 \in Done
  <2>1. f[0] = SessionOf(trip, targets)
    <3>1. 0 \in 0 .. n
      OBVIOUS
    <3> QED
      BY <1>2, <3>1
  <2>2. f[0].stopped = "no" => SessionHolds(f[0], trip, 0, confirming)
    BY <2>1, SessionStarts
  <2> QED
    BY <2>2
<1>4. ASSUME NEW i \in Nat, i \in Done PROVE i + 1 \in Done
  <2> SUFFICES ASSUME i + 1 <= n, f[i + 1].stopped = "no"
               PROVE  SessionHolds(f[i + 1], trip, i + 1, confirming)
    OBVIOUS
  <2>1. i + 1 \in 0 .. n /\ i + 1 # 0 /\ (i + 1) - 1 = i /\ i \in 0 .. n - 1 /\ i <= n
    OBVIOUS
  <2>2. f[i + 1] = Followed(f[i], trip.updates[i + 1], targets, confirming)
    <3>1. PICK k : k = i + 1
      OBVIOUS
    <3>2. f[k] = Followed(f[k - 1], trip.updates[k], targets, confirming)
      BY <1>2, <2>1, <3>1
    <3> QED
      BY <2>1, <3>1, <3>2
  <2>3. f[i].stopped = "no"
    <3>1. f[i].stopped # "no" => f[i + 1] = f[i]
      BY <2>2 DEF Followed
    <3> QED
      BY <3>1
  <2>4. SessionHolds(f[i], trip, i, confirming)
    BY <1>4, <2>1, <2>3
  <2> QED
    BY <2>1, <2>2, <2>3, <2>4, FollowedKeeps
<1> HIDE DEF Done
<1>5. Nat \subseteq Done
  BY <1>3, <1>4, Induction
<1>6. n \in Done
  BY <1>5
<1> QED
  BY <1>1, <1>6 DEF Done

-----------------------------------------------------------------------------
(* The blocks a trip is given, and its session at the end.                 *)

\* A context whose estimate is an amount.
ContextFields == {"ride", "est", "distance", "duration", "surge"}
IsEstimated(context) == DOMAIN context = ContextFields /\ context.est \in Nat \ {0}

LEMMA PaiseIsAmount ==
    ASSUME NEW value, IsPaise(value)
    PROVE  value.number \in Nat \ {0}
BY PaiseAssumption DEF IsPaise

LEMMA StartIsEstimated ==
    ASSUME NEW trip, IsTrip(trip)
    PROVE  IsEstimated(StartOf(trip.transaction))
<1>1. IsPaise(trip.transaction["estimated_amount_paise"])
  BY DEF IsTrip, IsRecord, IsContext
<1>2. trip.transaction["estimated_amount_paise"].number \in Nat \ {0}
  BY <1>1, PaiseIsAmount
<1>3. PICK x : x = trip.transaction["estimated_amount_paise"].number
  OBVIOUS
<1>4. DOMAIN StartOf(trip.transaction) = ContextFields /\ StartOf(trip.transaction).est = x
  BY <1>3 DEF StartOf, ContextFields
<1> QED
  BY <1>2, <1>3, <1>4 DEF IsEstimated

LEMMA RevisedIsEstimated ==
    ASSUME NEW context, IsEstimated(context), NEW update, IsUpdate(update)
    PROVE  IsEstimated(RevisedBy(context, update))
<1> DEFINE revised == RevisedBy(context, update)
<1>1. "est" \in DOMAIN context /\ DOMAIN context = ContextFields /\ context.est \in Nat \ {0}
  BY DEF IsEstimated, ContextFields
<1>2. "est" \in DOMAIN RevisionOf /\ RevisionOf["est"] = "revised_estimated_amount_paise"
  BY DEF RevisionOf
<1>3. DOMAIN revised = ContextFields
  BY <1>1 DEF RevisedBy
<1>4. revised["est"] = IF IsRevised(update["revised_estimated_amount_paise"])
                       THEN update["revised_estimated_amount_paise"].number ELSE context["est"]
  BY <1>1, <1>2 DEF RevisedBy
<1>5. \/ IsMissing(update["revised_estimated_amount_paise"])
      \/ IsPaise(update["revised_estimated_amount_paise"])
  BY DEF IsUpdate
<1> HIDE DEF revised
<1>6. CASE IsMissing(update["revised_estimated_amount_paise"])
  <2>1. ~IsRevised(update["revised_estimated_amount_paise"])
    BY <1>6 DEF IsMissing, IsRevised
  <2> QED
    BY <1>1, <1>3, <1>4, <2>1 DEF IsEstimated, revised
<1>7. CASE IsPaise(update["revised_estimated_amount_paise"])
  <2>1. update["revised_estimated_amount_paise"].number \in Nat \ {0}
    BY <1>7, PaiseIsAmount
  <2>2. revised.est \in Nat \ {0}
    BY <1>1, <1>4, <2>1
  <2> QED
    BY <1>3, <2>2 DEF IsEstimated, revised
<1> QED
  BY <1>5, <1>6, <1>7

LEMMA CourseIsEstimated ==
    ASSUME NEW trip, IsTrip(trip), NEW n \in Nat, Len(trip.updates) = n, DOMAIN trip.updates = 1 .. n
    PROVE  \A i \in DOMAIN Course(trip) : IsEstimated(Course(trip)[i])
<1>1. PICK c : c = Course(trip)
  OBVIOUS
<1>2. /\ DOMAIN c = 0 .. n /\ c[0] = StartOf(trip.transaction)
      /\ \A i \in 0 .. n - 1 :
            /\ Repeats(trip, i + 1) => c[i + 1] = c[i]
            /\ ~Repeats(trip, i + 1) => c[i + 1] = RevisedBy(c[i], trip.updates[i + 1])
  BY <1>1, CourseGoesOn
<1> DEFINE Done == {i \in Nat : i <= n => IsEstimated(c[i])}
<1>3. 0 \in Done
  BY <1>2, StartIsEstimated
<1>4. ASSUME NEW i \in Nat, i \in Done PROVE i + 1 \in Done
  <2> SUFFICES ASSUME i + 1 <= n PROVE IsEstimated(c[i + 1])
    OBVIOUS
  <2>1. i \in 0 .. n - 1 /\ i + 1 \in DOMAIN trip.updates /\ i <= n
    OBVIOUS
  <2>2. IsEstimated(c[i])
    BY <1>4, <2>1
  <2>3. IsUpdate(trip.updates[i + 1])
    BY <2>1 DEF IsTrip
  <2>4. CASE Repeats(trip, i + 1)
    BY <1>2, <2>1, <2>2, <2>4
  <2>5. CASE ~Repeats(trip, i + 1)
    <3>1. c[i + 1] = RevisedBy(c[i], trip.updates[i + 1])
      BY <1>2, <2>1, <2>5
    <3> QED
      BY <2>2, <2>3, <3>1, RevisedIsEstimated
  <2> QED
    BY <2>4, <2>5
<1> HIDE DEF Done
<1>5. Nat \subseteq Done
  BY <1>3, <1>4, Induction
<1>6. \A i \in 0 .. n : IsEstimated(c[i])
  BY <1>5 DEF Done
<1> QED
  BY <1>1, <1>2, <1>6

\* The blocks recommended for what a trip runs through are amounts.
LEMMA TargetsAreAmounts ==
    ASSUME NEW trip, IsTrip(trip), NEW n \in Nat, Len(trip.updates) = n, DOMAIN trip.updates = 1 .. n,
           NEW raws, \A i \in DOMAIN Course(trip) : Course(trip)[i] \in DOMAIN raws,
           \A context \in DOMAIN raws : IsRaw(raws[context]), NEW step, NEW profile
    PROVE  TargetsFit(Targets(raws, step, profile), trip)
<1> SUFFICES ASSUME NEW i \in DOMAIN Course(trip), IsBlock(Targets(raws, step, profile)[Course(trip)[i]])
             PROVE  Targets(raws, step, profile)[Course(trip)[i]] \in Nat \ {0}
  BY DEF TargetsFit
<1>1. PICK c : c = Course(trip)[i]
  OBVIOUS
<1>2. c \in DOMAIN raws /\ IsRaw(raws[c])
  BY <1>1
<1>3. IsEstimated(c)
  BY <1>1, CourseIsEstimated
<1>4. PICK e : e = c.est
  OBVIOUS
<1>5. e \in Int
  BY <1>3, <1>4 DEF IsEstimated
<1>6. PICK q : q = Repaired(raws[c])
  OBVIOUS
<1>7. IsDistribution(q)
  BY <1>2, <1>6, RepairPublishes
<1>8. PICK block : block = Recommend(e, q, step, TargetOf(profile))
  OBVIOUS
<1>9. Targets(raws, step, profile)[c] = block
  BY <1>2, <1>4, <1>6, <1>8 DEF Targets, RecommendFor
<1>10. block \notin {Unreachable, TooManySteps}
  BY <1>1, <1>9 DEF IsBlock
<1>11. block \in Feasible(e, q, step, TargetOf(profile))
  BY <1>5, <1>7, <1>8, <1>10, AnswerMeetsTarget
<1>12. block \in Candidates(e, q, step) /\ Candidates(e, q, step) \subseteq Nat \ {0}
  BY <1>5, <1>7, <1>11, CandidateFacts DEF Feasible
<1> QED
  BY <1>1, <1>9, <1>12

\* A session that holds adds up.
LEMMA SessionsAddUp ==
    ASSUME NEW s, NEW trip, NEW i, NEW confirming, SessionHolds(s, trip, i, confirming)
    PROVE  SessionAddsUp(s, confirming)
<1>0. DecisionsHold(s) /\ BlockHolds(s, confirming) /\ AdditionsHold(s) /\ SumHolds(s)
  BY DEF SessionHolds
<1>1. PICK m : m = Len(s.processed)
  OBVIOUS
<1>2. DOMAIN s.processed = 1 .. m /\ m \in Nat
  <2>1. PICK q : q = s.processed
    OBVIOUS
  <2>2. IsList(q)
    BY <1>0, <2>1 DEF DecisionsHold
  <2>3. DOMAIN q = 1 .. Len(q) /\ Len(q) \in Nat
    BY <2>2, ListFacts
  <2> QED
    BY <1>1, <2>1, <2>3
<1> DEFINE N == 1 .. m
           decisions == [a \in DOMAIN s.processed |-> s.processed[a].decision]
           targets == {decisions[a].target : a \in DOMAIN decisions}
           S == {s.initial} \cup targets
<1>3. DOMAIN decisions = N /\ \A a \in N : decisions[a] = s.processed[a].decision
  BY <1>2
<1>4. targets = {s.processed[a].decision.target : a \in N}
  BY <1>3
<1>5. IsFiniteSet(N)
  BY <1>2, NumbersAreFinite
<1>6. Total(LAMBDA d : d.additional, decisions) >= s.block - s.initial
  <2> DEFINE f == [a \in DOMAIN decisions |-> decisions[a].additional]
  <2>1. f = AdditionalOf(s.processed)
    BY <1>2, <1>3 DEF AdditionalOf
  <2>2. DOMAIN f = N
    BY <1>3
  <2>3. Total(LAMBDA d : d.additional, decisions) = SumFunction(f)
    BY DEF Total
  <2> HIDE DEF f, N, decisions
  <2>4. SumFunction(f) = SumOver(f, N)
    BY <1>5, <2>2, FoldIsSum
  <2>5. SumOver(f, N) >= s.block - s.initial
    BY <1>0, <1>2, <2>1 DEF SumHolds, N
  <2> QED
    BY <2>3, <2>4, <2>5
<1>7. confirming => s.block = Max(S)
  <2> SUFFICES ASSUME confirming PROVE s.block = Max(S)
    OBVIOUS
  <2>1. IsFiniteSet(targets)
    <3> DEFINE g == [a \in N |-> s.processed[a].decision.target]
    <3>1. g \in Surjection(N, targets)
      BY <1>4 DEF Surjection
    <3> HIDE DEF g, N, targets
    <3> QED
      BY <1>5, <3>1, FS_Surjection
  <2>2. IsFiniteSet(S)
    <3> HIDE DEF targets
    <3>1. IsFiniteSet(targets \cup {s.initial}) /\ targets \cup {s.initial} = S
      BY <2>1, FS_AddElement
    <3> QED
      BY <3>1
  <2>3. /\ \A a \in N : s.processed[a].decision.target <= s.block /\ s.processed[a].decision.target \in Nat
        /\ s.block = s.initial \/ \E a \in N : s.processed[a].decision.target = s.block
        /\ s.initial \in Nat /\ s.block \in Nat /\ s.initial <= s.block
    BY <1>0, <1>2 DEF BlockHolds, DecisionsHold
  <2>4. S \subseteq Int /\ S # {} /\ s.block \in S /\ \A x \in S : x <= s.block
    <3> HIDE DEF decisions
    <3>1. \A x \in targets : \E a \in N : x = s.processed[a].decision.target
      BY <1>4
    <3>2. \A a \in N : s.processed[a].decision.target \in targets
      BY <1>4
    <3> HIDE DEF targets, N
    <3>3. \A x \in targets : x \in Int /\ x <= s.block
      BY <2>3, <3>1
    <3> QED
      BY <2>3, <3>2, <3>3
  <2> HIDE DEF S
  <2>5. Max(S) \in S /\ \A x \in S : x <= Max(S)
    BY <2>2, <2>4, MaxIsLargest
  <2>6. Max(S) <= s.block /\ s.block <= Max(S) /\ Max(S) \in Int /\ s.block \in Int
    BY <2>4, <2>5
  <2> QED
    BY <2>6
<1>8. ~confirming => s.block = s.initial
  BY <1>0 DEF BlockHolds
<1>9. Len(s.additions) = s.updates /\ s.updates >= Len(s.processed)
  <2>1. Len(s.additions) = s.updates /\ Len(s.processed) <= s.updates
    BY <1>0 DEF AdditionsHold
  <2> QED
    BY <2>1
<1>10. s.block = IF confirming THEN Max(S) ELSE s.initial
  BY <1>7, <1>8
<1> QED
  BY <1>6, <1>9, <1>10 DEF SessionAddsUp

-----------------------------------------------------------------------------
(* Ranks and medians.                                                      *)

\* The mean of the differences is the difference of the means, but for their
\* rounding.
LEMMA RaisedMeans ==
    ASSUME NEW n \in Nat \ {0}, NEW a \in Nat, NEW b \in Nat, NEW c \in Nat, a - b = c
    PROVE  Gap(HalfUp(a, n) - HalfUp(b, n), HalfUp(c, n)) <= 1
<1> DEFINE u == HalfUp(a, n)
           v == HalfUp(b, n)
           w == HalfUp(c, n)
           nu == n * u
           nv == n * v
           nw == n * w
           d == u - v - w
           nd == n * d
<1>1. /\ u \in Nat /\ 2 * nu <= 2 * a + n /\ 2 * a < 2 * nu + n
      /\ v \in Nat /\ 2 * nv <= 2 * b + n /\ 2 * b < 2 * nv + n
      /\ w \in Nat /\ 2 * nw <= 2 * c + n /\ 2 * c < 2 * nw + n
  BY HalfUpFits
<1> HIDE DEF u, v, w
<1>2. d \in Int /\ nd \in Int /\ nu \in Int /\ nv \in Int /\ nw \in Int /\ nd = nu - nv - nw
  BY <1>1
<1> HIDE DEF nu, nv, nw
<1>3. n * d < n * 2 /\ n * (-2) < n * d
  <2> HIDE DEF d
  <2>1. nd < 2 * n /\ -(2 * n) < nd
    <3> HIDE DEF nd
    <3> QED
      BY <1>1, <1>2
  <2> QED
    BY <1>2, <2>1
<1>4. d < 2 /\ -2 < d
  <2> HIDE DEF d
  <2> QED
    BY <1>2, <1>3, Divided
<1>5. u - v \in Int /\ w \in Int /\ (u - v) - w <= 1 /\ w - (u - v) <= 1
  BY <1>1, <1>2, <1>4
<1> QED
  BY <1>5, GapIsBounded DEF u, v, w

LEMMA ProductsRise ==
    ASSUME NEW k \in Nat, NEW n \in Nat, k <= n, NEW q \in Nat, NEW p \in Nat, q <= p
    PROVE  k * q <= n * p
<1> DEFINE a == n - k
           b == p - q
<1>1. a \in Nat /\ b \in Nat /\ n = k + a /\ p = q + b
  OBVIOUS
<1> HIDE DEF a, b
<1>2. n * p = k * q + (k * b + a * q + a * b)
  BY <1>1
<1>3. k * b \in Nat /\ a * q \in Nat /\ a * b \in Nat /\ k * q \in Nat
  BY <1>1
<1> QED
  BY <1>2, <1>3

\* The same total over fewer has no smaller a mean.
LEMMA FewerMeanMore ==
    ASSUME NEW t \in Nat, NEW n \in Nat \ {0}, NEW k \in Nat \ {0}, k <= n
    PROVE  HalfUp(t, n) <= HalfUp(t, k)
<1> DEFINE x == HalfUp(t, n)
           y == HalfUp(t, k)
           nx == n * x
           ky == k * y
<1>1. /\ x \in Nat /\ 2 * nx <= 2 * t + n
      /\ y \in Nat /\ 2 * t < 2 * ky + k
  BY HalfUpFits
<1> HIDE DEF x, y
<1> SUFFICES ASSUME x >= y + 1 PROVE FALSE
  BY <1>1 DEF x, y
<1> DEFINE p == 2 * x - 1
           q == 2 * y + 1
<1>2. p \in Nat /\ q \in Nat /\ q <= p
  BY <1>1
<1>3. k * q <= n * p
  <2> HIDE DEF p, q
  <2> QED
    BY <1>2, ProductsRise
<1>4. k * q = 2 * ky + k /\ n * p = 2 * nx - n /\ nx \in Int /\ ky \in Int
  BY <1>1
<1> HIDE DEF p, q, nx, ky
<1> QED
  BY <1>1, <1>3, <1>4

\* Of n numbers there is a k-th smallest.
AtMostIn(f, v) == {x \in DOMAIN f : f[x] <= v}
BelowIn(f, v) == {x \in DOMAIN f : f[x] < v}

LEMMA RankExists ==
    ASSUME NEW f, IsFiniteSet(DOMAIN f), \A x \in DOMAIN f : f[x] \in Nat,
           NEW k \in 1 .. Cardinality(DOMAIN f)
    PROVE  Ranked(f, k) \in Range(f)
<1> DEFINE S == DOMAIN f
           R == Range(f)
           V == {v \in R : k <= Cardinality(AtMostIn(f, v))}
<1>1. R \subseteq Nat /\ \A x \in S : f[x] \in R
  BY DEF Range
<1>2. Cardinality(S) \in Nat /\ k \in Nat /\ k >= 1 /\ k <= Cardinality(S)
  BY FS_CardinalityType
<1>3. IsFiniteSet(R)
  <2> DEFINE g == [x \in S |-> f[x]]
  <2>1. g \in Surjection(S, R)
    BY <1>1 DEF Range, Surjection
  <2> HIDE DEF S, R, g
  <2> QED
    BY <2>1, FS_Surjection DEF S
<1>4. R # {}
  <2>1. S # {}
    BY <1>2, FS_EmptySet
  <2> QED
    BY <1>1, <2>1
<1>5. V # {}
  <2> DEFINE m == Max(R)
  <2>1. R \subseteq Int
    BY <1>1
  <2>2. m \in R /\ \A v \in R : v <= m
    <3> HIDE DEF R
    <3> QED
      BY <1>3, <1>4, <2>1, MaxIsLargest
  <2>3. AtMostIn(f, m) = S
    BY <1>1, <2>2 DEF AtMostIn
  <2>4. m \in V
    <3> HIDE DEF m, R
    <3> QED
      BY <1>2, <2>2, <2>3
  <2> QED
    BY <2>4
<1>6. PICK v \in V : \A u \in V : v <= u
  <2>1. V \subseteq Nat
    BY <1>1
  <2> HIDE DEF V
  <2> QED
    BY <1>5, <2>1, LeastExists
<1>7. v \in R /\ k <= Cardinality(AtMostIn(f, v)) /\ v \in Nat
  BY <1>1, <1>6
<1>8. Cardinality(BelowIn(f, v)) < k
  <2> DEFINE B == BelowIn(f, v)
  <2>1. B \subseteq S
    BY DEF BelowIn
  <2>2. IsFiniteSet(B) /\ Cardinality(B) \in Nat
    <3> HIDE DEF B
    <3> QED
      BY <2>1, FS_Subset, FS_CardinalityType
  <2> SUFFICES ASSUME Cardinality(B) >= k PROVE FALSE
    BY <1>2, <2>2
  <2> DEFINE I == {u \in R : u < v}
  <2>3. IsFiniteSet(I) /\ I \subseteq Int
    <3>1. I \subseteq R
      OBVIOUS
    <3>2. IsFiniteSet(I)
      <4> HIDE DEF I, R
      <4> QED
        BY <1>3, <3>1, FS_Subset
    <3> QED
      BY <1>1, <3>2
  <2>4. I # {}
    <3>1. B # {}
      <4> HIDE DEF B
      <4> QED
        BY <1>2, <2>2, FS_EmptySet
    <3>2. PICK x \in S : f[x] < v
      BY <3>1 DEF BelowIn
    <3>3. f[x] \in I
      BY <1>1, <3>2
    <3> QED
      BY <3>3
  <2>5. PICK u \in I : \A w \in I : w <= u
    <3> HIDE DEF I
    <3> QED
      BY <2>3, <2>4, MaxIsLargest
  <2>6. u \in R /\ u < v
    OBVIOUS
  <2> DEFINE A == AtMostIn(f, u)
  <2>7. B \subseteq A /\ A \subseteq S
    <3>1. ASSUME NEW x \in S, f[x] < v PROVE f[x] <= u
      <4>1. f[x] \in I
        BY <1>1, <3>1
      <4> QED
        BY <2>5, <4>1
    <3> QED
      BY <3>1 DEF BelowIn, AtMostIn
  <2>8. Cardinality(B) <= Cardinality(A) /\ Cardinality(A) \in Nat
    <3> HIDE DEF A, B
    <3>1. IsFiniteSet(A)
      BY <2>7, FS_Subset
    <3> QED
      BY <2>7, <3>1, FS_Subset, FS_CardinalityType
  <2>9. u \in V
    <3> HIDE DEF A, B
    <3>1. k <= Cardinality(A)
      BY <1>2, <2>2, <2>8
    <3> QED
      BY <2>6, <3>1 DEF A
  <2> HIDE DEF V, R
  <2>10. v <= u /\ u \in Nat
    BY <1>1, <1>6, <2>6, <2>9
  <2> QED
    BY <1>7, <2>6, <2>10
<1>9. \E w \in Range(f) : /\ Cardinality({x \in DOMAIN f : f[x] < w}) < k
                          /\ k <= Cardinality({x \in DOMAIN f : f[x] <= w})
  BY <1>7, <1>8 DEF BelowIn, AtMostIn
<1> QED
  BY <1>9 DEF Ranked

\* The median is no larger than what bounds them all.
LEMMA MedianIsBounded ==
    ASSUME NEW f, IsFiniteSet(DOMAIN f), NEW largest \in Nat,
           \A x \in DOMAIN f : f[x] \in Nat /\ f[x] <= largest
    PROVE  MedianOf(f) <= largest
<1> DEFINE n == Cardinality(DOMAIN f)
           half == n \div 2
<1>1. n \in Nat
  BY FS_CardinalityType
<1>2. ASSUME NEW k \in 1 .. n PROVE Ranked(f, k) \in Nat /\ Ranked(f, k) <= largest
  <2>1. Ranked(f, k) \in Range(f)
    BY RankExists
  <2>2. PICK x \in DOMAIN f : Ranked(f, k) = f[x]
    BY <2>1 DEF Range
  <2> QED
    BY <2>2
<1>3. MedianOf(f) = IF n = 0 THEN 0 ELSE IF n % 2 = 1 THEN Ranked(f, half + 1)
                    ELSE HalfUp(Ranked(f, half) + Ranked(f, half + 1), 2)
  BY DEF MedianOf
<1> HIDE DEF n
<1>4. CASE n = 0
  BY <1>3, <1>4
<1>5. CASE n # 0 /\ n % 2 = 1
  <2>1. half + 1 \in 1 .. n
    BY <1>1, <1>5
  <2> QED
    BY <1>2, <1>3, <1>5, <2>1
<1>6. CASE n # 0 /\ n % 2 # 1
  <2>1. half \in 1 .. n /\ half + 1 \in 1 .. n
    BY <1>1, <1>6
  <2> HIDE DEF half
  <2>2. PICK a \in Nat : a = Ranked(f, half) /\ a <= largest
    BY <1>2, <2>1
  <2>3. PICK b \in Nat : b = Ranked(f, half + 1) /\ b <= largest
    BY <1>2, <2>1
  <2>4. PICK h : h = HalfUp(a + b, 2)
    OBVIOUS
  <2>5. h \in Nat /\ 2 * (2 * h) <= 2 * (a + b) + 2
    <3>1. PICK m \in Nat : m = a + b
      OBVIOUS
    <3>2. PICK d \in Nat \ {0} : d = 2
      OBVIOUS
    <3>3. h = HalfUp(m, d)
      BY <2>4, <3>1, <3>2
    <3>4. h \in Nat /\ 2 * (d * h) <= 2 * m + d
      BY <3>3, HalfUpFits
    <3> QED
      BY <3>1, <3>2, <3>4
  <2>6. h <= largest
    BY <2>2, <2>3, <2>5
  <2> QED
    BY <1>3, <1>6, <2>2, <2>3, <2>4, <2>6 DEF half
<1> QED
  BY <1>4, <1>5, <1>6

-----------------------------------------------------------------------------
(* The report over many rides.                                             *)

IsFollowed(s) ==
    /\ s.initial \in Nat \ {0} /\ s.block \in Nat \ {0} /\ s.initial <= s.block
    /\ IsList(s.additions) /\ \A j \in DOMAIN s.additions : s.additions[j] \in Nat
    /\ s.initial < s.block => \E j \in DOMAIN s.additions : s.additions[j] > 0

FareAt(trips, i) == trips[i].outcome["actual_amount_paise"].number
FareOfTrip(trips, i) == [fare |-> FareAt(trips, i)]

\* n rides that were followed to their ends.
AreFollowed(trips, sessions, n) ==
    /\ n \in Nat /\ DOMAIN trips = 1 .. n /\ Len(trips) = n /\ DOMAIN sessions = 1 .. n
    /\ \A i \in 1 .. n : IsFollowed(sessions[i]) /\ FareAt(trips, i) \in Nat \ {0}

FirstEvaluated(trips, sessions) ==
    [i \in DOMAIN trips |-> Evaluated(FareOfTrip(trips, i), sessions[i].initial)]
LastEvaluated(trips, sessions) ==
    [i \in DOMAIN trips |-> Evaluated(FareOfTrip(trips, i), sessions[i].block)]
FirstOfRides(sessions) == [i \in DOMAIN sessions |-> sessions[i].initial]
LastOfRides(sessions) == [i \in DOMAIN sessions |-> sessions[i].block]
RaisedOf(trips, sessions) == [i \in DOMAIN trips |-> sessions[i].block - sessions[i].initial]
AskedOf(sessions) ==
    [e \in UNION {{i} \X DOMAIN sessions[i].additions : i \in DOMAIN sessions} |->
        sessions[e[1]].additions[e[2]]]
Positives(f) == RestrictValues(f, LAMBDA x : x > 0)

\* What the report r makes of the evaluations, the raises and what was asked.
IsReportOf(r, s, d, sessions, raised, asked) ==
    /\ r.static = Aggregated(s) /\ r.dynamic = Aggregated(d)
    /\ r.averageInitial = MeanOf(FirstOfRides(sessions))
    /\ r.averageFinal = MeanOf(LastOfRides(sessions))
    /\ r.averageRaise = MeanOf(raised) /\ r.averageTriggered = MeanOf(Positives(raised))
    /\ r.updates = Cardinality(DOMAIN asked)
    /\ r.increases = Cardinality(DOMAIN Positives(asked))
    /\ r.sufficientRate = ShareOf(r.updates - r.increases, r.updates)
    /\ r.increaseRate = ShareOf(r.increases, r.updates)
    /\ r.largest = Max({0} \cup Range(Positives(asked))) /\ r.median = MedianOf(Positives(asked))
    /\ r.unchanged = Cardinality({i \in DOMAIN raised : raised[i] = 0})

\* Who is collected from with either block.
BenefitAt(s, d, n, b) == {i \in 1 .. n : s[i].success = b.static /\ d[i].success = b.dynamic}
AreBenefits(benefits, s, d, n) ==
    /\ DOMAIN benefits = Benefits
    /\ \A b \in Benefits : benefits[b] = Cardinality(BenefitAt(s, d, n, b))

LEMMA ReportIs ==
    ASSUME NEW trips, NEW sessions, NEW n, AreFollowed(trips, sessions, n)
    PROVE  LET r == DynamicReport(trips, sessions)
               s == FirstEvaluated(trips, sessions)
               d == LastEvaluated(trips, sessions)
           IN  /\ IsReportOf(r, s, d, sessions, RaisedOf(trips, sessions), AskedOf(sessions))
               /\ AreBenefits(r.benefits, s, d, n)
<1> DEFINE r == DynamicReport(trips, sessions)
           s == FirstEvaluated(trips, sessions)
           d == LastEvaluated(trips, sessions)
<1>1. IsReportOf(r, s, d, sessions, RaisedOf(trips, sessions), AskedOf(sessions))
  BY DEF DynamicReport, FirstEvaluated, LastEvaluated, RaisedOf, AskedOf, Positives, FareOfTrip, FareAt,
         FirstOfRides, LastOfRides, Count, IsReportOf
<1>2. DOMAIN trips = 1 .. n
  BY DEF AreFollowed
<1>3. r.benefits = [b \in Benefits |-> Cardinality({i \in 1 .. n :
                        s[i].success = b.static /\ d[i].success = b.dynamic})]
  BY <1>2 DEF DynamicReport, FirstEvaluated, LastEvaluated, FareOfTrip, FareAt
<1>4. AreBenefits(r.benefits, s, d, n)
  <2> HIDE DEF r, s, d
  <2> QED
    BY <1>3 DEF AreBenefits, BenefitAt
<1> QED
  BY <1>1, <1>4

\* The evaluations of a ride with its first block and with its last.
LEMMA FirstAndLast ==
    ASSUME NEW trips, NEW sessions, NEW n, AreFollowed(trips, sessions, n)
    PROVE  LET s == FirstEvaluated(trips, sessions)
               d == LastEvaluated(trips, sessions)
           IN  /\ DOMAIN s = 1 .. n /\ Len(s) = n /\ DOMAIN d = 1 .. n /\ Len(d) = n
               /\ \A i \in 1 .. n :
                    /\ IsJudged(s[i]) /\ IsJudged(d[i])
                    /\ s[i].actual = FareAt(trips, i) /\ d[i].actual = FareAt(trips, i)
                    /\ s[i].block = sessions[i].initial /\ d[i].block = sessions[i].block
                    /\ s[i].success = (sessions[i].initial >= FareAt(trips, i))
                    /\ d[i].success = (sessions[i].block >= FareAt(trips, i))
<1>0. n \in Nat /\ DOMAIN trips = 1 .. n
  BY DEF AreFollowed
<1>1. ASSUME NEW i \in 1 .. n, NEW block, block \in Nat \ {0}
      PROVE  LET e == Evaluated(FareOfTrip(trips, i), block)
             IN  IsJudged(e) /\ e.actual = FareAt(trips, i) /\ e.block = block
                 /\ e.success = (block >= FareAt(trips, i))
  <2>1. PICK ride : ride = FareOfTrip(trips, i)
    OBVIOUS
  <2>2. ride.fare = FareAt(trips, i) /\ FareAt(trips, i) \in Nat \ {0}
    BY <2>1 DEF FareOfTrip, AreFollowed
  <2>3. IsJudged(Evaluated(ride, block)) /\ Evaluated(ride, block).actual = ride.fare
    BY <1>1, <2>2, EvaluatedIsJudged
  <2>4. Evaluated(ride, block).block = block /\ Evaluated(ride, block).success = (block >= ride.fare)
    BY DEF Evaluated
  <2> QED
    BY <2>1, <2>2, <2>3, <2>4
<1>2. \A i \in 1 .. n : sessions[i].initial \in Nat \ {0} /\ sessions[i].block \in Nat \ {0}
  BY DEF AreFollowed, IsFollowed
<1>3. \A i \in 1 .. n :
        /\ FirstEvaluated(trips, sessions)[i] = Evaluated(FareOfTrip(trips, i), sessions[i].initial)
        /\ LastEvaluated(trips, sessions)[i] = Evaluated(FareOfTrip(trips, i), sessions[i].block)
  BY <1>0 DEF FirstEvaluated, LastEvaluated
<1>4. /\ DOMAIN FirstEvaluated(trips, sessions) = 1 .. n /\ Len(FirstEvaluated(trips, sessions)) = n
      /\ DOMAIN LastEvaluated(trips, sessions) = 1 .. n /\ Len(LastEvaluated(trips, sessions)) = n
  BY <1>0 DEF FirstEvaluated, LastEvaluated
<1> QED
  BY <1>1, <1>2, <1>3, <1>4

\* There are no metrics of no rides: a total is an amount.
LEMMA SomeAreFollowed ==
    ASSUME NEW trips, NEW sessions, NEW n, AreFollowed(trips, sessions, n),
           HasMetrics(Aggregated(FirstEvaluated(trips, sessions)))
    PROVE  n \in Nat \ {0}
<1> DEFINE s == FirstEvaluated(trips, sessions)
<1>1. n \in Nat /\ DOMAIN s = 1 .. n /\ Len(s) = n
  BY FirstAndLast DEF AreFollowed
<1> HIDE DEF s
<1>2. IsAmount(SumOver(FieldOf(s, n, "block"), 1 .. n))
  BY <1>1, MetricsAreSums DEF s
<1> SUFFICES ASSUME n = 0 PROVE FALSE
  BY <1>1
<1>3. 1 .. n = {}
  OBVIOUS
<1>4. SumOver(FieldOf(s, n, "block"), 1 .. n) = 0
  BY <1>3, SumOfNone
<1> QED
  BY <1>2, <1>4 DEF IsAmount

\* Either column adds up, and over the same fares the raised one reserves no
\* less.
LEMMA ColumnsAddUp ==
    ASSUME NEW trips, NEW sessions, NEW n, AreFollowed(trips, sessions, n),
           NEW s, s = FirstEvaluated(trips, sessions), NEW d, d = LastEvaluated(trips, sessions),
           HasMetrics(Aggregated(s)), HasMetrics(Aggregated(d))
    PROVE  /\ n \in Nat \ {0}
           /\ MetricsAddUp(Aggregated(s)) /\ MetricsAddUp(Aggregated(d))
           /\ Aggregated(s).actual = Aggregated(d).actual
           /\ Aggregated(s).blocked <= Aggregated(d).blocked
           /\ Aggregated(s).successes = Cardinality(Successes(s, n))
           /\ Aggregated(d).successes = Cardinality(Successes(d, n))
<1>1. n \in Nat \ {0}
  BY SomeAreFollowed
<1>2. /\ DOMAIN s = 1 .. n /\ Len(s) = n /\ DOMAIN d = 1 .. n /\ Len(d) = n
      /\ \A i \in 1 .. n :
            /\ IsJudged(s[i]) /\ IsJudged(d[i]) /\ s[i].actual = d[i].actual
            /\ s[i].block = sessions[i].initial /\ d[i].block = sessions[i].block
  BY FirstAndLast
<1>3. MetricsAddUp(Aggregated(s)) /\ MetricsAddUp(Aggregated(d))
  BY <1>1, <1>2, AggregatedAddsUp
<1>4. /\ Aggregated(s).successes = Cardinality(Successes(s, n))
      /\ Aggregated(s).blocked = SumOver(FieldOf(s, n, "block"), 1 .. n)
      /\ Aggregated(s).actual = SumOver(FieldOf(s, n, "actual"), 1 .. n)
  BY <1>1, <1>2, MetricsAreSums
<1>5. /\ Aggregated(d).successes = Cardinality(Successes(d, n))
      /\ Aggregated(d).blocked = SumOver(FieldOf(d, n, "block"), 1 .. n)
      /\ Aggregated(d).actual = SumOver(FieldOf(d, n, "actual"), 1 .. n)
  BY <1>1, <1>2, MetricsAreSums
<1>6. IsFiniteSet(1 .. n)
  BY <1>1, NumbersAreFinite
<1>7. Aggregated(s).actual = Aggregated(d).actual
  <2>1. PICK u : u = FieldOf(s, n, "actual")
    OBVIOUS
  <2>2. PICK v : v = FieldOf(d, n, "actual")
    OBVIOUS
  <2>3. \A i \in 1 .. n : u[i] = v[i]
    BY <1>2, <2>1, <2>2 DEF FieldOf
  <2>4. SumOver(u, 1 .. n) = SumOver(v, 1 .. n)
    BY <1>6, <2>3, SumSame
  <2> QED
    BY <1>4, <1>5, <2>1, <2>2, <2>4
<1>8. Aggregated(s).blocked <= Aggregated(d).blocked
  <2>1. PICK u : u = FieldOf(s, n, "block")
    OBVIOUS
  <2>2. PICK v : v = FieldOf(d, n, "block")
    OBVIOUS
  <2>3. \A i \in 1 .. n : u[i] = sessions[i].initial /\ v[i] = sessions[i].block
    BY <1>2, <2>1, <2>2 DEF FieldOf
  <2>4. \A i \in 1 .. n : u[i] \in Int /\ v[i] \in Int /\ u[i] <= v[i]
    BY <2>3 DEF AreFollowed, IsFollowed
  <2>5. SumOver(u, 1 .. n) <= SumOver(v, 1 .. n)
    BY <1>6, <2>4, SumRises
  <2> QED
    BY <1>4, <1>5, <2>1, <2>2, <2>5
<1> QED
  BY <1>1, <1>3, <1>4, <1>5, <1>7, <1>8

-----------------------------------------------------------------------------
(* Whom the raised blocks collect from.                                    *)

Benefit(x, y) == [static |-> x, dynamic |-> y]

LEMMA BenefitFields ==
    /\ \A x, y : Benefit(x, y).static = x /\ Benefit(x, y).dynamic = y
    /\ \A x, y \in BOOLEAN : Benefit(x, y) \in Benefits
    /\ \A b \in Benefits : b.static \in BOOLEAN /\ b.dynamic \in BOOLEAN /\ b = Benefit(b.static, b.dynamic)
<1>1. \A x, y : Benefit(x, y).static = x /\ Benefit(x, y).dynamic = y
  BY Zenon DEF Benefit
<1>2. \A x, y \in BOOLEAN : Benefit(x, y) \in Benefits
  BY Zenon DEF Benefit, Benefits
<1>3. ASSUME NEW b \in Benefits
      PROVE  b.static \in BOOLEAN /\ b.dynamic \in BOOLEAN /\ b = Benefit(b.static, b.dynamic)
  BY Zenon DEF Benefit, Benefits
<1> QED
  BY <1>1, <1>2, <1>3

LEMMA BenefitsAreFinite == IsFiniteSet(Benefits)
<1> DEFINE S == {TRUE, FALSE}
<1>1. PICK f : f = [x \in 1 .. 4 |-> Benefit(x \in {1, 2}, x \in {1, 3})]
  OBVIOUS
<1>2. f \in Surjection(1 .. 4, Benefits)
  <2>1. \A x \in 1 .. 4 : (x \in {1, 2}) \in BOOLEAN /\ (x \in {1, 3}) \in BOOLEAN
    OBVIOUS
  <2>2. f \in [1 .. 4 -> Benefits]
    BY <1>1, <2>1, BenefitFields
  <2>3. ASSUME NEW b \in Benefits PROVE \E x \in 1 .. 4 : f[x] = b
    <3>1. b.static \in BOOLEAN /\ b.dynamic \in BOOLEAN /\ b = Benefit(b.static, b.dynamic)
      BY BenefitFields
    <3>2. CASE b.static = TRUE /\ b.dynamic = TRUE
      <4>1. (1 \in {1, 2}) = TRUE /\ (1 \in {1, 3}) = TRUE /\ 1 \in 1 .. 4
        OBVIOUS
      <4>2. f[1] = Benefit(1 \in {1, 2}, 1 \in {1, 3})
        BY <1>1, <4>1
      <4> QED
        BY <3>1, <3>2, <4>1, <4>2
    <3>3. CASE b.static = TRUE /\ b.dynamic = FALSE
      <4>1. (2 \in {1, 2}) = TRUE /\ (2 \in {1, 3}) = FALSE /\ 2 \in 1 .. 4
        OBVIOUS
      <4>2. f[2] = Benefit(2 \in {1, 2}, 2 \in {1, 3})
        BY <1>1, <4>1
      <4> QED
        BY <3>1, <3>3, <4>1, <4>2
    <3>4. CASE b.static = FALSE /\ b.dynamic = TRUE
      <4>1. (3 \in {1, 2}) = FALSE /\ (3 \in {1, 3}) = TRUE /\ 3 \in 1 .. 4
        OBVIOUS
      <4>2. f[3] = Benefit(3 \in {1, 2}, 3 \in {1, 3})
        BY <1>1, <4>1
      <4> QED
        BY <3>1, <3>4, <4>1, <4>2
    <3>5. CASE b.static = FALSE /\ b.dynamic = FALSE
      <4>1. (4 \in {1, 2}) = FALSE /\ (4 \in {1, 3}) = FALSE /\ 4 \in 1 .. 4
        OBVIOUS
      <4>2. f[4] = Benefit(4 \in {1, 2}, 4 \in {1, 3})
        BY <1>1, <4>1
      <4> QED
        BY <3>1, <3>5, <4>1, <4>2
    <3> QED
      BY <3>1, <3>2, <3>3, <3>4, <3>5
  <2> QED
    BY <2>2, <2>3 DEF Surjection
<1>3. IsFiniteSet(1 .. 4)
  BY NumbersAreFinite
<1> QED
  BY <1>2, <1>3, FS_Surjection

\* Whom the first block collects from, the last one does.
LEMMA LastCollects ==
    ASSUME NEW trips, NEW sessions, NEW n, AreFollowed(trips, sessions, n),
           NEW s, s = FirstEvaluated(trips, sessions), NEW d, d = LastEvaluated(trips, sessions)
    PROVE  \A i \in 1 .. n : /\ s[i].success \in BOOLEAN /\ d[i].success \in BOOLEAN
                             /\ s[i].success => d[i].success
                             /\ s[i].success # d[i].success => sessions[i].initial < sessions[i].block
<1> SUFFICES ASSUME NEW i \in 1 .. n
             PROVE  /\ s[i].success \in BOOLEAN /\ d[i].success \in BOOLEAN
                    /\ s[i].success => d[i].success
                    /\ s[i].success # d[i].success => sessions[i].initial < sessions[i].block
  OBVIOUS
<1>1. PICK x : x = s[i].success
  OBVIOUS
<1>2. PICK y : y = d[i].success
  OBVIOUS
<1>3. PICK a \in Nat : a = sessions[i].initial
  BY DEF AreFollowed, IsFollowed
<1>4. PICK b \in Nat : b = sessions[i].block
  BY DEF AreFollowed, IsFollowed
<1>5. PICK f \in Nat : f = FareAt(trips, i)
  BY DEF AreFollowed
<1>6. a <= b
  BY <1>3, <1>4 DEF AreFollowed, IsFollowed
<1>7. x = (a >= f) /\ y = (b >= f)
  BY <1>1, <1>2, <1>3, <1>4, <1>5, FirstAndLast
<1>8. a >= f => b >= f
  BY <1>6
<1>9. (a >= f) = (b >= f) \/ a < b
  BY <1>6
<1>10. x \in BOOLEAN /\ y \in BOOLEAN
  BY <1>7
<1>11. x => y
  BY <1>7, <1>8
<1>12. x # y => a < b
  BY <1>7, <1>9
<1>13. x # y => sessions[i].initial < sessions[i].block
  BY <1>3, <1>4, <1>12
<1> QED
  BY Zenon, <1>1, <1>2, <1>10, <1>11, <1>13

BenefitsAgree(benefits, s, d, n) ==
    /\ benefits[Benefit(TRUE, FALSE)] = 0
    /\ Cardinality(Successes(d, n)) = Cardinality(Successes(s, n)) + benefits[Benefit(FALSE, TRUE)]
    /\ SumFunction(benefits) = n

LEMMA BenefitsAddUp ==
    ASSUME NEW trips, NEW sessions, NEW n, AreFollowed(trips, sessions, n),
           NEW s, s = FirstEvaluated(trips, sessions), NEW d, d = LastEvaluated(trips, sessions),
           NEW benefits, AreBenefits(benefits, s, d, n)
    PROVE  BenefitsAgree(benefits, s, d, n)
<1> USE DEF AreBenefits
<1> DEFINE N == 1 .. n
<1>1. \A i \in N : /\ s[i].success \in BOOLEAN /\ d[i].success \in BOOLEAN
                   /\ s[i].success => d[i].success
  BY LastCollects
<1>2. IsFiniteSet(N) /\ n \in Nat
  BY NumbersAreFinite DEF AreFollowed
<1>3. benefits[Benefit(TRUE, FALSE)] = 0
  <2>1. PICK b : b = Benefit(TRUE, FALSE)
    OBVIOUS
  <2>2. b \in Benefits /\ b.static = TRUE /\ b.dynamic = FALSE
    BY <2>1, BenefitFields
  <2>3. BenefitAt(s, d, n, b) = {}
    BY <1>1, <2>2 DEF BenefitAt
  <2>4. benefits[b] = 0
    BY <2>2, <2>3, FS_EmptySet
  <2> QED
    BY <2>1, <2>4
<1>4. Cardinality(Successes(d, n)) = Cardinality(Successes(s, n)) + benefits[Benefit(FALSE, TRUE)]
  <2>1. PICK b : b = Benefit(FALSE, TRUE)
    OBVIOUS
  <2>2. b \in Benefits /\ b.static = FALSE /\ b.dynamic = TRUE
    BY <2>1, BenefitFields
  <2> DEFINE A == Successes(s, n)
             B == BenefitAt(s, d, n, b)
             C == Successes(d, n)
  <2>3. /\ A \subseteq N /\ B \subseteq N /\ C \subseteq N
        /\ A \subseteq C /\ C \ A = B
    BY <1>1, <2>2 DEF Successes, BenefitAt
  <2> HIDE DEF A, B, C, N
  <2>4. IsFiniteSet(A) /\ IsFiniteSet(C)
    BY <1>2, <2>3, FS_Subset
  <2>5. Cardinality(C) - Cardinality(A \cap C) = Cardinality(C \ A)
    BY <2>4, CountsDiffer
  <2>6. A \cap C = A
    BY <2>3
  <2>7. Cardinality(A) \in Nat /\ Cardinality(C) \in Nat
    BY <2>4, FS_CardinalityType
  <2>8. Cardinality(C) - Cardinality(A) = Cardinality(B)
    BY <2>3, <2>5, <2>6
  <2>9. Cardinality(C) = Cardinality(A) + Cardinality(B)
    BY <2>7, <2>8
  <2>10. benefits[b] = Cardinality(B)
    BY <2>2 DEF B
  <2> QED
    BY <2>1, <2>9, <2>10 DEF A, C
<1>5. SumFunction(benefits) = n
  <2> DEFINE key == [j \in N |-> Benefit(s[j].success, d[j].success)]
  <2>1. \A j \in N : key[j] \in Benefits
    BY <1>1, BenefitFields
  <2>2. ASSUME NEW b \in Benefits PROVE benefits[b] = Cardinality(N \cap {j \in N : key[j] = b})
    <3>1. ASSUME NEW j \in N
          PROVE  key[j] = b <=> s[j].success = b.static /\ d[j].success = b.dynamic
      <4>1. PICK x : x = s[j].success
        OBVIOUS
      <4>2. PICK y : y = d[j].success
        OBVIOUS
      <4>3. key[j] = Benefit(x, y)
        BY <4>1, <4>2
      <4>4. /\ Benefit(x, y).static = x /\ Benefit(x, y).dynamic = y
            /\ b = Benefit(b.static, b.dynamic)
        <5>1. Benefit(x, y).static = x /\ Benefit(x, y).dynamic = y
          BY Zenon DEF Benefit
        <5>2. b = Benefit(b.static, b.dynamic)
          BY Zenon, BenefitFields
        <5> QED
          BY Zenon, <5>1, <5>2
      <4> HIDE DEF key
      <4>5. ASSUME key[j] = b PROVE x = b.static /\ y = b.dynamic
        BY Zenon, <4>3, <4>4, <4>5
      <4>6. ASSUME x = b.static, y = b.dynamic PROVE key[j] = b
        BY Zenon, <4>3, <4>4, <4>6
      <4> QED
        BY Zenon, <4>1, <4>2, <4>5, <4>6
    <3>2. N \cap {j \in N : key[j] = b} = BenefitAt(s, d, n, b)
      <4> HIDE DEF key
      <4> QED
        BY <3>1 DEF BenefitAt
    <3> QED
      BY <3>2
  <2>3. IsFiniteSet(Benefits)
    BY BenefitsAreFinite
  <2> HIDE DEF key
  <2>4. N \in SUBSET (1 .. n)
    OBVIOUS
  <2>5. Cardinality(N) = SumFunction(benefits)
    <3>1. PICK T \in SUBSET (1 .. n) : T = N
      BY <2>4
    <3>2. \A c \in Benefits : benefits[c] = Cardinality(T \cap {j \in 1 .. n : key[j] = c})
      BY <2>2, <3>1
    <3>3. \A j \in 1 .. n : key[j] \in Benefits
      BY <2>1
    <3>4. Cardinality(T) = SumFunction(benefits)
      BY <1>2, <2>3, <3>2, <3>3, PartsAddUp
    <3> QED
      BY <3>1, <3>4
  <2>6. Cardinality(N) = n
    <3>1. 1 \in Int /\ n \in Int
      BY <1>2
    <3> QED
      BY <1>2, <3>1, FS_Interval
  <2> QED
    BY <2>5, <2>6
<1> QED
  BY <1>3, <1>4, <1>5 DEF BenefitsAgree

-----------------------------------------------------------------------------
(* What the blocks were raised by.                                         *)

LEMMA PositivesOf ==
    ASSUME NEW f
    PROVE  /\ DOMAIN Positives(f) = {x \in DOMAIN f : f[x] > 0}
           /\ \A x \in DOMAIN Positives(f) : Positives(f)[x] = f[x]
BY DEF Positives, RestrictValues, Restrict

LEMMA MeanIs ==
    ASSUME NEW f, IsFiniteSet(DOMAIN f), DOMAIN f # {}
    PROVE  MeanOf(f) = HalfUp(SumOver(f, DOMAIN f), Cardinality(DOMAIN f))
<1>1. SumFunction(f) = SumOver(f, DOMAIN f)
  BY FoldIsSum
<1> QED
  BY <1>1 DEF MeanOf

LEMMA MeanOfZero ==
    ASSUME NEW n \in Nat \ {0}
    PROVE  HalfUp(0, n) <= 0
<1>1. PICK z \in Nat : z = 0
  OBVIOUS
<1>2. PICK h : h = HalfUp(z, n)
  OBVIOUS
<1>3. h \in Nat /\ 2 * (n * h) <= 2 * z + n
  BY <1>2, HalfUpFits
<1> SUFFICES ASSUME h >= 1 PROVE FALSE
  BY <1>1, <1>2, <1>3
<1>4. PICK one \in Nat : one = 1
  OBVIOUS
<1>5. n * one <= n * h
  BY <1>3, <1>4, ProductsRise
<1>6. n * h \in Int
  BY <1>3
<1> QED
  BY <1>1, <1>3, <1>4, <1>5, <1>6

\* The means of the blocks and of what they were raised by.
LEMMA RaisesAddUp ==
    ASSUME NEW trips, NEW sessions, NEW n, AreFollowed(trips, sessions, n), n # 0,
           NEW raised, raised = RaisedOf(trips, sessions)
    PROVE  /\ Gap(MeanOf(LastOfRides(sessions)) - MeanOf(FirstOfRides(sessions)), MeanOf(raised)) <= 1
           /\ MeanOf(raised) <= MeanOf(Positives(raised))
<1> DEFINE N == 1 .. n
<1>1. n \in Nat \ {0} /\ IsFiniteSet(N) /\ Cardinality(N) = n /\ N # {}
  <2>1. n \in Nat \ {0}
    BY DEF AreFollowed
  <2>2. 1 \in Int /\ n \in Int /\ 1 \in N /\ 1 <= n
    BY <2>1
  <2>3. Cardinality(N) = n
    BY <2>2, FS_Interval
  <2>4. IsFiniteSet(N)
    BY <2>1, NumbersAreFinite
  <2> QED
    BY <2>1, <2>2, <2>3, <2>4
<1>2. PICK u : u = FirstOfRides(sessions)
  OBVIOUS
<1>3. PICK v : v = LastOfRides(sessions)
  OBVIOUS
<1>4. DOMAIN u = N /\ DOMAIN v = N /\ DOMAIN raised = N
  BY <1>2, <1>3 DEF FirstOfRides, LastOfRides, RaisedOf, AreFollowed
<1>5. \A i \in N : /\ u[i] \in Nat /\ v[i] \in Nat /\ raised[i] \in Nat
                   /\ u[i] \in Int /\ v[i] \in Int /\ raised[i] = v[i] - u[i]
  <2>1. \A i \in N : u[i] = sessions[i].initial /\ v[i] = sessions[i].block
    BY <1>2, <1>3, <1>4 DEF FirstOfRides, LastOfRides
  <2>2. \A i \in N : raised[i] = sessions[i].block - sessions[i].initial
    BY <1>4 DEF RaisedOf
  <2>3. \A i \in N : /\ sessions[i].initial \in Nat /\ sessions[i].block \in Nat
                     /\ sessions[i].initial <= sessions[i].block
    BY DEF AreFollowed, IsFollowed
  <2> QED
    BY <2>1, <2>2, <2>3
<1> HIDE DEF N
<1>6. PICK a \in Nat : a = SumOver(v, N)
  BY <1>1, <1>5, SumOfNaturals
<1>7. PICK b \in Nat : b = SumOver(u, N)
  BY <1>1, <1>5, SumOfNaturals
<1>8. PICK c \in Nat : c = SumOver(raised, N)
  BY <1>1, <1>5, SumOfNaturals
<1>9. a - b = c
  <2>1. SumOver(raised, N) = SumOver(v, N) - SumOver(u, N)
    BY <1>1, <1>5, SumMinus
  <2> QED
    BY <1>6, <1>7, <1>8, <2>1
<1>10. MeanOf(u) = HalfUp(b, n) /\ MeanOf(v) = HalfUp(a, n) /\ MeanOf(raised) = HalfUp(c, n)
  BY <1>1, <1>4, <1>6, <1>7, <1>8, MeanIs
<1>11. Gap(HalfUp(a, n) - HalfUp(b, n), HalfUp(c, n)) <= 1
  BY <1>1, <1>9, RaisedMeans
<1>12. MeanOf(raised) <= MeanOf(Positives(raised))
  <2>1. PICK t : t = Positives(raised)
    OBVIOUS
  <2> DEFINE T == DOMAIN t
  <2>2. T = {x \in N : raised[x] > 0} /\ \A x \in T : t[x] = raised[x]
    BY <1>4, <2>1, PositivesOf
  <2>3. T \in SUBSET N /\ \A x \in N : raised[x] = IF x \in T THEN raised[x] ELSE 0
    BY <1>5, <2>2
  <2> HIDE DEF T
  <2>4. IsFiniteSet(T) /\ Cardinality(T) \in Nat /\ Cardinality(T) <= n
    BY <1>1, <2>3, FS_Subset, FS_CardinalityType
  <2>5. c = SumOver(raised, T)
    <3>1. \A x \in N : raised[x] \in Int
      BY <1>5
    <3>2. SumOver(raised, N) = SumOver(raised, T)
      BY <1>1, <2>3, <3>1, SumOfSome
    <3> QED
      BY <1>8, <3>2
  <2>6. SumOver(t, T) = c
    BY <2>2, <2>4, <2>5, SumSame
  <2>7. CASE T = {}
    <3>1. c = 0
      BY <2>5, <2>7, SumOfNone
    <3>2. MeanOf(t) = 0
      BY <2>7 DEF MeanOf, T
    <3>3. HalfUp(0, n) <= 0
      BY <1>1, MeanOfZero
    <3> QED
      BY <1>10, <2>1, <3>1, <3>2, <3>3
  <2>8. CASE T # {}
    <3>1. PICK k : k = Cardinality(T)
      OBVIOUS
    <3>2. k \in Nat \ {0} /\ k <= n
      <4>1. k # 0
        BY <2>4, <2>8, <3>1, FS_EmptySet
      <4> QED
        BY <2>4, <3>1, <4>1
    <3>3. MeanOf(t) = HalfUp(c, k)
      BY <2>4, <2>6, <2>8, <3>1, MeanIs DEF T
    <3>4. HalfUp(c, n) <= HalfUp(c, k)
      BY <1>1, <3>2, FewerMeanMore
    <3> QED
      BY <1>10, <2>1, <3>3, <3>4
  <2> QED
    BY <2>7, <2>8
<1> QED
  BY <1>2, <1>3, <1>10, <1>11, <1>12

\* What was asked for, and by which updates.
LEMMA AskedFacts ==
    ASSUME NEW trips, NEW sessions, NEW n, AreFollowed(trips, sessions, n),
           NEW asked, asked = AskedOf(sessions)
    PROVE  /\ IsFiniteSet(DOMAIN asked) /\ \A e \in DOMAIN asked : asked[e] \in Nat
           /\ \A i \in 1 .. n : \A j \in DOMAIN sessions[i].additions :
                <<i, j>> \in DOMAIN asked /\ asked[<<i, j>>] = sessions[i].additions[j]
<1> DEFINE N == 1 .. n
           AskedOn(i) == {i} \X DOMAIN sessions[i].additions
           All == {AskedOn(i) : i \in N}
           E == UNION All
<1>1. n \in Nat /\ DOMAIN sessions = N
  BY DEF AreFollowed
<1>2. E = UNION {{i} \X DOMAIN sessions[i].additions : i \in DOMAIN sessions}
  BY <1>1
<1>3. DOMAIN asked = E /\ \A e \in E : asked[e] = sessions[e[1]].additions[e[2]]
  BY <1>2 DEF AskedOf
<1>4. \A i \in N : /\ DOMAIN sessions[i].additions = 1 .. Len(sessions[i].additions)
                   /\ Len(sessions[i].additions) \in Nat
  <2> SUFFICES ASSUME NEW i \in N
               PROVE  /\ DOMAIN sessions[i].additions = 1 .. Len(sessions[i].additions)
                      /\ Len(sessions[i].additions) \in Nat
    OBVIOUS
  <2>1. PICK q : q = sessions[i].additions
    OBVIOUS
  <2>2. IsList(q)
    BY <2>1 DEF AreFollowed, IsFollowed
  <2>3. DOMAIN q = 1 .. Len(q) /\ Len(q) \in Nat
    BY <2>2, ListFacts
  <2> QED
    BY <2>1, <2>3
<1>5. IsFiniteSet(N)
  BY <1>1, NumbersAreFinite
<1>6. ASSUME NEW i \in N PROVE IsFiniteSet(AskedOn(i))
  <2>1. PICK D : D = DOMAIN sessions[i].additions
    OBVIOUS
  <2>2. IsFiniteSet(D)
    BY <1>4, <2>1, NumbersAreFinite
  <2>3. IsFiniteSet({i})
    BY FS_Singleton
  <2>4. IsFiniteSet({i} \X D)
    BY <2>2, <2>3, FS_Product
  <2> QED
    BY <2>1, <2>4
<1>7. IsFiniteSet(All)
  <2> DEFINE g == [i \in N |-> AskedOn(i)]
  <2>1. g \in Surjection(N, All)
    BY DEF Surjection
  <2> HIDE DEF g, All, N
  <2> QED
    BY <1>5, <2>1, FS_Surjection
<1>8. \A T \in All : IsFiniteSet(T)
  BY <1>6
<1>9. IsFiniteSet(E)
  <2> HIDE DEF All
  <2> QED
    BY <1>7, <1>8, FS_UNION
<1>10. \A e \in E : e[1] \in N /\ e[2] \in DOMAIN sessions[e[1]].additions
  OBVIOUS
<1>11. \A i \in N : \A j \in DOMAIN sessions[i].additions : <<i, j>> \in E
  OBVIOUS
<1>12. \A e \in E : asked[e] \in Nat
  <2>1. \A i \in N : \A j \in DOMAIN sessions[i].additions : sessions[i].additions[j] \in Nat
    BY DEF AreFollowed, IsFollowed
  <2> HIDE DEF E, N
  <2> QED
    BY <1>3, <1>10, <2>1
<1>13. \A i \in N : \A j \in DOMAIN sessions[i].additions : asked[<<i, j>>] = sessions[i].additions[j]
  <2> HIDE DEF E, N
  <2> QED
    BY <1>3, <1>11
<1> HIDE DEF E
<1> QED
  BY <1>3, <1>9, <1>11, <1>12, <1>13

-----------------------------------------------------------------------------
(* What was asked for on the way.                                          *)

LEMMA IncreasesAddUp ==
    ASSUME NEW asked, IsFiniteSet(DOMAIN asked), \A e \in DOMAIN asked : asked[e] \in Nat,
           NEW updates, updates = Cardinality(DOMAIN asked),
           NEW risen, risen = Cardinality(DOMAIN Positives(asked))
    PROVE  /\ updates \in Nat /\ risen \in Nat /\ risen <= updates
           /\ updates > 0 =>
                Gap(ShareOf(updates - risen, updates) + ShareOf(risen, updates), RatioUnit) <= 1
           /\ MedianOf(Positives(asked)) <= Max({0} \cup Range(Positives(asked)))
<1>1. PICK f : f = Positives(asked)
  OBVIOUS
<1> DEFINE A == DOMAIN asked
           B == DOMAIN f
<1>2. B = {x \in A : asked[x] > 0} /\ \A x \in B : f[x] = asked[x]
  BY <1>1, PositivesOf
<1>3. B \subseteq A /\ \A x \in B : f[x] \in Nat
  BY <1>2
<1> HIDE DEF A, B
<1>4. IsFiniteSet(A) /\ IsFiniteSet(B) /\ Cardinality(B) <= Cardinality(A)
      /\ Cardinality(A) \in Nat /\ Cardinality(B) \in Nat
  <2>1. IsFiniteSet(A)
    BY DEF A
  <2>2. IsFiniteSet(B) /\ Cardinality(B) <= Cardinality(A)
    BY <1>3, <2>1, FS_Subset
  <2> QED
    BY <2>1, <2>2, FS_CardinalityType
<1>5. updates \in Nat /\ risen \in Nat /\ risen <= updates
  BY <1>1, <1>4 DEF A, B
<1>6. updates > 0 => Gap(ShareOf(updates - risen, updates) + ShareOf(risen, updates), RatioUnit) <= 1
  <2> SUFFICES ASSUME updates > 0
               PROVE  Gap(ShareOf(updates - risen, updates) + ShareOf(risen, updates), RatioUnit) <= 1
    OBVIOUS
  <2>1. PICK a \in Nat : a = updates - risen
    BY <1>5
  <2>2. a + risen = updates /\ updates \in Nat \ {0}
    BY <1>5, <2>1
  <2>3. Gap(RatioOf(a, updates) + RatioOf(risen, updates), RatioUnit) <= 1
    BY <1>5, <2>2, SharesAddUp
  <2>4. ShareOf(a, updates) = RatioOf(a, updates) /\ ShareOf(risen, updates) = RatioOf(risen, updates)
    BY <2>2 DEF ShareOf
  <2> QED
    BY <2>1, <2>3, <2>4
<1>7. MedianOf(f) <= Max({0} \cup Range(f))
  <2> DEFINE R == Range(f)
             S == {0} \cup R
  <2>1. R \subseteq Nat /\ \A x \in B : f[x] \in R
    BY <1>3 DEF Range, B
  <2>2. IsFiniteSet(R)
    <3> DEFINE g == [x \in B |-> f[x]]
    <3>1. g \in Surjection(B, R)
      BY <2>1 DEF Range, Surjection, B
    <3> HIDE DEF R, g
    <3> QED
      BY <1>4, <3>1, FS_Surjection
  <2>3. IsFiniteSet(S)
    <3> HIDE DEF R
    <3>1. IsFiniteSet(R \cup {0}) /\ R \cup {0} = S
      BY <2>2, FS_AddElement
    <3> QED
      BY <3>1
  <2>4. S \subseteq Int /\ S # {} /\ S \subseteq Nat /\ \A x \in B : f[x] \in S
    <3> HIDE DEF R
    <3> QED
      BY <2>1
  <2> HIDE DEF S
  <2>5. Max(S) \in S /\ \A x \in S : x <= Max(S)
    BY <2>3, <2>4, MaxIsLargest
  <2>6. PICK largest \in Nat : largest = Max(S)
    BY <2>4, <2>5
  <2>7. \A x \in DOMAIN f : f[x] \in Nat /\ f[x] <= largest
    BY <1>3, <2>4, <2>5, <2>6 DEF B
  <2>8. MedianOf(f) <= largest
    BY <1>4, <2>7, MedianIsBounded DEF B
  <2> QED
    BY <2>6, <2>8 DEF S
<1> QED
  BY <1>1, <1>5, <1>6, <1>7

RaisedAt(raised, n) == {i \in 1 .. n : raised[i] # 0}

\* A ride whose block was raised was asked for more.
LEMMA RaisedAreAsked ==
    ASSUME NEW trips, NEW sessions, NEW n, AreFollowed(trips, sessions, n),
           NEW raised, raised = RaisedOf(trips, sessions),
           NEW asked, asked = AskedOf(sessions)
    PROVE  Cardinality(RaisedAt(raised, n)) <= Cardinality(DOMAIN Positives(asked))
<1> DEFINE R == RaisedAt(raised, n)
           B == DOMAIN Positives(asked)
           PlaceOf(i) == CHOOSE j \in DOMAIN sessions[i].additions : sessions[i].additions[j] > 0
           g == [i \in R |-> <<i, PlaceOf(i)>>]
<1>1. /\ IsFiniteSet(DOMAIN asked)
      /\ \A i \in 1 .. n : \A j \in DOMAIN sessions[i].additions :
            <<i, j>> \in DOMAIN asked /\ asked[<<i, j>>] = sessions[i].additions[j]
  BY AskedFacts
<1>2. B = {e \in DOMAIN asked : asked[e] > 0}
  BY PositivesOf
<1>3. IsFiniteSet(B)
  <2>1. B \subseteq DOMAIN asked
    BY <1>2
  <2> HIDE DEF B
  <2> QED
    BY <1>1, <2>1, FS_Subset
<1>4. ASSUME NEW i \in R PROVE <<i, PlaceOf(i)>> \in B
  <2>1. i \in 1 .. n /\ raised[i] # 0
    BY DEF RaisedAt
  <2>2. raised[i] = sessions[i].block - sessions[i].initial
    BY <2>1 DEF RaisedOf, AreFollowed
  <2>3. sessions[i].initial < sessions[i].block
    <3>1. sessions[i].initial \in Nat /\ sessions[i].block \in Nat /\ sessions[i].initial <= sessions[i].block
      BY <2>1 DEF AreFollowed, IsFollowed
    <3> QED
      BY <2>1, <2>2, <3>1
  <2>4. \E j \in DOMAIN sessions[i].additions : sessions[i].additions[j] > 0
    BY <2>1, <2>3 DEF AreFollowed, IsFollowed
  <2>5. PlaceOf(i) \in DOMAIN sessions[i].additions /\ sessions[i].additions[PlaceOf(i)] > 0
    BY <2>4
  <2>6. PICK j : j = PlaceOf(i)
    OBVIOUS
  <2> HIDE DEF PlaceOf, B
  <2> QED
    BY <1>1, <1>2, <2>1, <2>5, <2>6
<1> HIDE DEF PlaceOf
<1>5. g \in Injection(R, B)
  <2>1. g \in [R -> B]
    BY <1>4
  <2>2. ASSUME NEW i \in R, NEW k \in R, g[i] = g[k] PROVE i = k
    BY <2>2
  <2> HIDE DEF g, R, B
  <2> QED
    BY <2>1, <2>2 DEF Injection, IsInjective
<1> HIDE DEF g, R, B
<1>6. Cardinality(R) <= Cardinality(B)
  BY <1>3, <1>5, FS_Injection
<1> QED
  BY <1>6 DEF R, B

\* Of the rides, those whose block was not raised and those whose was.
LEMMA RaisedAreCounted ==
    ASSUME NEW trips, NEW sessions, NEW n, AreFollowed(trips, sessions, n),
           NEW raised, raised = RaisedOf(trips, sessions),
           NEW unchanged, unchanged = Cardinality({i \in DOMAIN raised : raised[i] = 0})
    PROVE  n - unchanged = Cardinality(RaisedAt(raised, n))
<1> DEFINE N == 1 .. n
           U == {i \in DOMAIN raised : raised[i] = 0}
<1>1. n \in Nat /\ DOMAIN raised = N
  BY DEF RaisedOf, AreFollowed
<1>2. IsFiniteSet(N) /\ Cardinality(N) = n
  <2>1. 1 \in Int /\ n \in Int
    BY <1>1
  <2> QED
    BY <1>1, <2>1, NumbersAreFinite, FS_Interval
<1>3. U \cap N = U /\ N \ U = RaisedAt(raised, n)
  BY <1>1 DEF RaisedAt
<1> HIDE DEF U, N
<1>4. Cardinality(N) - Cardinality(U \cap N) = Cardinality(N \ U)
  BY <1>2, CountsDiffer
<1> QED
  BY <1>2, <1>3, <1>4 DEF U

\* The rides that were saved are some of those whose block was raised.
LEMMA SavedAreRaised ==
    ASSUME NEW trips, NEW sessions, NEW n, AreFollowed(trips, sessions, n),
           NEW s, s = FirstEvaluated(trips, sessions), NEW d, d = LastEvaluated(trips, sessions),
           NEW raised, raised = RaisedOf(trips, sessions)
    PROVE  Cardinality(BenefitAt(s, d, n, Benefit(FALSE, TRUE))) <= Cardinality(RaisedAt(raised, n))
<1>1. PICK b : b = Benefit(FALSE, TRUE)
  OBVIOUS
<1>2. b.static = FALSE /\ b.dynamic = TRUE
  BY <1>1, BenefitFields
<1> DEFINE S == BenefitAt(s, d, n, b)
           R == RaisedAt(raised, n)
<1>3. ASSUME NEW i \in S PROVE i \in R
  <2>1. i \in 1 .. n /\ s[i].success = FALSE /\ d[i].success = TRUE
    BY <1>2 DEF BenefitAt
  <2>2. sessions[i].initial < sessions[i].block
    BY <2>1, LastCollects
  <2>3. raised[i] = sessions[i].block - sessions[i].initial
    BY <2>1 DEF RaisedOf, AreFollowed
  <2>4. sessions[i].initial \in Nat /\ sessions[i].block \in Nat
    BY <2>1 DEF AreFollowed, IsFollowed
  <2> QED
    BY <2>1, <2>2, <2>3, <2>4 DEF RaisedAt
<1>4. IsFiniteSet(R)
  <2>1. R \subseteq 1 .. n
    BY DEF RaisedAt
  <2>2. IsFiniteSet(1 .. n)
    BY NumbersAreFinite DEF AreFollowed
  <2> HIDE DEF R
  <2> QED
    BY <2>1, <2>2, FS_Subset
<1>5. S \subseteq R
  BY <1>3
<1> HIDE DEF S, R
<1>6. Cardinality(S) <= Cardinality(R)
  BY <1>4, <1>5, FS_Subset
<1> QED
  BY <1>1, <1>6 DEF S, R

-----------------------------------------------------------------------------
(* All figures of the report.                                              *)

\* The figures of many rides that were followed agree.
LEMMA FiguresAddUp ==
    ASSUME NEW trips, NEW sessions, NEW n, AreFollowed(trips, sessions, n),
           NEW r, r = DynamicReport(trips, sessions), HasMetrics(r.static), HasMetrics(r.dynamic)
    PROVE  DynamicAddsUp(n, r)
<1>1. PICK s : s = FirstEvaluated(trips, sessions)
  OBVIOUS
<1>2. PICK d : d = LastEvaluated(trips, sessions)
  OBVIOUS
<1>3. PICK raised : raised = RaisedOf(trips, sessions)
  OBVIOUS
<1>4. PICK asked : asked = AskedOf(sessions)
  OBVIOUS
<1>5. PICK benefits : benefits = r.benefits
  OBVIOUS
<1>6. IsReportOf(r, s, d, sessions, raised, asked) /\ AreBenefits(benefits, s, d, n)
  BY <1>1, <1>2, <1>3, <1>4, <1>5, ReportIs
<1>7. HasMetrics(Aggregated(s)) /\ HasMetrics(Aggregated(d))
  BY <1>6 DEF IsReportOf
<1>8. /\ n \in Nat \ {0}
      /\ MetricsAddUp(Aggregated(s)) /\ MetricsAddUp(Aggregated(d))
      /\ Aggregated(s).actual = Aggregated(d).actual
      /\ Aggregated(s).blocked <= Aggregated(d).blocked
      /\ Aggregated(s).successes = Cardinality(Successes(s, n))
      /\ Aggregated(d).successes = Cardinality(Successes(d, n))
  BY <1>1, <1>2, <1>7, ColumnsAddUp
<1>9. \A b \in Benefits : benefits[b] = Cardinality(BenefitAt(s, d, n, b))
  BY <1>6 DEF AreBenefits
<1>10. BenefitsAgree(benefits, s, d, n)
  BY <1>1, <1>2, <1>6, BenefitsAddUp
<1>11. Benefit(FALSE, TRUE) \in Benefits
  BY DEF Benefit, Benefits
<1>12. benefits[Benefit(FALSE, TRUE)] <= Cardinality(RaisedAt(raised, n))
  BY <1>1, <1>2, <1>3, <1>9, <1>11, SavedAreRaised
<1>13. n - r.unchanged = Cardinality(RaisedAt(raised, n))
  BY <1>3, <1>6, RaisedAreCounted DEF IsReportOf
<1>14. Cardinality(RaisedAt(raised, n)) <= r.increases
  BY <1>3, <1>4, <1>6, RaisedAreAsked DEF IsReportOf
<1>15. IsFiniteSet(DOMAIN asked) /\ \A e \in DOMAIN asked : asked[e] \in Nat
  BY <1>4, AskedFacts
<1>16. /\ r.increases <= r.updates
       /\ r.updates > 0 => Gap(r.sufficientRate + r.increaseRate, RatioUnit) <= 1
       /\ r.median <= r.largest
  BY <1>6, <1>15, IncreasesAddUp DEF IsReportOf
<1>17. /\ Gap(r.averageFinal - r.averageInitial, r.averageRaise) <= 1
       /\ r.averageRaise <= r.averageTriggered
  BY <1>3, <1>6, <1>8, RaisesAddUp DEF IsReportOf
<1>18. PICK none : none = [static |-> TRUE, dynamic |-> FALSE]
  OBVIOUS
<1>19. PICK saved : saved = [static |-> FALSE, dynamic |-> TRUE]
  OBVIOUS
<1>20. none = Benefit(TRUE, FALSE) /\ saved = Benefit(FALSE, TRUE)
  BY <1>18, <1>19 DEF Benefit
<1>21. r.benefits[none] = 0 /\ SumFunction(r.benefits) = n
  BY <1>5, <1>10, <1>20 DEF BenefitsAgree
<1>22. r.dynamic.successes = r.static.successes + r.benefits[saved]
  BY <1>5, <1>6, <1>8, <1>10, <1>20 DEF IsReportOf, BenefitsAgree
<1>23. r.benefits[saved] <= n - r.unchanged
  BY <1>5, <1>12, <1>13, <1>20
<1>24. n - r.unchanged <= r.increases
  BY <1>13, <1>14
<1>25. MetricsAddUp(r.static) /\ MetricsAddUp(r.dynamic) /\ r.static.actual = r.dynamic.actual
       /\ r.static.blocked <= r.dynamic.blocked
  BY <1>6, <1>8 DEF IsReportOf
<1> QED
  BY <1>16, <1>17, <1>18, <1>19, <1>21, <1>22, <1>23, <1>24, <1>25 DEF DynamicAddsUp

\* A session followed to its end, every increase confirmed.
LEMMA SessionIsFollowed ==
    ASSUME NEW s, NEW trip, NEW i, SessionHolds(s, trip, i, TRUE)
    PROVE  IsFollowed(s)
<1>1. BlockHolds(s, TRUE) /\ AdditionsHold(s)
  BY DEF SessionHolds
<1>2. s.initial \in Nat \ {0} /\ s.block \in Nat /\ s.initial <= s.block
  BY <1>1 DEF BlockHolds
<1>3. s.block \in Nat \ {0}
  BY <1>2
<1> QED
  BY <1>1, <1>2, <1>3 DEF AdditionsHold, IsFollowed

LEMMA FareIsAmount ==
    ASSUME NEW trip, IsTrip(trip)
    PROVE  trip.outcome["actual_amount_paise"].number \in Nat \ {0}
<1>1. IsPaise(trip.outcome["actual_amount_paise"])
  BY DEF IsTrip, IsRecord, IsOutcome
<1> QED
  BY <1>1, PaiseIsAmount

-----------------------------------------------------------------------------
(* The reports of rides under way.                                         *)

LEMMA ParsedUpdates ==
    ASSUME NEW trip, IsParsedTrip(trip)
    PROVE  Len(trip.updates) \in Nat /\ DOMAIN trip.updates = 1 .. Len(trip.updates)
<1>1. PICK q : q = trip.updates
  OBVIOUS
<1>2. q \in Seq({q[i] : i \in DOMAIN q})
  BY <1>1 DEF IsParsedTrip
<1>3. Len(q) \in Nat /\ DOMAIN q = 1 .. Len(q)
  BY <1>2
<1> QED
  BY <1>1, <1>3

\* Every context of the trip has its prediction.
ArePredictedFor(raws, trip) ==
    /\ \A i \in DOMAIN Course(trip) : Course(trip)[i] \in DOMAIN raws
    /\ \A context \in DOMAIN raws : IsRaw(raws[context])

LEMMA ContextsArePredicted ==
    ASSUME NEW trips, NEW M, \A raw \in M : IsRaw(raw), NEW raws \in [ContextsOf(trips) -> M], NEW i \in DOMAIN trips
    PROVE  ArePredictedFor(raws, trips[i])
<1>1. \A context \in DOMAIN raws : IsRaw(raws[context])
  OBVIOUS
<1>2. \A j \in DOMAIN Course(trips[i]) : Course(trips[i])[j] \in ContextsOf(trips)
  BY DEF ContextsOf, Range
<1> QED
  BY <1>1, <1>2 DEF ArePredictedFor

\* A trip that was accepted, ridden to its end.
LEMMA AcceptedIsRidden ==
    ASSUME NEW trip, IsTrip(trip), IsParsedTrip(trip), NEW raws, ArePredictedFor(raws, trip),
           NEW step, NEW profile, NEW confirming,
           NEW s, s = Ridden(trip, Targets(raws, step, profile), confirming), s.stopped = "no"
    PROVE  SessionHolds(s, trip, Len(trip.updates), confirming)
<1>1. PICK n : n = Len(trip.updates)
  OBVIOUS
<1>2. n \in Nat /\ DOMAIN trip.updates = 1 .. n
  BY <1>1, ParsedUpdates
<1>3. PICK targets : targets = Targets(raws, step, profile)
  OBVIOUS
<1>4. TargetsFit(targets, trip)
  BY <1>1, <1>2, <1>3, TargetsAreAmounts DEF ArePredictedFor
<1>5. SessionHolds(s, trip, n, confirming)
  BY <1>1, <1>2, <1>3, <1>4, RiddenHolds
<1> QED
  BY <1>1, <1>5

\* The report of one ride adds up.
LEMMA RideReportAddsUp ==
    ASSUME NEW trip, IsTrip(trip), IsParsedTrip(trip), NEW raws, ArePredictedFor(raws, trip),
           NEW step, NEW profile, NEW confirming,
           NEW s, s = Ridden(trip, Targets(raws, step, profile), confirming), s.stopped = "no",
           NEW r, r.session = s, r.confirming = confirming,
           r.static = (s.initial >= OutcomeRead(trip.outcome).fare),
           r.dynamic = (s.block >= OutcomeRead(trip.outcome).fare)
    PROVE  RideAddsUp(r)
<1>1. SessionHolds(s, trip, Len(trip.updates), confirming)
  BY AcceptedIsRidden
<1>2. SessionAddsUp(s, confirming)
  BY <1>1, SessionsAddUp
<1>3. BlockHolds(s, confirming)
  BY <1>1 DEF SessionHolds
<1>4. PICK a \in Nat : a = s.initial
  BY <1>3 DEF BlockHolds
<1>5. PICK b \in Nat : b = s.block
  BY <1>3 DEF BlockHolds
<1>6. PICK f \in Nat : f = OutcomeRead(trip.outcome).fare
  BY FareIsAmount DEF OutcomeRead
<1>7. a <= b
  BY <1>3, <1>4, <1>5 DEF BlockHolds
<1>8. a >= f => b >= f
  BY <1>7
<1>9. r.static => r.dynamic
  BY <1>4, <1>5, <1>6, <1>8
<1> QED
  BY <1>2, <1>9 DEF RideAddsUp

\* Where none is selected that stopped, none stopped.
StoppedAmong(sessions) == Selected(LAMBDA s : s.stopped # "no", sessions)

LEMMA NoneStopped ==
    ASSUME NEW sessions, NEW n \in Nat, DOMAIN sessions = 1 .. n, StoppedAmong(sessions) = <<>>
    PROVE  \A i \in 1 .. n : sessions[i].stopped = "no"
<1> DEFINE I == {i \in 1 .. n : sessions[i].stopped # "no"}
           places == Increasing(I)
<1>1. StoppedAmong(sessions) = [k \in DOMAIN places |-> sessions[places[k]]]
  BY DEF StoppedAmong, Selected, Places, Increasing
<1>2. DOMAIN places = {}
  <2> HIDE DEF places
  <2>1. DOMAIN StoppedAmong(sessions) = DOMAIN places
    BY <1>1
  <2> QED
    BY <2>1
<1>3. PICK m \in Nat : places \in [1 .. m -> I] /\ \A i \in I : \E k \in 1 .. m : places[k] = i
  BY PlacesAreListed
<1>4. I = {}
  <2> HIDE DEF places, I
  <2> QED
    BY <1>2, <1>3
<1> QED
  BY <1>4

\* What is said of a file of trips.
AreAccepted(trips, n) ==
    /\ DOMAIN trips = 1 .. n /\ Len(trips) = n /\ n \in Nat
    /\ \A i \in 1 .. n : IsTrip(trips[i]) /\ IsParsedTrip(trips[i])

LEMMA TripsReportAddsUp ==
    ASSUME NEW trips, NEW n, AreAccepted(trips, n),
           NEW M, \A raw \in M : IsRaw(raw), NEW raws \in [ContextsOf(trips) -> M],
           NEW step, NEW profile, NEW targets, targets = Targets(raws, step, profile),
           NEW r, r = TripsReport(trips, AllRidden(trips, targets)), r.kind = "rides"
    PROVE  RidesAddUp(r)
<1>1. PICK sessions : sessions = AllRidden(trips, targets)
  OBVIOUS
<1>2. PICK figures : figures = DynamicReport(trips, sessions)
  OBVIOUS
<1>3. n \in Nat /\ DOMAIN trips = 1 .. n /\ Len(trips) = n
  BY DEF AreAccepted
<1>4. /\ StoppedAmong(sessions) = <<>> /\ HasMetrics(figures.static) /\ HasMetrics(figures.dynamic)
      /\ r = [kind |-> "rides", count |-> Len(trips), sessions |-> sessions, figures |-> figures]
  BY <1>1, <1>2 DEF TripsReport, StoppedAmong
<1>5. r.count = n /\ r.sessions = sessions /\ r.figures = figures
  BY <1>3, <1>4
<1>6. DOMAIN sessions = 1 .. n /\ \A i \in 1 .. n : sessions[i] = Ridden(trips[i], targets, TRUE)
  BY <1>1, <1>3 DEF AllRidden
<1>7. \A i \in 1 .. n : sessions[i].stopped = "no"
  BY <1>3, <1>4, <1>6, NoneStopped
<1>8. ASSUME NEW i \in 1 .. n
      PROVE  SessionHolds(sessions[i], trips[i], Len(trips[i].updates), TRUE)
             /\ FareAt(trips, i) \in Nat \ {0}
  <2>1. PICK trip : trip = trips[i]
    OBVIOUS
  <2>2. IsTrip(trip) /\ IsParsedTrip(trip)
    BY <2>1 DEF AreAccepted
  <2>3. ArePredictedFor(raws, trip)
    BY <1>3, <2>1, ContextsArePredicted
  <2>4. PICK s : s = sessions[i]
    OBVIOUS
  <2>5. s = Ridden(trip, Targets(raws, step, profile), TRUE) /\ s.stopped = "no"
    BY <1>6, <1>7, <2>1, <2>4
  <2>6. SessionHolds(s, trip, Len(trip.updates), TRUE)
    BY <2>2, <2>3, <2>5, AcceptedIsRidden
  <2>7. FareAt(trips, i) \in Nat \ {0}
    BY <2>1, <2>2, FareIsAmount DEF FareAt
  <2> QED
    BY <2>1, <2>4, <2>6, <2>7
<1>9. \A i \in 1 .. n : IsFollowed(sessions[i]) /\ SessionAddsUp(sessions[i], TRUE)
  BY <1>8, SessionIsFollowed, SessionsAddUp
<1>10. AreFollowed(trips, sessions, n)
  BY <1>3, <1>6, <1>8, <1>9 DEF AreFollowed
<1>11. DynamicAddsUp(n, figures)
  BY <1>2, <1>4, <1>10, FiguresAddUp
<1> QED
  BY <1>5, <1>6, <1>9, <1>11 DEF RidesAddUp
=============================================================================
