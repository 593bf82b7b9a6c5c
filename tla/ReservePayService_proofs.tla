----------------------- MODULE ReservePayService_proofs -----------------------
(***************************************************************************)
(* The service in front of the provider, for any number of callers, any    *)
(* number of attempts and any failure configuration: what is proved of the *)
(* provider holds behind the service, and the service's answers and audit  *)
(* trail tell the truth about it.                                          *)
(***************************************************************************)
EXTENDS ReserveSettlement, MockReserveProvider_proofs

\* A call that is being tried has a request; a counter is a natural number.
CallsAreTyped ==
    /\ ServiceTypeOK
    /\ \A c \in Callers : Trying(c) => calls[c].request \in Request

-----------------------------------------------------------------------------
(* The provider behind the service *)

\* A step of a caller: a call begins, for any request whatever, or one that is
\* under way is tried once.
ServiceStep ==
    \E c \in Callers : (\E r \in Request : StartCall(c, r)) \/ Attempt(c)

LEMMA NextIsServiceStep ==
    CallsAreTyped /\ [ServiceNext]_serviceVars => [ServiceStep]_serviceVars
BY RequestsAreTyped DEF CallsAreTyped, ServiceTypeOK, ServiceNext, Issue, ServiceStep

\* Every step of the service is a step of the provider, or none.
LEMMA ServiceStepsProvider ==
    CallsAreTyped /\ [ServiceStep]_serviceVars => [ProviderStep]_providerVars
<1> SUFFICES ASSUME CallsAreTyped, [ServiceStep]_serviceVars
             PROVE  [ProviderStep]_providerVars
  OBVIOUS
<1>1. CASE UNCHANGED serviceVars
  BY <1>1 DEF serviceVars, providerVars
<1>2. ASSUME NEW c \in Callers, NEW r, StartCall(c, r) PROVE UNCHANGED providerVars
  BY <1>2 DEF StartCall
<1>3. ASSUME NEW c \in Callers, Attempt(c) PROVE ProviderStep
  <2>1. Trying(c)
    BY <1>3 DEF Attempt, Succeeds, Retries, Fails, Escapes
  <2>2. calls[c].request \in Request
    BY <2>1 DEF CallsAreTyped
  <2> QED
    BY <1>3, <2>2 DEF Attempt, Succeeds, Retries, Fails, Escapes, ProviderStep
<1> QED
  BY <1>1, <1>2, <1>3 DEF ServiceStep

LEMMA AuditCountsOne ==
    ASSUME NEW trails \in [Operations -> [Keys -> Trail]], NEW op \in Operations, NEW k \in Keys
    PROVE  /\ [trails EXCEPT ![op][k].requested = @ + 1] \in [Operations -> [Keys -> Trail]]
           /\ [trails EXCEPT ![op][k].succeeded = @ + 1] \in [Operations -> [Keys -> Trail]]
           /\ [trails EXCEPT ![op][k].failed = @ + 1] \in [Operations -> [Keys -> Trail]]
<1>1. /\ trails[op][k] \in Trail /\ trails[op] \in [Keys -> Trail]
      /\ trails[op][k].requested + 1 \in Nat /\ trails[op][k].succeeded + 1 \in Nat
      /\ trails[op][k].failed + 1 \in Nat
  BY DEF Trail
<1>2. /\ [trails[op][k] EXCEPT !.requested = @ + 1] \in Trail
      /\ [trails[op][k] EXCEPT !.succeeded = @ + 1] \in Trail
      /\ [trails[op][k] EXCEPT !.failed = @ + 1] \in Trail
  BY <1>1 DEF Trail
<1> QED
  BY <1>1, <1>2

LEMMA ServiceTypeInductive == CallsAreTyped /\ [ServiceStep]_serviceVars => CallsAreTyped'
<1> SUFFICES ASSUME CallsAreTyped, [ServiceStep]_serviceVars PROVE CallsAreTyped'
  OBVIOUS
<1>1. TypeOK'
  BY ServiceStepsProvider, TypeInductive DEF CallsAreTyped, ServiceTypeOK
<1>2. /\ calls \in [Callers -> Call] /\ audit \in [Operations -> [Keys -> Trail]]
      /\ MaxAttempts \in Nat \ {0}
  BY ServiceAssumption DEF CallsAreTyped, ServiceTypeOK
<1>3. ASSUME NEW c \in Callers, NEW new \in Call, calls' = [calls EXCEPT ![c] = new],
             new.phase = "trying" => new.request \in Request,
             audit' \in [Operations -> [Keys -> Trail]]
      PROVE  CallsAreTyped'
  <2>1. calls' \in [Callers -> Call]
    BY <1>2, <1>3
  <2>2. \A d \in Callers : calls'[d] = IF d = c THEN new ELSE calls[d]
    BY <1>2, <1>3
  <2> QED
    BY <1>1, <1>3, <2>1, <2>2 DEF CallsAreTyped, ServiceTypeOK, Trying
<1>4. CASE UNCHANGED serviceVars
  BY <1>1, <1>4 DEF CallsAreTyped, ServiceTypeOK, Trying, serviceVars
<1>5. ASSUME NEW c \in Callers, NEW r \in Request, StartCall(c, r) PROVE CallsAreTyped'
  <2>2. r.op \in Operations /\ r.key \in Keys
    BY RequestFields
  <2> DEFINE new == [phase |-> "trying", request |-> r, attempt |-> 1]
  <2>3. new \in Call /\ new.phase = "trying" /\ new.request = r
    BY <1>2, <2>2 DEF Call, Phases
  <2>4. audit' \in [Operations -> [Keys -> Trail]]
    BY <1>2, <1>5, <2>2, AuditCountsOne DEF StartCall
  <2>5. calls' = [calls EXCEPT ![c] = new]
    BY <1>5 DEF StartCall
  <2> HIDE DEF new
  <2> QED
    BY <1>3, <2>2, <2>3, <2>4, <2>5
<1>6. ASSUME NEW c \in Callers, Trying(c), NEW phase \in {"ok", "failed", "escaped"},
             Return(c, phase), audit' \in [Operations -> [Keys -> Trail]]
      PROVE  CallsAreTyped'
  <2> DEFINE new == [calls[c] EXCEPT !.phase = phase]
  <2>1. new \in Call /\ new.phase = phase
    BY <1>2 DEF Call, Phases
  <2>2. calls' = [calls EXCEPT ![c] = new]
    BY <1>6 DEF Return
  <2> HIDE DEF new
  <2> QED
    BY <1>3, <1>6, <2>1, <2>2
<1>7. ASSUME NEW c \in Callers, Attempt(c) PROVE CallsAreTyped'
  <2>1. Trying(c)
    BY <1>7 DEF Attempt, Succeeds, Retries, Fails, Escapes
  <2>2. calls[c].request \in Request
    BY <2>1 DEF CallsAreTyped
  <2>3. calls[c].request.op \in Operations /\ calls[c].request.key \in Keys
    BY <2>2, RequestFields
  <2>4. CASE Succeeds(c)
    BY <1>2, <1>6, <2>1, <2>3, <2>4, AuditCountsOne DEF Succeeds
  <2>5. CASE Fails(c)
    BY <1>2, <1>6, <2>1, <2>3, <2>5, AuditCountsOne DEF Fails
  <2>6. CASE Escapes(c)
    BY <1>2, <1>6, <2>1, <2>6 DEF Escapes
  <2>7. CASE Retries(c)
    <3> DEFINE new == [calls[c] EXCEPT !.attempt = @ + 1]
    <3>1. calls[c].attempt + 1 \in 0 .. MaxAttempts
      BY <1>2, <2>7 DEF Retries, Call
    <3>2. new \in Call /\ new.request = calls[c].request
      BY <1>2, <3>1 DEF Call
    <3>3. calls' = [calls EXCEPT ![c] = new] /\ audit' = audit
      BY <2>7 DEF Retries
    <3> HIDE DEF new
    <3> QED
      BY <1>2, <1>3, <2>2, <3>2, <3>3
  <2> QED
    BY <1>7, <2>4, <2>5, <2>6, <2>7 DEF Attempt
<1> QED
  BY <1>4, <1>5, <1>7 DEF ServiceStep

LEMMA ServiceTypeInit == ServiceInit => CallsAreTyped
<1> SUFFICES ASSUME ServiceInit PROVE CallsAreTyped
  OBVIOUS
<1>1. TypeOK
  BY ProviderAssumption DEF ServiceInit, ProviderInit, TypeOK
<1>2. calls \in [Callers -> Call]
  BY ServiceAssumption DEF ServiceInit, Call, Phases
<1>3. audit \in [Operations -> [Keys -> Trail]]
  BY DEF ServiceInit, Trail
<1>4. \A c \in Callers : ~Trying(c)
  BY DEF ServiceInit, Trying
<1> QED
  BY <1>1, <1>2, <1>3, <1>4 DEF CallsAreTyped, ServiceTypeOK

\* Calls, audit trail and provider are always well typed.
THEOREM ServiceTypeCorrect == ServiceSpec => []ServiceTypeOK
<1>1. CallsAreTyped => ServiceTypeOK
  BY DEF CallsAreTyped
<1> QED
  BY <1>1, ServiceTypeInit, NextIsServiceStep, ServiceTypeInductive, PTL DEF ServiceSpec

\* What the provider promises, and that calls are typed.
ProviderKept == CallsAreTyped /\ TypeOK /\ BlocksAreConsistent /\ OneResultPerKey

LEMMA ProviderKeptAtFirst == ServiceInit => ProviderKept
<1>1. ServiceInit => BlocksAreConsistent /\ OneResultPerKey
  BY DEF ServiceInit, ProviderInit, BlocksAreConsistent, OneResultPerKey, Results
<1> QED
  BY <1>1, ServiceTypeInit DEF ProviderKept, CallsAreTyped, ServiceTypeOK

LEMMA ProviderKeptInductive == ProviderKept /\ [ServiceStep]_serviceVars => ProviderKept'
BY ServiceTypeInductive, ServiceStepsProvider, TypeInductive, ConsistencyInductive,
   OneResultPerKeyInductive DEF ProviderKept

LEMMA ProviderIsKept == ServiceSpec => []ProviderKept /\ [][ServiceStep]_serviceVars
<1>1. ProviderKept => CallsAreTyped
  BY DEF ProviderKept
<1> QED
  BY <1>1, NextIsServiceStep, ProviderKeptAtFirst, ProviderKeptInductive, PTL DEF ServiceSpec

\* Behind the service, too, the money moves as the ledger allows: retries and
\* interleaved calls add no movement of money of their own.
THEOREM ServiceImplementsLedger == ServiceSpec => ImplementsLedger
<1>1. ServiceInit => Ledger!Init
  BY DEF ServiceInit, ProviderInit, Ledger!Init
<1>2. ProviderKept /\ [ServiceStep]_serviceVars => [Ledger!Next]_View
  BY ServiceStepsProvider, LedgerStep DEF ProviderKept
<1> QED
  BY <1>1, <1>2, ProviderIsKept, PTL DEF ServiceSpec, ImplementsLedger, Ledger!Spec, View

-----------------------------------------------------------------------------
(* What callers are told *)

\* A request the provider turns down has not been executed under its key.
LEMMA TurnedDownIsNotExecuted ==
    ASSUME TypeOK, NEW r, FailsTransiently(r) \/ IsRefused(r) \/ Overflows(r)
    PROVE  registry' = registry /\ Results' = Results /\ \A e \in Results : e.request # r
<1>1. registry' = registry /\ Results' = Results
  BY OthersFileNothing
<1>2. CASE Conflicted(r)
  <2> SUFFICES ASSUME NEW k \in DOMAIN registry, registry[k].request = r PROVE FALSE
    BY <1>1 DEF Results
  <2>1. Scope(r) = k
    BY DEF TypeOK
  <2> QED
    BY <1>2, <2>1 DEF Conflicted
<1>3. CASE ~Conflicted(r)
  <2>1. Fresh(r)
    BY <1>3 DEF FailsTransiently, TimesOut, Unavailable, IsRefused, Rejected, Denied,
                Insufficient, Overflows, Reaches
  <2> QED
    BY <1>1, <2>1, FreshHasNone
<1> QED
  BY <1>2, <1>3

\* A caller told that its call failed can rely on it, whatever other callers do
\* and however often the call was tried.
THEOREM FailuresAreNotExecuted == ServiceSpec => FailureMeansNotExecuted
<1> DEFINE A == \A c \in Callers :
                   Trying(c) /\ calls'[c].phase \in {"failed", "escaped"} =>
                       \A e \in Results' : e.request # calls[c].request
<1>1. ProviderKept /\ [ServiceStep]_serviceVars => [A]_serviceVars
  <2> SUFFICES ASSUME ProviderKept, ServiceStep, NEW c \in Callers, Trying(c),
                      calls'[c].phase \in {"failed", "escaped"}
               PROVE  \A e \in Results' : e.request # calls[c].request
    OBVIOUS
  <2>1. calls \in [Callers -> Call]
    BY DEF ProviderKept, CallsAreTyped, ServiceTypeOK
  <2>2. ASSUME NEW d \in Callers, NEW r, StartCall(d, r) PROVE FALSE
    BY <2>1, <2>2 DEF StartCall, Trying
  <2>3. ASSUME NEW d \in Callers, Attempt(d), d # c PROVE FALSE
    <3>1. calls'[c] = calls[c]
      BY <2>1, <2>3 DEF Attempt, Succeeds, Retries, Fails, Escapes, Return
    <3> QED
      BY <3>1 DEF Trying
  <2>4. Attempt(c)
    BY <2>2, <2>3 DEF ServiceStep
  <2>5. Fails(c) \/ Escapes(c)
    <3>1. CASE Succeeds(c)
      BY <2>1, <3>1 DEF Succeeds, Return, Call
    <3>2. CASE Retries(c)
      BY <2>1, <3>2 DEF Retries, Trying, Call
    <3> QED
      BY <2>4, <3>1, <3>2 DEF Attempt
  <2> QED
    BY <2>5, TurnedDownIsNotExecuted DEF Fails, Escapes, ProviderKept
<1> QED
  BY <1>1, ProviderIsKept, PTL DEF ServiceSpec, FailureMeansNotExecuted

-----------------------------------------------------------------------------
(* The audit trail and the money *)

Executed(op, k) == <<op, k>> \in DOMAIN registry

\* One event more of one kind: what every trail then reads.
LEMMA ReadRequested ==
    ASSUME NEW trails \in [Operations -> [Keys -> Trail]], NEW new,
           NEW op \in Operations, NEW k \in Keys, NEW p \in Operations, NEW l \in Keys,
           new = [trails EXCEPT ![op][k].requested = @ + 1]
    PROVE  new[p][l] = IF p = op /\ l = k
                       THEN [trails[p][l] EXCEPT !.requested = @ + 1] ELSE trails[p][l]
<1>1. CASE p = op
  BY <1>1
<1>2. CASE p # op
  BY <1>2
<1> QED
  BY <1>1, <1>2

LEMMA ReadSucceeded ==
    ASSUME NEW trails \in [Operations -> [Keys -> Trail]], NEW new,
           NEW op \in Operations, NEW k \in Keys, NEW p \in Operations, NEW l \in Keys,
           new = [trails EXCEPT ![op][k].succeeded = @ + 1]
    PROVE  new[p][l] = IF p = op /\ l = k
                       THEN [trails[p][l] EXCEPT !.succeeded = @ + 1] ELSE trails[p][l]
<1>1. CASE p = op
  BY <1>1
<1>2. CASE p # op
  BY <1>2
<1> QED
  BY <1>1, <1>2

LEMMA ReadFailed ==
    ASSUME NEW trails \in [Operations -> [Keys -> Trail]], NEW new,
           NEW op \in Operations, NEW k \in Keys, NEW p \in Operations, NEW l \in Keys,
           new = [trails EXCEPT ![op][k].failed = @ + 1]
    PROVE  new[p][l] = IF p = op /\ l = k
                       THEN [trails[p][l] EXCEPT !.failed = @ + 1] ELSE trails[p][l]
<1>1. CASE p = op
  BY <1>1
<1>2. CASE p # op
  BY <1>2
<1> QED
  BY <1>1, <1>2

\* How the step of a caller changes the trails.
LEMMA AttemptAudits ==
    ASSUME CallsAreTyped, NEW c \in Callers, Attempt(c)
    PROVE  LET r == calls[c].request IN
           /\ r \in Request /\ r.op \in Operations /\ r.key \in Keys /\ Trying(c)
           /\ \/ Retries(c) /\ audit' = audit
              \/ Escapes(c) /\ audit' = audit
              \/ Fails(c) /\ audit' = [audit EXCEPT ![r.op][r.key].failed = @ + 1]
              \/ Succeeds(c) /\ audit' = [audit EXCEPT ![r.op][r.key].succeeded = @ + 1]
<1>1. Trying(c)
  BY DEF Attempt, Succeeds, Retries, Fails, Escapes
<1>2. calls[c].request \in Request
  BY <1>1 DEF CallsAreTyped
<1>3. calls[c].request.op \in Operations /\ calls[c].request.key \in Keys
  BY <1>2, RequestFields
<1> QED
  BY <1>1, <1>2, <1>3 DEF Attempt, Succeeds, Retries, Fails, Escapes

LEMMA AuditMatchesInductive ==
    ProviderKept /\ AuditMatchesProvider /\ [ServiceStep]_serviceVars => AuditMatchesProvider'
<1> SUFFICES ASSUME ProviderKept, AuditMatchesProvider, [ServiceStep]_serviceVars,
                    NEW op \in Operations, NEW k \in Keys
             PROVE  audit'[op][k].succeeded > 0 <=> Executed(op, k)'
  BY DEF AuditMatchesProvider, Executed
<1>1. audit[op][k].succeeded > 0 <=> Executed(op, k)
  BY DEF AuditMatchesProvider, Executed
<1>2. /\ audit \in [Operations -> [Keys -> Trail]] /\ CallsAreTyped /\ TypeOK
      /\ audit[op][k] \in Trail
  BY DEF ProviderKept, CallsAreTyped, ServiceTypeOK
<1>3. ASSUME audit'[op][k].succeeded = audit[op][k].succeeded, registry' = registry
      PROVE  audit'[op][k].succeeded > 0 <=> Executed(op, k)'
  BY <1>1, <1>3 DEF Executed
<1>4. CASE UNCHANGED serviceVars
  BY <1>3, <1>4 DEF serviceVars
<1>5. ASSUME NEW c \in Callers, NEW r \in Request, StartCall(c, r)
      PROVE  audit'[op][k].succeeded > 0 <=> Executed(op, k)'
  <2>2. r.op \in Operations /\ r.key \in Keys
    BY RequestFields
  <2>3. audit' = [audit EXCEPT ![r.op][r.key].requested = @ + 1] /\ registry' = registry
    BY <1>5 DEF StartCall, providerVars
  <2>4. audit'[op][k].succeeded = audit[op][k].succeeded
    <3>1. audit'[op][k] \in {audit[op][k], [audit[op][k] EXCEPT !.requested = @ + 1]}
      BY <1>2, <2>2, <2>3, ReadRequested
    <3> QED
      BY <1>2, <3>1 DEF Trail
  <2> QED
    BY <1>3, <2>3, <2>4
<1>6. ASSUME NEW c \in Callers, Retries(c) \/ Escapes(c), audit' = audit
      PROVE  audit'[op][k].succeeded > 0 <=> Executed(op, k)'
  BY <1>2, <1>3, <1>6, TurnedDownIsNotExecuted DEF Retries, Escapes
<1>7. ASSUME NEW c \in Callers, Attempt(c), Fails(c),
             audit' = [audit EXCEPT ![calls[c].request.op][calls[c].request.key].failed = @ + 1]
      PROVE  audit'[op][k].succeeded > 0 <=> Executed(op, k)'
  <2> DEFINE r == calls[c].request
  <2>1. r.op \in Operations /\ r.key \in Keys
    BY <1>2, <1>7, AttemptAudits
  <2>2. registry' = registry
    BY <1>2, <1>7, TurnedDownIsNotExecuted DEF Fails
  <2>3. audit'[op][k] \in {audit[op][k], [audit[op][k] EXCEPT !.failed = @ + 1]}
    BY <1>2, <1>7, <2>1, ReadFailed
  <2>4. audit'[op][k].succeeded = audit[op][k].succeeded
    BY <1>2, <2>3 DEF Trail
  <2> QED
    BY <1>3, <2>2, <2>4
<1>8. ASSUME NEW c \in Callers, Attempt(c), Succeeds(c),
             audit' = [audit EXCEPT
                         ![calls[c].request.op][calls[c].request.key].succeeded = @ + 1]
      PROVE  audit'[op][k].succeeded > 0 <=> Executed(op, k)'
  <2> DEFINE r == calls[c].request
  <2>1. r.op \in Operations /\ r.key \in Keys
    BY <1>2, <1>8, AttemptAudits
  <2>2. /\ <<r.op, r.key>> \in DOMAIN registry'
        /\ \/ registry' = registry
           \/ DOMAIN registry' = DOMAIN registry \cup {<<r.op, r.key>>}
    BY <1>8, SuccessIsFiled DEF Succeeds, Scope
  <2>3. CASE op = r.op /\ k = r.key
    <3>1. audit'[op][k] = [audit[op][k] EXCEPT !.succeeded = @ + 1]
      BY <1>2, <1>8, <2>1, <2>3, ReadSucceeded, ZenonT(60)
    <3>2. audit'[op][k].succeeded > 0
      BY <1>2, <3>1 DEF Trail
    <3>3. Executed(op, k)'
      BY <2>2, <2>3 DEF Executed
    <3> QED
      BY <3>2, <3>3
  <2>4. CASE ~(op = r.op /\ k = r.key)
    <3>1. audit'[op][k] = audit[op][k]
      BY <1>2, <1>8, <2>1, <2>4, ReadSucceeded
    <3>2. Executed(op, k)' <=> Executed(op, k)
      BY <2>2, <2>4 DEF Executed
    <3> QED
      BY <1>1, <3>1, <3>2
  <2> QED
    BY <2>3, <2>4
<1>9. ASSUME NEW c \in Callers, Attempt(c)
      PROVE  audit'[op][k].succeeded > 0 <=> Executed(op, k)'
  BY <1>2, <1>6, <1>7, <1>8, <1>9, AttemptAudits
<1> QED
  BY <1>4, <1>5, <1>9 DEF ServiceStep

\* A success is in the audit trail exactly if the provider executed something
\* under its key, for any number of interleaved calls and retries.
THEOREM AuditTellsTheMoney == ServiceSpec => []AuditMatchesProvider
<1>1. ServiceInit => AuditMatchesProvider
  BY DEF ServiceInit, ProviderInit, AuditMatchesProvider
<1> QED
  BY <1>1, AuditMatchesInductive, ProviderIsKept, PTL DEF ServiceSpec

-----------------------------------------------------------------------------
(* The audit trail and the calls *)

Flying(op, k) == {c \in Callers : /\ Trying(c)
                                  /\ calls[c].request.op = op
                                  /\ calls[c].request.key = k}

FinitelyManyFly == \A op \in Operations, k \in Keys : IsFiniteSet(Flying(op, k))

Audited == FinitelyManyFly /\ OutcomesAreAudited

\* The trail of one operation and key says what its calls in flight are.
Told(op, k) ==
    audit[op][k].requested = Ended(audit[op][k]) + Cardinality(Flying(op, k))

LEMMA AuditedInductive == CallsAreTyped /\ Audited /\ [ServiceStep]_serviceVars => Audited'
<1> SUFFICES ASSUME CallsAreTyped, Audited, [ServiceStep]_serviceVars,
                    NEW op \in Operations, NEW k \in Keys
             PROVE  IsFiniteSet(Flying(op, k)') /\ (op # "increase" => Told(op, k)')
  BY DEF Audited, FinitelyManyFly, OutcomesAreAudited, Told, InFlight, Flying
<1> DEFINE F == Flying(op, k)
           a == audit[op][k]
           Goal == IsFiniteSet(Flying(op, k)') /\ (op # "increase" => Told(op, k)')
<1>1. /\ IsFiniteSet(F) /\ (op # "increase" => a.requested = Ended(a) + Cardinality(F))
      /\ Cardinality(F) \in Nat
  BY FS_CardinalityType
  DEF Audited, FinitelyManyFly, OutcomesAreAudited, InFlight, Flying
<1>2. /\ audit \in [Operations -> [Keys -> Trail]] /\ calls \in [Callers -> Call]
      /\ a \in Trail
  BY DEF CallsAreTyped, ServiceTypeOK
<1>3. a.requested \in Nat /\ a.succeeded \in Nat /\ a.failed \in Nat
  BY <1>2 DEF Trail
<1>4. ASSUME Flying(op, k)' = F, audit'[op][k] = a PROVE Goal
  BY <1>1, <1>4 DEF Told
<1>5. CASE UNCHANGED serviceVars
  BY <1>4, <1>5 DEF serviceVars, Flying, Trying
<1>6. ASSUME NEW c \in Callers, NEW r \in Request, StartCall(c, r) PROVE Goal
  <2>2. r.op \in Operations /\ r.key \in Keys
    BY RequestFields
  <2>3. /\ calls' = [calls EXCEPT ![c] = [phase |-> "trying", request |-> r, attempt |-> 1]]
        /\ audit' = [audit EXCEPT ![r.op][r.key].requested = @ + 1]
        /\ c \notin F
    BY <1>6 DEF StartCall, Flying
  <2>4. CASE op = r.op /\ k = r.key
    <3>1. Flying(op, k)' = F \cup {c}
      BY <1>2, <2>3, <2>4 DEF Flying, Trying
    <3>2. IsFiniteSet(F \cup {c}) /\ Cardinality(F \cup {c}) = Cardinality(F) + 1
      BY <1>1, <2>3, FS_AddElement
    <3>3. audit'[op][k] = [a EXCEPT !.requested = @ + 1]
      BY <1>2, <2>2, <2>3, <2>4, ReadRequested
    <3>4. /\ audit'[op][k].requested = a.requested + 1
          /\ audit'[op][k].succeeded = a.succeeded /\ audit'[op][k].failed = a.failed
      BY <1>2, <3>3 DEF Trail
    <3> QED
      BY <1>1, <1>3, <3>1, <3>2, <3>4 DEF Told, Ended
  <2>5. CASE ~(op = r.op /\ k = r.key)
    <3>1. Flying(op, k)' = F
      BY <1>2, <2>3, <2>5 DEF Flying, Trying
    <3>2. audit'[op][k] = a
      BY <1>2, <2>2, <2>3, <2>5, ReadRequested
    <3> QED
      BY <1>4, <3>1, <3>2
  <2> QED
    BY <2>4, <2>5
<1>7. ASSUME NEW c \in Callers, Attempt(c) PROVE Goal
  <2> DEFINE r == calls[c].request
  <2>1. r.op \in Operations /\ r.key \in Keys /\ Trying(c)
    BY <1>7, AttemptAudits
  <2>2. CASE Retries(c) /\ audit' = audit
    <3>1. calls' = [calls EXCEPT ![c].attempt = @ + 1]
      BY <2>2 DEF Retries
    <3>2. \A d \in Callers : calls'[d].phase = calls[d].phase /\ calls'[d].request = calls[d].request
      BY <1>2, <3>1 DEF Call
    <3>3. Flying(op, k)' = F
      BY <3>2 DEF Flying, Trying
    <3> QED
      BY <1>4, <2>2, <3>3
  <2>3. ASSUME NEW phase \in {"ok", "failed", "escaped"}, Return(c, phase)
        PROVE  /\ ~Trying(c)'
               /\ \A d \in Callers : d # c => calls'[d] = calls[d]
    BY <1>2, <2>3 DEF Return, Trying, Call
  <2>4. ASSUME NEW phase \in {"ok", "failed", "escaped"}, Return(c, phase)
        PROVE  Flying(op, k)' = IF op = r.op /\ k = r.key THEN F \ {c} ELSE F
    BY <2>1, <2>3, <2>4 DEF Flying, Trying
  <2>5. CASE Escapes(c) /\ audit' = audit
    <3>1. r.op = "increase" /\ Return(c, "escaped")
      BY <2>5 DEF Escapes, Overflows
    <3>2. CASE op = "increase"
      <4>1. IsFiniteSet(F \ {c})
        BY <1>1, FS_RemoveElement
      <4> QED
        BY <1>1, <2>4, <3>1, <3>2, <4>1
    <3>3. CASE op # "increase"
      BY <1>4, <2>4, <2>5, <3>1, <3>3
    <3> QED
      BY <3>2, <3>3
  <2>6. ASSUME NEW phase \in {"ok", "failed", "escaped"}, Return(c, phase),
               \/ audit' = [audit EXCEPT ![r.op][r.key].failed = @ + 1]
               \/ audit' = [audit EXCEPT ![r.op][r.key].succeeded = @ + 1]
        PROVE  Goal
    <3>1. CASE op = r.op /\ k = r.key
      <4>1. c \in F /\ Flying(op, k)' = F \ {c}
        BY <2>1, <2>4, <2>6, <3>1 DEF Flying
      <4>2. IsFiniteSet(F \ {c}) /\ Cardinality(F \ {c}) = Cardinality(F) - 1
        BY <1>1, <4>1, FS_RemoveElement
      <4>3. \/ audit'[op][k] = [a EXCEPT !.failed = @ + 1]
            \/ audit'[op][k] = [a EXCEPT !.succeeded = @ + 1]
        <5>1. CASE audit' = [audit EXCEPT ![r.op][r.key].failed = @ + 1]
          BY <1>2, <2>1, <3>1, <5>1, ReadFailed, ZenonT(60)
        <5>2. CASE audit' = [audit EXCEPT ![r.op][r.key].succeeded = @ + 1]
          BY <1>2, <2>1, <3>1, <5>2, ReadSucceeded, ZenonT(60)
        <5> QED
          BY <2>6, <5>1, <5>2
      <4>4. /\ audit'[op][k].requested = a.requested
            /\ Ended(audit'[op][k]) = Ended(a) + 1
        BY <1>2, <1>3, <4>3 DEF Trail, Ended
      <4> QED
        BY <1>1, <1>3, <4>1, <4>2, <4>4 DEF Told, Ended
    <3>2. CASE ~(op = r.op /\ k = r.key)
      <4>1. Flying(op, k)' = F
        BY <2>4, <2>6, <3>2
      <4>2. audit'[op][k] = a
        BY <1>2, <2>1, <2>6, <3>2, ReadFailed, ReadSucceeded, SMTT(60)
      <4> QED
        BY <1>4, <4>1, <4>2
    <3> QED
      BY <3>1, <3>2
  <2>7. CASE Fails(c) /\ audit' = [audit EXCEPT ![r.op][r.key].failed = @ + 1]
    BY <2>6, <2>7 DEF Fails
  <2>8. CASE Succeeds(c) /\ audit' = [audit EXCEPT ![r.op][r.key].succeeded = @ + 1]
    BY <2>6, <2>8 DEF Succeeds
  <2> QED
    BY <1>7, <2>2, <2>5, <2>7, <2>8, AttemptAudits
<1> QED
  BY <1>5, <1>6, <1>7 DEF ServiceStep

\* Every REQUESTED event of a create, debit or release is followed by exactly
\* one outcome once its call is over, whatever the callers and attempts.
THEOREM OutcomesAreTold == ServiceSpec => []OutcomesAreAudited
<1>1. ServiceInit => Audited
  <2> SUFFICES ASSUME ServiceInit, NEW op \in Operations, NEW k \in Keys
               PROVE  IsFiniteSet(Flying(op, k)) /\ Told(op, k)
    BY DEF Audited, FinitelyManyFly, OutcomesAreAudited, Told, InFlight, Flying
  <2>1. Flying(op, k) = {}
    BY DEF ServiceInit, Flying, Trying
  <2>2. audit[op][k].requested = 0 /\ Ended(audit[op][k]) = 0
    BY DEF ServiceInit, Ended
  <2> QED
    BY <2>1, <2>2, FS_EmptySet DEF Told
<1>2. Audited => OutcomesAreAudited
  BY DEF Audited
<1>3. ProviderKept => CallsAreTyped
  BY DEF ProviderKept
<1> QED
  BY <1>1, <1>2, <1>3, AuditedInductive, ProviderIsKept, PTL DEF ServiceSpec

-----------------------------------------------------------------------------
(* Settlement: what a filed result says of its block for good *)

\* A result names a block there is, the one its request named; a release left
\* nothing, and a block a result left nothing of is as the result shows it.
RecordsFit ==
    \A e \in Results :
        /\ e.id \in DOMAIN blocks
        /\ e.request.op # "create" => e.id = e.request.block
        /\ e.request.op = "release" => e.snapshot.remaining = 0
        /\ e.snapshot.remaining = 0 => blocks[e.id] = e.snapshot

\* A block with something left is active, and one with nothing left is not.
LEMMA SpentIsInactive ==
    ASSUME NEW b \in Block, Consistent(b), b.remaining = 0
    PROVE  ~Active(b)
<1>1. b.authorized \in 1 .. MaxAmount /\ MaxAmount \in Nat
  BY ProviderAssumption DEF Consistent
<1>2. b.authorized > 0
  BY <1>1
<1> QED
  BY <1>2 DEF Consistent, StatusAgrees, Active

\* A request that is executed files one result, which shows its block as it then is.
LEMMA ExecutionFiles ==
    ASSUME TypeOK, NEW r \in Request, Executes(r)
    PROVE  \E e : /\ Results' = Results \cup {e} /\ e.request = r /\ Fresh(r)
                  /\ e.id \in DOMAIN blocks' /\ blocks'[e.id] = e.snapshot
                  /\ DOMAIN blocks \subseteq DOMAIN blocks'
                  /\ \A i \in DOMAIN blocks : i # e.id => blocks'[i] = blocks[i]
                  /\ IF r.op = "create"
                     THEN e.id \notin DOMAIN blocks
                     ELSE /\ e.id = r.block /\ r.block \in DOMAIN blocks
                          /\ Active(blocks[r.block])
                          /\ \/ r.op = "increase" /\ e.snapshot = Increased(blocks[r.block], r.amount)
                             \/ r.op = "debit" /\ e.snapshot = Debited(blocks[r.block], r.amount)
                             \/ r.op = "release" /\ e.snapshot = Released(blocks[r.block], r.amount)
<1>1. blocks \in Seq(Block) /\ Fresh(r)
  BY DEF TypeOK, Executes, CreateBlock, IncreaseBlock, DebitBlock, ReleaseBlock, Reaches
<1>2. CASE CreateBlock(r)
  <2> DEFINE b == [txn |-> r.txn, authorized |-> r.amount, remaining |-> r.amount,
                   debited |-> 0, released |-> 0, status |-> "AUTHORIZED"]
             e == [request |-> r, id |-> Len(blocks) + 1, snapshot |-> b]
  <2>1. /\ r.op = "create" /\ blocks' = Append(blocks, b) /\ Results' = Results \cup {e}
        /\ e.request = r /\ e.id = Len(blocks) + 1 /\ e.snapshot = b
    BY <1>1, <1>2, FilingKeepsResults DEF CreateBlock
  <2> HIDE DEF b, e
  <2>2. /\ e.id \in DOMAIN blocks' /\ blocks'[e.id] = b /\ e.id \notin DOMAIN blocks
        /\ DOMAIN blocks \subseteq DOMAIN blocks'
        /\ \A i \in DOMAIN blocks : blocks'[i] = blocks[i]
    BY <1>1, <2>1
  <2> QED
    BY <1>1, <2>1, <2>2
<1>3. CASE IncreaseBlock(r) \/ DebitBlock(r) \/ ReleaseBlock(r)
  <2>1. PICK b : /\ Store(r, b) /\ r.block \in DOMAIN blocks /\ Active(blocks[r.block])
                 /\ \/ r.op = "increase" /\ b = Increased(blocks[r.block], r.amount)
                    \/ r.op = "debit" /\ b = Debited(blocks[r.block], r.amount)
                    \/ r.op = "release" /\ b = Released(blocks[r.block], r.amount)
    BY <1>3 DEF IncreaseBlock, DebitBlock, ReleaseBlock, Operable
  <2> DEFINE e == [request |-> r, id |-> r.block, snapshot |-> b]
  <2>2. /\ blocks' = [blocks EXCEPT ![r.block] = b] /\ Results' = Results \cup {e}
        /\ e.request = r /\ e.id = r.block /\ e.snapshot = b
    BY <1>1, <2>1, FilingKeepsResults DEF Store
  <2> HIDE DEF e
  <2>3. /\ e.id \in DOMAIN blocks' /\ blocks'[e.id] = b
        /\ DOMAIN blocks \subseteq DOMAIN blocks'
        /\ \A i \in DOMAIN blocks : i # e.id => blocks'[i] = blocks[i]
    BY <1>1, <2>1, <2>2
  <2>4. r.op # "create"
    BY <2>1
  <2> QED
    BY <1>1, <2>1, <2>2, <2>3, <2>4
<1> QED
  BY <1>2, <1>3 DEF Executes

\* A step of the provider executes one request, or leaves blocks and results alone.
LEMMA StepExecutes ==
    ASSUME [ProviderStep]_providerVars
    PROVE  \/ blocks' = blocks /\ Results' = Results
           \/ \E r \in Request : Executes(r)
BY OthersFileNothing DEF ProviderStep, providerVars, Results

\* Blocks stay, debits are never taken back, and a block with nothing left
\* never changes again.
LEMMA BlocksStay ==
    ASSUME TypeOK, BlocksAreConsistent, [ProviderStep]_providerVars, NEW id \in DOMAIN blocks
    PROVE  /\ id \in DOMAIN blocks'
           /\ blocks'[id].debited >= blocks[id].debited
           /\ blocks[id].remaining = 0 => blocks'[id] = blocks[id]
<1>1. blocks[id] \in Block /\ blocks[id].debited \in Int /\ Consistent(blocks[id])
  BY BlockAmountsAreNumbers DEF BlocksAreConsistent
<1>2. CASE blocks' = blocks
  BY <1>1, <1>2
<1>3. ASSUME NEW r \in Request, Executes(r)
      PROVE  /\ id \in DOMAIN blocks'
             /\ blocks'[id].debited >= blocks[id].debited
             /\ blocks[id].remaining = 0 => blocks'[id] = blocks[id]
  <2>1. PICK e : /\ e.request = r /\ e.id \in DOMAIN blocks' /\ blocks'[e.id] = e.snapshot
                 /\ DOMAIN blocks \subseteq DOMAIN blocks'
                 /\ \A i \in DOMAIN blocks : i # e.id => blocks'[i] = blocks[i]
                 /\ IF r.op = "create"
                    THEN e.id \notin DOMAIN blocks
                    ELSE /\ e.id = r.block /\ r.block \in DOMAIN blocks
                         /\ Active(blocks[r.block])
                         /\ \/ r.op = "increase" /\ e.snapshot = Increased(blocks[r.block], r.amount)
                            \/ r.op = "debit" /\ e.snapshot = Debited(blocks[r.block], r.amount)
                            \/ r.op = "release" /\ e.snapshot = Released(blocks[r.block], r.amount)
    BY <1>3, ExecutionFiles
  <2>2. CASE id # e.id
    BY <1>1, <2>1, <2>2
  <2>3. CASE id = e.id
    <3>1. /\ r.op \in {"increase", "debit", "release"} /\ Active(blocks[id])
          /\ \/ blocks'[id] = Increased(blocks[id], r.amount)
             \/ blocks'[id] = Debited(blocks[id], r.amount)
             \/ blocks'[id] = Released(blocks[id], r.amount)
      BY <2>1, <2>3, RequestFields
    <3>2. r.amount \in Nat
      BY RequestFields
    <3>3. blocks'[id].debited >= blocks[id].debited
      BY <1>1, <3>1, <3>2, OperationsMoveOneAmount
    <3> QED
      BY <1>1, <2>1, <2>3, <3>1, <3>3, SpentIsInactive
  <2> QED
    BY <2>2, <2>3
<1> QED
  BY <1>2, <1>3, StepExecutes

LEMMA RecordsFitInductive ==
    TypeOK /\ BlocksAreConsistent /\ RecordsFit /\ [ProviderStep]_providerVars => RecordsFit'
<1> SUFFICES ASSUME TypeOK, BlocksAreConsistent, RecordsFit, [ProviderStep]_providerVars,
                    NEW e \in Results'
             PROVE  /\ e.id \in DOMAIN blocks'
                    /\ e.request.op # "create" => e.id = e.request.block
                    /\ e.request.op = "release" => e.snapshot.remaining = 0
                    /\ e.snapshot.remaining = 0 => blocks'[e.id] = e.snapshot
  BY DEF RecordsFit
<1>1. CASE e \in Results
  <2>1. /\ e.id \in DOMAIN blocks
        /\ e.request.op # "create" => e.id = e.request.block
        /\ e.request.op = "release" => e.snapshot.remaining = 0
        /\ e.snapshot.remaining = 0 => blocks[e.id] = e.snapshot
    BY <1>1 DEF RecordsFit
  <2> QED
    BY <2>1, BlocksStay
<1>2. CASE e \notin Results
  <2>1. PICK r \in Request : Executes(r)
    BY <1>2, StepExecutes
  <2>2. /\ e.request = r /\ e.id \in DOMAIN blocks' /\ blocks'[e.id] = e.snapshot
        /\ r.op # "create" => e.id = r.block
        /\ r.op = "release" => /\ r.block \in DOMAIN blocks
                               /\ e.snapshot = Released(blocks[r.block], r.amount)
    BY <1>2, <2>1, ExecutionFiles
  <2>3. r.op = "release" => e.snapshot.remaining = 0
    <3>1. r.block \in DOMAIN blocks => blocks[r.block] \in Block
      BY BlockAmountsAreNumbers
    <3> QED
      BY <2>2, <3>1 DEF Released, Block
  <2> QED
    BY <2>2, <2>3
<1> QED
  BY <1>1, <1>2

-----------------------------------------------------------------------------
(* Settlement: the steps of a settlement are steps of the service *)

LEMMA SettlementFields ==
    ASSUME NEW s \in Settlements
    PROVE  /\ s.key \in SettlementKeys /\ s.txn \in Transactions /\ s.block \in BlockIds
           /\ s.fare \in FaresFor[s.key] /\ s.fare \in Nat \ {0}
<1>1. PICK k \in SettlementKeys :
          s \in [key : {k}, txn : Transactions, block : BlockIds, fare : FaresFor[k]]
  BY DEF Settlements
<1>2. FaresFor[k] \subseteq 1 .. MaxAmount /\ MaxAmount \in Nat
  BY SettlementAssumption, ProviderAssumption
<1>3. /\ s.key \in SettlementKeys /\ s.txn \in Transactions /\ s.block \in BlockIds
      /\ s.fare \in FaresFor[s.key] /\ s.fare \in 1 .. MaxAmount
  BY <1>1, <1>2
<1> QED
  BY <1>2, <1>3

\* What a settlement asks of the service are requests.
LEMMA SettlementRequests ==
    ASSUME NEW s \in Settlements, NEW a \in Nat \ {0}
    PROVE  DebitRequest(s, a) \in Request /\ ReleaseRequest(s, a) \in Request
<1>1. SubKey(s.key, "debit") \in Keys /\ SubKey(s.key, "release") \in Keys
  BY SettlementFields, SettlementAssumption DEF SubKey
<1>2. s.txn \in Transactions /\ s.block \in BlockIds
  BY SettlementFields
<1>3. {"debit", "release"} \subseteq Operations \ {"create"}
  BY DEF Operations
<1> QED
  BY <1>1, <1>2, <1>3 DEF DebitRequest, ReleaseRequest, Request, BlockRequest

Debiting  == [phase : {"debiting"}, request : Settlements, due : Nat \ {0}, prior : Nat]
Releasing == [phase : {"releasing"}, request : Settlements, due : Nat, prior : Nat]

\* What was debited before and what is newly due make up the fare, unless more
\* than the fare had been debited already.
MakesFare(s, prior, newly) ==
    prior + newly = s.fare \/ (newly = 0 /\ prior >= s.fare)

\* A settlement's progress fits the call its caller made last.
Fits(p, r, ids) ==
    \/ p \in {NotSettling, Broken}
    \/ /\ p \in Debiting
       /\ r = DebitRequest(p.request, p.due)
       /\ p.prior + p.due = p.request.fare
       /\ p.request.block \in ids
    \/ /\ p \in Releasing
       /\ \E a \in Nat \ {0} : r = ReleaseRequest(p.request, a)
       /\ MakesFare(p.request, p.prior, p.due)
       /\ p.request.block \in ids

SettlingFits ==
    /\ settling = [c \in Callers |-> settling[c]]
    /\ \A c \in Callers : Fits(settling[c], calls[c].request, DOMAIN blocks)

\* A call that was answered has its answer filed.
AnswersAreFiled ==
    \A c \in Callers : calls[c].phase = "ok" =>
        \E e \in Results : e.request = calls[c].request

Paid(e) ==
    e.verdict = "SETTLED" =>
        /\ e.request.block \in DOMAIN blocks
        /\ blocks[e.request.block].debited = e.request.fare
        /\ blocks[e.request.block].remaining = 0

SettledArePaid == \A e \in settled : Paid(e)

SettlementKept ==
    ProviderKept /\ RecordsFit /\ AnswersAreFiled /\ SettlingFits /\ SettledArePaid

\* The phases that are under way have their records.
LEMMA PhaseFits ==
    ASSUME NEW p, NEW r, NEW ids, Fits(p, r, ids)
    PROVE  /\ p.phase = "debiting" =>
                  /\ p \in Debiting /\ r = DebitRequest(p.request, p.due)
                  /\ p.prior + p.due = p.request.fare /\ p.request.block \in ids
           /\ p.phase = "releasing" =>
                  /\ p \in Releasing /\ \E a \in Nat \ {0} : r = ReleaseRequest(p.request, a)
                  /\ MakesFare(p.request, p.prior, p.due) /\ p.request.block \in ids
<1>1. CASE p \in {NotSettling, Broken}
  BY <1>1 DEF NotSettling, Broken
<1>2. CASE p \in Debiting
  BY <1>2 DEF Fits, Debiting, Releasing, NotSettling, Broken
<1>3. CASE p \in Releasing
  BY <1>3 DEF Fits, Debiting, Releasing, NotSettling, Broken
<1> QED
  BY <1>1, <1>2, <1>3 DEF Fits

\* A result is filed under its request's operation and key.
LEMMA ResultOfRequest ==
    ASSUME TypeOK, NEW e \in Results
    PROVE  registry[Scope(e.request)] = e
BY DEF TypeOK, Results

\* The block a call was answered with is the one on file.
LEMMA ResultIsFiled ==
    ASSUME TypeOK, AnswersAreFiled, NEW c \in Callers, calls[c].phase = "ok"
    PROVE  /\ Result(c) \in Block
           /\ \E e \in Results : e.request = calls[c].request /\ e.snapshot = Result(c)
<1>1. PICK e \in Results : e.request = calls[c].request
  BY DEF AnswersAreFiled
<1>2. Result(c) = e.snapshot
  BY <1>1, ResultOfRequest DEF Result
<1> QED
  BY <1>1, <1>2, ResultsAreTyped DEF Record

\* What a call does to the calls.
LEMMA CallsMove ==
    ASSUME CallsAreTyped, NEW c \in Callers
    PROVE  /\ \A r : StartCall(c, r) =>
                  /\ calls'[c].request = r /\ calls'[c].phase = "trying" /\ ~Trying(c)
                  /\ \A d \in Callers : d # c => calls'[d] = calls[d]
           /\ Attempt(c) =>
                  /\ Trying(c)
                  /\ \A d \in Callers : calls'[d].request = calls[d].request
                  /\ \A d \in Callers : d # c => calls'[d] = calls[d]
                  /\ \/ Succeeds(c) /\ calls'[c].phase = "ok"
                     \/ calls'[c].phase # "ok" /\ ~Succeeds(c) /\ blocks' = blocks /\ Results' = Results
<1>1. calls \in [Callers -> Call]
  BY DEF CallsAreTyped, ServiceTypeOK
<1>2. ASSUME NEW r, StartCall(c, r)
      PROVE  /\ calls'[c].request = r /\ calls'[c].phase = "trying" /\ ~Trying(c)
             /\ \A d \in Callers : d # c => calls'[d] = calls[d]
  BY <1>1, <1>2 DEF StartCall
<1>3. ASSUME NEW phase \in {"ok", "failed", "escaped"}, Return(c, phase)
      PROVE  /\ \A d \in Callers : calls'[d].request = calls[d].request
             /\ \A d \in Callers : d # c => calls'[d] = calls[d]
             /\ calls'[c].phase = phase
  BY <1>1, <1>3 DEF Return, Call
<1>4. ASSUME NEW r, FailsTransiently(r) \/ IsRefused(r) \/ Overflows(r)
      PROVE  blocks' = blocks /\ Results' = Results
  BY <1>4, OthersFileNothing
<1> DEFINE Goal == /\ Trying(c)
                   /\ \A d \in Callers : calls'[d].request = calls[d].request
                   /\ \A d \in Callers : d # c => calls'[d] = calls[d]
                   /\ \/ Succeeds(c) /\ calls'[c].phase = "ok"
                      \/ calls'[c].phase # "ok" /\ ~Succeeds(c) /\ blocks' = blocks /\ Results' = Results
<1>5. ASSUME Succeeds(c) PROVE Goal
  BY <1>3, <1>5 DEF Succeeds
<1>6. ASSUME Fails(c) PROVE Goal
  <2>1. Return(c, "failed") /\ Trying(c) /\ blocks' = blocks /\ Results' = Results
    BY <1>4, <1>6 DEF Fails
  <2>2. calls'[c].phase = "failed"
    BY <1>3, <2>1
  <2>3. ~Succeeds(c)
    BY <1>3, <2>2 DEF Succeeds
  <2> QED
    BY <1>3, <2>1, <2>2, <2>3
<1>7. ASSUME Escapes(c) PROVE Goal
  <2>1. Return(c, "escaped") /\ Trying(c) /\ blocks' = blocks /\ Results' = Results
    BY <1>4, <1>7 DEF Escapes
  <2>2. calls'[c].phase = "escaped"
    BY <1>3, <2>1
  <2>3. ~Succeeds(c)
    BY <1>3, <2>2 DEF Succeeds
  <2> QED
    BY <1>3, <2>1, <2>2, <2>3
<1>8. ASSUME Retries(c) PROVE Goal
  <2>1. calls' = [calls EXCEPT ![c].attempt = @ + 1] /\ Trying(c) /\ blocks' = blocks /\ Results' = Results
    BY <1>4, <1>8 DEF Retries
  <2>2. calls'[c].phase = "trying" /\ \A d \in Callers : calls'[d].request = calls[d].request
    BY <1>1, <2>1 DEF Trying, Call
  <2>3. ~Succeeds(c)
    BY <1>3, <2>2 DEF Succeeds
  <2> QED
    BY <1>1, <2>1, <2>2, <2>3
<1>9. Attempt(c) => Goal
  BY <1>5, <1>6, <1>7, <1>8 DEF Attempt
<1> QED
  BY <1>2, <1>9

\* A settlement's steps begin calls of the service, try them, or leave the
\* service alone.
LEMMA ReleaseRestMoves ==
    ASSUME NEW c \in Callers, NEW s \in Settlements, NEW prior, NEW newly, NEW final \in Block,
           ReleaseRest(c, s, prior, newly, final)
    PROVE  [ServiceStep]_serviceVars
<1>1. CASE final.remaining > 0
  <2>1. final.remaining \in Nat \ {0}
    BY <1>1 DEF Block
  <2> QED
    BY <1>1, <2>1, SettlementRequests DEF ReleaseRest, ServiceStep
<1>2. CASE ~(final.remaining > 0)
  BY <1>2 DEF ReleaseRest, serviceVars
<1> QED
  BY <1>1, <1>2

LEMMA SettlementMoves ==
    ASSUME SettlementKept, [SettlementNext]_settlementVars
    PROVE  [ServiceStep]_serviceVars
<1>1. TypeOK /\ CallsAreTyped /\ AnswersAreFiled /\ SettlingFits
  BY DEF SettlementKept, ProviderKept
<1>2. ASSUME NEW c \in Callers, ClientIssues(c) PROVE ServiceStep
  BY <1>1, <1>2, RequestsAreTyped DEF ClientIssues, Issue, ServiceStep
<1>3. ASSUME NEW c \in Callers, SettleCalled(c) PROVE [ServiceStep]_serviceVars
  <2>1. PICK s \in Settlements :
            \/ SettlementAnswered(c, s) \/ StatusRefused(c, s)
            \/ SettleShort(c, s) \/ SettleDebit(c, s) \/ SettleNothingDue(c, s)
    BY <1>3 DEF SettleCalled
  <2>2. CASE SettlementAnswered(c, s) \/ StatusRefused(c, s) \/ SettleShort(c, s)
    BY <2>2 DEF SettlementAnswered, StatusRefused, SettleShort, settlementVars, serviceVars
  <2>3. CASE SettleDebit(c, s)
    <3>1. Due(s, blocks[s.block]) \in Nat \ {0}
      <4>1. blocks[s.block].remaining \in Int
        BY <1>1, <2>3, BlockAmountsAreNumbers DEF SettleDebit, SettlementStarts
      <4> QED
        BY <2>3, <4>1 DEF SettleDebit
    <3> QED
      BY <2>3, <3>1, SettlementRequests DEF SettleDebit, ServiceStep
  <2>4. CASE SettleNothingDue(c, s)
    <3>1. blocks[s.block] \in Block
      BY <1>1, <2>4, BlockAmountsAreNumbers DEF SettleNothingDue, SettlementStarts
    <3> QED
      BY <2>4, <3>1, ReleaseRestMoves DEF SettleNothingDue
  <2> QED
    BY <2>1, <2>2, <2>3, <2>4
<1>4. ASSUME NEW c \in Callers, SettlementGoesOn(c) PROVE [ServiceStep]_serviceVars
  <2>1. CASE Attempt(c)
    BY <2>1 DEF ServiceStep
  <2>2. CASE DebitReturns(c)
    <3>1. settling[c] \in Debiting /\ Result(c) \in Block
      BY <1>1, <2>2, PhaseFits, ResultIsFiled DEF SettlingFits, DebitReturns
    <3> QED
      BY <2>2, <3>1, ReleaseRestMoves DEF DebitReturns, Debiting
  <2>3. CASE ReleaseReturns(c) \/ SettlementAborts(c)
    BY <2>3 DEF ReleaseReturns, SettlementAborts, serviceVars
  <2> QED
    BY <1>4, <2>1, <2>2, <2>3 DEF SettlementGoesOn
<1>5. CASE UNCHANGED settlementVars
  BY <1>5 DEF settlementVars, serviceVars
<1> QED
  BY <1>2, <1>3, <1>4, <1>5 DEF SettlementNext

-----------------------------------------------------------------------------
(* Settlement: a ride reported settled is paid *)

\* What a step of the service leaves of blocks, results and answers.
LEMMA ServiceLeaves ==
    ASSUME ProviderKept, RecordsFit, AnswersAreFiled, [ServiceStep]_serviceVars
    PROVE  /\ ProviderKept' /\ RecordsFit' /\ AnswersAreFiled'
           /\ [ProviderStep]_providerVars
           /\ Results \subseteq Results' /\ DOMAIN blocks \subseteq DOMAIN blocks'
<1>1. [ProviderStep]_providerVars /\ ProviderKept' /\ CallsAreTyped
  BY ServiceStepsProvider, ProviderKeptInductive DEF ProviderKept
<1>2. RecordsFit' /\ Results \subseteq Results'
  BY <1>1, RecordsFitInductive, ResultsStep DEF ProviderKept
<1>3. DOMAIN blocks \subseteq DOMAIN blocks'
  BY <1>1, BlocksStay DEF ProviderKept
<1>4. ASSUME NEW d \in Callers, calls'[d].phase = "ok"
      PROVE  \E e \in Results' : e.request = calls'[d].request
  <2>1. CASE calls'[d] = calls[d]
    BY <1>2, <1>4, <2>1 DEF AnswersAreFiled
  <2>2. CASE calls'[d] # calls[d]
    <3>1. ServiceStep
      BY <2>2 DEF serviceVars
    <3>2. PICK c \in Callers : (\E r \in Request : StartCall(c, r)) \/ Attempt(c)
      BY <3>1 DEF ServiceStep
    <3>3. c = d /\ Attempt(d)
      BY <1>1, <1>4, <2>2, <3>2, CallsMove
    <3>4. Succeeds(d) /\ calls'[d].request = calls[d].request
      BY <1>1, <1>4, <3>3, CallsMove
    <3> QED
      BY <3>4, SuccessIsFiled DEF Succeeds
  <2> QED
    BY <2>1, <2>2
<1> QED
  BY <1>1, <1>2, <1>3, <1>4 DEF AnswersAreFiled

\* Callers whose settlement does not move keep what fits them.
LEMMA FitStays ==
    ASSUME NEW p, NEW r, NEW ids, Fits(p, r, ids), NEW q, NEW more, ids \subseteq more,
           q = r \/ p \in {NotSettling, Broken}
    PROVE  Fits(p, q, more)
BY DEF Fits

\* One caller's settlement moves on and its record fits; the others' stay.
LEMMA FittingStep ==
    ASSUME SettlingFits, DOMAIN blocks \subseteq DOMAIN blocks', NEW c \in Callers, NEW p,
           Enter(c, p), Fits(p, calls'[c].request, DOMAIN blocks'),
           \A d \in Callers : d # c => calls'[d].request = calls[d].request
    PROVE  SettlingFits'
<1>1. /\ settling' = [d \in Callers |-> IF d = c THEN p ELSE settling[d]]
  BY DEF Enter, SettlingFits
<1>2. settling' = [d \in Callers |-> settling'[d]]
  BY <1>1
<1>3. ASSUME NEW d \in Callers PROVE Fits(settling'[d], calls'[d].request, DOMAIN blocks')
  <2>1. CASE d = c
    BY <1>1, <2>1
  <2>2. CASE d # c
    <3>1. settling'[d] = settling[d] /\ calls'[d].request = calls[d].request
      BY <1>1, <2>2
    <3>2. Fits(settling[d], calls[d].request, DOMAIN blocks)
      BY DEF SettlingFits
    <3> QED
      BY <3>1, <3>2, FitStays
  <2> QED
    BY <2>1, <2>2
<1> QED
  BY <1>2, <1>3 DEF SettlingFits

\* A ride paid for stays paid for.
LEMMA PaidStays ==
    ASSUME TypeOK, BlocksAreConsistent, [ProviderStep]_providerVars, NEW e, Paid(e)
    PROVE  Paid(e)'
<1>1. e.request.block \in DOMAIN blocks /\ blocks[e.request.block].remaining = 0 =>
          /\ e.request.block \in DOMAIN blocks'
          /\ blocks'[e.request.block] = blocks[e.request.block]
  BY BlocksStay
<1> QED
  BY <1>1 DEF Paid

\* A settlement that concludes on a block with nothing left has paid the fare,
\* if it says so.
LEMMA ConclusionPays ==
    ASSUME SettlementKept, NEW c \in Callers, NEW s \in Settlements, NEW prior \in Nat,
           NEW newly \in Nat, NEW final \in Block, Conclude(c, s, prior, newly, final),
           UNCHANGED <<blocks, registry, failures, calls, audit>>,
           MakesFare(s, prior, newly), s.block \in DOMAIN blocks,
           final = blocks[s.block], final.remaining = 0
    PROVE  SettlingFits' /\ SettledArePaid'
<1>1. SettlingFits
  BY DEF SettlementKept
<1>2. CASE ResultHolds(s, prior, newly, final)
  <2> DEFINE verdict == IF prior > s.fare THEN "OVERPAID" ELSE "SETTLED"
             e == [request |-> s, verdict |-> verdict]
  <2>1. /\ settled' = {f \in settled : f.request.key # s.key} \cup {e}
        /\ Enter(c, NotSettling)
    BY <1>2 DEF Conclude, FileSettlement
  <2>2. Paid(e)'
    <3>1. verdict = "SETTLED" => prior <= s.fare
      BY SettlementFields
    <3>2. verdict = "SETTLED" => final.debited = s.fare
      BY <1>2, <3>1, SettlementFields DEF ResultHolds, MakesFare
    <3>3. e.request = s /\ e.verdict = verdict
      OBVIOUS
    <3> HIDE DEF e, verdict
    <3> QED
      BY <3>2, <3>3 DEF Paid
  <2>3. \A f \in settled : Paid(f)'
    BY DEF SettlementKept, SettledArePaid, Paid
  <2>4. Fits(NotSettling, calls'[c].request, DOMAIN blocks')
    BY DEF Fits
  <2> QED
    BY <1>1, <2>1, <2>2, <2>3, <2>4, FittingStep DEF SettledArePaid
<1>3. CASE ~ResultHolds(s, prior, newly, final)
  <2>1. settled' = settled /\ Enter(c, Broken)
    BY <1>3 DEF Conclude
  <2>2. Fits(Broken, calls'[c].request, DOMAIN blocks')
    BY DEF Fits
  <2> QED
    BY <1>1, <2>1, <2>2, FittingStep DEF SettlementKept, SettledArePaid, Paid
<1> QED
  BY <1>2, <1>3

\* Releasing the rest, or concluding because nothing is left, keeps the records.
LEMMA ReleaseRestKeeps ==
    ASSUME SettlementKept, NEW c \in Callers, NEW s \in Settlements, NEW prior \in Nat,
           NEW newly \in Nat, NEW final \in Block, ReleaseRest(c, s, prior, newly, final),
           MakesFare(s, prior, newly), s.block \in DOMAIN blocks,
           final.remaining = 0 => final = blocks[s.block]
    PROVE  SettlingFits' /\ SettledArePaid'
<1>1. final.remaining \in Nat
  BY DEF Block
<1>2. CASE final.remaining > 0
  <2> DEFINE p == [phase |-> "releasing", request |-> s, due |-> newly, prior |-> prior]
             r == ReleaseRequest(s, final.remaining)
  <2>1. StartCall(c, r) /\ Enter(c, p) /\ settled' = settled
    BY <1>2 DEF ReleaseRest
  <2>2. /\ p \in Releasing /\ p.request = s /\ p.due = newly /\ p.prior = prior
    BY DEF Releasing
  <2>3. /\ calls'[c].request = r /\ blocks' = blocks
        /\ \A d \in Callers : d # c => calls'[d].request = calls[d].request
    BY <2>1, CallsMove DEF SettlementKept, ProviderKept, StartCall, providerVars, Results
  <2>4. final.remaining \in Nat \ {0}
    BY <1>1, <1>2
  <2>5. Fits(p, r, DOMAIN blocks')
    <3> HIDE DEF p
    <3> QED
      BY <2>2, <2>3, <2>4 DEF Fits
  <2> HIDE DEF p, r
  <2>6. SettlingFits'
    BY <2>1, <2>3, <2>5, FittingStep DEF SettlementKept
  <2> QED
    BY <2>1, <2>3, <2>6 DEF SettlementKept, SettledArePaid, Paid
<1>3. CASE ~(final.remaining > 0)
  <2>1. /\ Conclude(c, s, prior, newly, final)
        /\ UNCHANGED <<blocks, registry, failures, calls, audit>>
    BY <1>3 DEF ReleaseRest
  <2>2. final.remaining = 0
    BY <1>1, <1>3
  <2> QED
    BY <2>1, <2>2, ConclusionPays
<1> QED
  BY <1>2, <1>3

\* A result that left nothing shows the block as it is.
LEMMA EmptyResultIsCurrent ==
    ASSUME SettlementKept, NEW c \in Callers, calls[c].phase = "ok",
           calls[c].request.op # "create"
    PROVE  /\ Result(c) \in Block
           /\ Result(c).remaining = 0 => Result(c) = blocks[calls[c].request.block]
           /\ calls[c].request.op = "release" => Result(c).remaining = 0
<1>1. /\ Result(c) \in Block
      /\ \E e \in Results : e.request = calls[c].request /\ e.snapshot = Result(c)
  BY ResultIsFiled DEF SettlementKept, ProviderKept
<1> QED
  BY <1>1 DEF SettlementKept, RecordsFit

LEMMA SettlementKeptInductive ==
    SettlementKept /\ [SettlementNext]_settlementVars => SettlementKept'
<1> SUFFICES ASSUME SettlementKept, [SettlementNext]_settlementVars PROVE SettlementKept'
  OBVIOUS
<1>1. [ServiceStep]_serviceVars
  BY SettlementMoves
<1>2. /\ ProviderKept /\ RecordsFit /\ AnswersAreFiled /\ SettlingFits /\ SettledArePaid
      /\ TypeOK /\ BlocksAreConsistent /\ CallsAreTyped
  BY DEF SettlementKept, ProviderKept
<1>3. /\ ProviderKept' /\ RecordsFit' /\ AnswersAreFiled' /\ [ProviderStep]_providerVars
      /\ DOMAIN blocks \subseteq DOMAIN blocks'
  BY <1>1, <1>2, ServiceLeaves
<1>4. SUFFICES SettlingFits' /\ SettledArePaid'
  BY <1>3 DEF SettlementKept
<1>5. ASSUME settled' = settled PROVE SettledArePaid'
  BY <1>2, <1>3, <1>5, PaidStays DEF SettledArePaid
\* A caller's call moves and no settlement does.
<1>6. ASSUME NEW c \in Callers, UNCHANGED <<settling, settled>>,
             \A d \in Callers : d # c => calls'[d].request = calls[d].request,
             calls'[c].request = calls[c].request \/ settling[c] \in {NotSettling, Broken}
      PROVE  SettlingFits' /\ SettledArePaid'
  <2>1. ASSUME NEW d \in Callers PROVE Fits(settling'[d], calls'[d].request, DOMAIN blocks')
    <3>1. Fits(settling[d], calls[d].request, DOMAIN blocks)
      BY <1>2 DEF SettlingFits
    <3>2. calls'[d].request = calls[d].request \/ settling[d] \in {NotSettling, Broken}
      BY <1>6
    <3>3. Fits(settling[d], calls'[d].request, DOMAIN blocks')
      BY <1>3, <3>1, <3>2, FitStays
    <3> QED
      BY <1>6, <3>3
  <2> QED
    BY <1>2, <1>5, <1>6, <2>1 DEF SettlingFits
<1>7. ASSUME NEW c \in Callers, ClientIssues(c) PROVE SettlingFits' /\ SettledArePaid'
  <2>1. PICK r : StartCall(c, r)
    BY <1>7 DEF ClientIssues, Issue
  <2>2. UNCHANGED <<settling, settled>> /\ settling[c] \in {NotSettling, Broken}
    BY <1>7 DEF ClientIssues, Idle
  <2>3. \A d \in Callers : d # c => calls'[d].request = calls[d].request
    BY <1>2, <2>1, CallsMove
  <2> QED
    BY <1>6, <2>2, <2>3
<1>8. ASSUME NEW c \in Callers, Attempt(c), UNCHANGED <<settling, settled>>
      PROVE  SettlingFits' /\ SettledArePaid'
  BY <1>2, <1>6, <1>8, CallsMove
<1>9. ASSUME UNCHANGED settlementVars PROVE SettlingFits' /\ SettledArePaid'
  BY <1>2, <1>5, <1>9 DEF settlementVars, SettlingFits
<1>10. ASSUME NEW c \in Callers, NEW s \in Settlements, SettleShort(c, s)
       PROVE  SettlingFits' /\ SettledArePaid'
  <2> DEFINE e == [request |-> s, verdict |-> "INSUFFICIENT"]
  <2>1. /\ settled' = {f \in settled : f.request.key # s.key} \cup {e}
        /\ Enter(c, NotSettling) /\ UNCHANGED <<blocks, calls>>
    BY <1>10 DEF SettleShort, FileSettlement
  <2>2. Fits(NotSettling, calls'[c].request, DOMAIN blocks')
    BY DEF Fits
  <2>3. SettlingFits'
    BY <1>2, <2>1, <2>2, FittingStep
  <2>4. Paid(e)'
    BY DEF Paid
  <2>5. \A f \in settled : Paid(f)'
    BY <1>2, <1>3, PaidStays DEF SettledArePaid
  <2> QED
    BY <2>1, <2>3, <2>4, <2>5 DEF SettledArePaid
<1>11. ASSUME NEW c \in Callers, NEW s \in Settlements, SettleDebit(c, s)
       PROVE  SettlingFits' /\ SettledArePaid'
  <2> DEFINE b == blocks[s.block]
             due == Due(s, b)
             p == [phase |-> "debiting", request |-> s, due |-> due, prior |-> b.debited]
  <2>1. /\ s.block \in DOMAIN blocks /\ due \in 1 .. b.remaining
        /\ StartCall(c, DebitRequest(s, due)) /\ Enter(c, p) /\ settled' = settled
    BY <1>11 DEF SettleDebit, SettlementStarts
  <2>2. b \in Block /\ b.remaining \in Nat /\ b.debited \in Nat /\ s.fare \in Nat
    BY <1>2, <2>1, BlockAmountsAreNumbers, SettlementFields DEF Block
  <2>3. due \in Nat \ {0} /\ b.debited + due = s.fare
    BY <2>1, <2>2 DEF Due
  <2>4. p \in Debiting /\ p.request = s /\ p.due = due /\ p.prior = b.debited
    BY <2>2, <2>3 DEF Debiting
  <2>5. /\ calls'[c].request = DebitRequest(s, due)
        /\ \A d \in Callers : d # c => calls'[d].request = calls[d].request
    BY <1>2, <2>1, CallsMove
  <2>6. s.block \in DOMAIN blocks'
    BY <1>3, <2>1
  <2> HIDE DEF p, due, b
  <2>7. Fits(p, calls'[c].request, DOMAIN blocks')
    BY <2>3, <2>4, <2>5, <2>6 DEF Fits
  <2> QED
    BY <1>2, <1>3, <1>5, <2>1, <2>5, <2>7, FittingStep
<1>12. ASSUME NEW c \in Callers, NEW s \in Settlements, SettleNothingDue(c, s)
       PROVE  SettlingFits' /\ SettledArePaid'
  <2> DEFINE b == blocks[s.block]
  <2>1. s.block \in DOMAIN blocks /\ Due(s, b) = 0 /\ ReleaseRest(c, s, b.debited, 0, b)
    BY <1>12 DEF SettleNothingDue, SettlementStarts
  <2>2. b \in Block /\ b.debited \in Nat /\ s.fare \in Nat
    BY <1>2, <2>1, BlockAmountsAreNumbers, SettlementFields DEF Block
  <2>3. MakesFare(s, b.debited, 0)
    BY <2>1, <2>2 DEF Due, MakesFare
  <2> QED
    BY <2>1, <2>2, <2>3, ReleaseRestKeeps
<1>13. ASSUME NEW c \in Callers, DebitReturns(c) PROVE SettlingFits' /\ SettledArePaid'
  <2> DEFINE p == settling[c]
  <2>1. /\ p.phase = "debiting" /\ calls[c].phase = "ok"
        /\ ReleaseRest(c, p.request, p.prior, p.due, Result(c))
    BY <1>13 DEF DebitReturns
  <2>2. /\ p \in Debiting /\ calls[c].request = DebitRequest(p.request, p.due)
        /\ p.prior + p.due = p.request.fare /\ p.request.block \in DOMAIN blocks
    BY <1>2, <2>1, PhaseFits DEF SettlingFits
  <2>3. /\ p.request \in Settlements /\ p.prior \in Nat /\ p.due \in Nat
        /\ calls[c].request.op # "create" /\ calls[c].request.block = p.request.block
    BY <2>2 DEF Debiting, DebitRequest
  <2>4. /\ Result(c) \in Block
        /\ Result(c).remaining = 0 => Result(c) = blocks[p.request.block]
    BY <2>1, <2>3, EmptyResultIsCurrent
  <2> HIDE DEF p
  <2> QED
    BY <2>1, <2>2, <2>3, <2>4, ReleaseRestKeeps DEF MakesFare
<1>14. ASSUME NEW c \in Callers, ReleaseReturns(c) PROVE SettlingFits' /\ SettledArePaid'
  <2> DEFINE p == settling[c]
  <2>1. /\ p.phase = "releasing" /\ calls[c].phase = "ok"
        /\ Conclude(c, p.request, p.prior, p.due, Result(c))
        /\ UNCHANGED <<blocks, registry, failures, calls, audit>>
    BY <1>14 DEF ReleaseReturns
  <2>2. PICK a \in Nat \ {0} :
            /\ p \in Releasing /\ calls[c].request = ReleaseRequest(p.request, a)
            /\ MakesFare(p.request, p.prior, p.due) /\ p.request.block \in DOMAIN blocks
    BY <1>2, <2>1, PhaseFits DEF SettlingFits
  <2>3. /\ p.request \in Settlements /\ p.prior \in Nat /\ p.due \in Nat
        /\ calls[c].request.op = "release" /\ calls[c].request.block = p.request.block
    BY <2>2 DEF Releasing, ReleaseRequest
  <2>4. /\ Result(c) \in Block /\ Result(c).remaining = 0
        /\ Result(c) = blocks[p.request.block]
    BY <2>1, <2>3, EmptyResultIsCurrent
  <2> HIDE DEF p
  <2> QED
    BY <2>1, <2>2, <2>3, <2>4, ConclusionPays
<1>15. ASSUME NEW c \in Callers, SettlementAborts(c) PROVE SettlingFits' /\ SettledArePaid'
  <2>1. Enter(c, NotSettling) /\ UNCHANGED <<blocks, calls, settled>>
    BY <1>15 DEF SettlementAborts
  <2>2. Fits(NotSettling, calls'[c].request, DOMAIN blocks')
    BY DEF Fits
  <2> QED
    BY <1>2, <1>5, <2>1, <2>2, FittingStep
<1>16. ASSUME NEW c \in Callers, SettleCalled(c) PROVE SettlingFits' /\ SettledArePaid'
  BY <1>9, <1>10, <1>11, <1>12, <1>16 DEF SettleCalled, SettlementAnswered, StatusRefused
<1> QED
  BY <1>7, <1>8, <1>9, <1>13, <1>14, <1>15, <1>16 DEF SettlementNext, SettlementGoesOn

LEMMA SettlementKeptAtFirst == SettlementInit => SettlementKept
<1> SUFFICES ASSUME SettlementInit PROVE SettlementKept
  OBVIOUS
<1>1. ProviderKept /\ Results = {} /\ settled = {}
  BY ProviderKeptAtFirst DEF SettlementInit, ServiceInit, ProviderInit, Results
<1>2. settling = [c \in Callers |-> NotSettling] /\ \A c \in Callers : calls[c].phase = "idle"
  BY DEF SettlementInit, ServiceInit
<1>3. SettlingFits
  BY <1>2 DEF SettlingFits, Fits
<1> QED
  BY <1>1, <1>2, <1>3 DEF SettlementKept, RecordsFit, AnswersAreFiled, SettledArePaid

LEMMA SettlementIsKept == SettlementSpec => []SettlementKept
BY SettlementKeptAtFirst, SettlementKeptInductive, PTL DEF SettlementSpec

\* A ride reported settled has paid exactly its fare and nothing is held back,
\* from then on, for any number of callers and settlements, any fares a key is
\* presented with, and whatever failed or was retried on the way.
THEOREM SettledRidesArePaid == SettlementSpec => []SettledMeansPaid
<1>1. SettlementKept => SettledMeansPaid
  BY DEF SettlementKept, SettledArePaid, Paid, SettledMeansPaid
<1> QED
  BY <1>1, SettlementIsKept, PTL

\* Settlements, too, move money only as the ledger allows.
THEOREM SettlementImplementsLedger == SettlementSpec => ImplementsLedger
<1>1. SettlementInit => Ledger!Init
  BY DEF SettlementInit, ServiceInit, ProviderInit, Ledger!Init
<1>2. SettlementKept /\ [SettlementNext]_settlementVars => [Ledger!Next]_View
  BY SettlementMoves, ServiceStepsProvider, LedgerStep DEF SettlementKept, ProviderKept
<1> QED
  BY <1>1, <1>2, SettlementIsKept, PTL DEF SettlementSpec, ImplementsLedger, Ledger!Spec, View

-----------------------------------------------------------------------------
(* Settlement: with one caller, and a key of its own for each ride *)

\* One thread settles and uses the service, as a ride's own flow does.
OneCaller == \A c, d \in Callers : c = d

\* A settlement key stands for one fare, as one derived from the ride does.
OneFare == \A k \in SettlementKeys : \A f, g \in FaresFor[k] : f = g

\* No caller debits under a key a settlement derives.
OwnKeys == \A k \in SettlementKeys : SubKey(k, "debit") \notin ClientKeys

\* The block a settlement is about.
BlockOf(c) == blocks[settling[c].request.block]

\* While a settlement's debit is tried, nothing has been debited since the
\* status was read.
Undisturbed ==
    \A c \in Callers : settling[c].phase = "debiting" /\ Trying(c) =>
        BlockOf(c).debited = settling[c].prior

\* What was debited for a settlement paid its fare; only settlements debit under
\* their keys; and the figures of one under way are those of the block.
SettlementSound ==
    /\ \A k \in SettlementKeys, e \in Results :
          e.request.op = "debit" /\ e.request.key = SubKey(k, "debit") =>
              \A f \in FaresFor[k] : blocks[e.id].debited >= f
    /\ \A k \in SettlementKeys, c \in Callers :
          /\ Trying(c)
          /\ calls[c].request.op = "debit" /\ calls[c].request.key = SubKey(k, "debit")
          => settling[c].phase = "debiting"
    /\ \A c \in Callers :
          /\ settling[c] # Broken
          /\ settling[c].phase = "debiting" /\ calls[c].phase = "ok" =>
                /\ \E e \in Results : e.request = calls[c].request /\ e.snapshot = BlockOf(c)
                /\ BlockOf(c).debited = settling[c].prior + settling[c].due
          /\ settling[c].phase = "releasing" /\ Trying(c) =>
                /\ BlockOf(c).debited = settling[c].prior + settling[c].due
                /\ BlockOf(c).remaining > 0
          /\ settling[c].phase = "releasing" /\ calls[c].phase = "ok" =>
                \E e \in Results :
                    /\ e.request = calls[c].request
                    /\ e.snapshot.debited = settling[c].prior + settling[c].due

\* The steps of the one caller there is.
LEMMA SettlementSteps ==
    ASSUME OneCaller, [SettlementNext]_settlementVars, NEW c \in Callers
    PROVE  \/ UNCHANGED settlementVars
           \/ ClientIssues(c)
           \/ Attempt(c) /\ UNCHANGED <<settling, settled>>
           \/ \E s \in Settlements :
                 SettleShort(c, s) \/ SettleDebit(c, s) \/ SettleNothingDue(c, s)
           \/ DebitReturns(c) \/ ReleaseReturns(c) \/ SettlementAborts(c)
<1>1. CASE UNCHANGED settlementVars
  BY <1>1
<1>2. CASE SettlementNext
  <2>1. ClientIssues(c) \/ SettleCalled(c) \/ SettlementGoesOn(c)
    BY <1>2 DEF SettlementNext, OneCaller
  <2> QED
    BY <2>1 DEF SettleCalled, SettlementGoesOn, SettlementAnswered, StatusRefused
<1> QED
  BY <1>1, <1>2

LEMMA EnterSets ==
    ASSUME SettlingFits, NEW c \in Callers, NEW p, Enter(c, p)
    PROVE  settling'[c] = p
<1>1. c \in DOMAIN settling
  BY DEF SettlingFits
<1> QED
  BY <1>1 DEF Enter

\* Releasing the rest begins the release, or ends the settlement.
LEMMA ReleaseRestEnters ==
    ASSUME SettlementKept, NEW c \in Callers, NEW s, NEW prior, NEW newly, NEW final,
           ReleaseRest(c, s, prior, newly, final)
    PROVE  /\ blocks' = blocks /\ Results' = Results
           /\ IF final.remaining > 0
              THEN /\ settling'[c] = [phase |-> "releasing", request |-> s,
                                      due |-> newly, prior |-> prior]
                   /\ calls'[c].request = ReleaseRequest(s, final.remaining)
                   /\ calls'[c].phase = "trying"
              ELSE /\ calls' = calls
                   /\ settling'[c] \in {NotSettling, Broken}
                   /\ ResultHolds(s, prior, newly, final) => settling'[c] = NotSettling
<1>1. SettlingFits /\ CallsAreTyped
  BY DEF SettlementKept, ProviderKept
<1>2. CASE final.remaining > 0
  BY <1>1, <1>2, EnterSets, CallsMove DEF ReleaseRest, StartCall, providerVars, Results
<1>3. CASE ~(final.remaining > 0)
  BY <1>1, <1>3, EnterSets DEF ReleaseRest, Conclude, Results
<1> QED
  BY <1>2, <1>3

\* The phases under way, each with its record and its call.
LEMMA UnderWay ==
    ASSUME SettlementKept, NEW c \in Callers
    PROVE  LET p == settling[c]
               s == p.request
           IN  /\ p.phase \in {"debiting", "releasing"} =>
                     /\ s \in Settlements /\ s.block \in DOMAIN blocks
                     /\ s.fare \in Nat /\ p.prior \in Nat /\ p.due \in Nat
                     /\ BlockOf(c) \in Block /\ BlockOf(c).debited \in Nat
                     /\ BlockOf(c).remaining \in Nat
                     /\ calls[c].request.block = s.block
                     /\ MakesFare(s, p.prior, p.due)
               /\ p.phase = "debiting" =>
                     /\ calls[c].request = DebitRequest(s, p.due)
                     /\ p.due > 0 /\ p.prior + p.due = s.fare
               /\ p.phase = "releasing" => calls[c].request.op = "release"
<1>1. Fits(settling[c], calls[c].request, DOMAIN blocks) /\ TypeOK
  BY DEF SettlementKept, SettlingFits, ProviderKept
<1>2. ASSUME NEW s \in Settlements, s.block \in DOMAIN blocks
      PROVE  /\ s.fare \in Nat /\ blocks[s.block] \in Block
             /\ blocks[s.block].debited \in Nat /\ blocks[s.block].remaining \in Nat
  BY <1>1, <1>2, SettlementFields, BlockAmountsAreNumbers DEF Block
<1>3. CASE settling[c].phase = "debiting"
  BY <1>1, <1>2, <1>3, PhaseFits DEF Debiting, DebitRequest, BlockOf, MakesFare
<1>4. CASE settling[c].phase = "releasing"
  BY <1>1, <1>2, <1>4, PhaseFits DEF Releasing, ReleaseRequest, BlockOf, MakesFare
<1> QED
  BY <1>3, <1>4

\* What one attempt of a settlement's call does to its block.
LEMMA SettlementAttempt ==
    ASSUME SettlementKept, NEW c \in Callers, Attempt(c),
           settling[c].phase \in {"debiting", "releasing"}
    PROVE  LET s == settling[c].request IN
           \/ /\ blocks' = blocks /\ Results' = Results
              /\ calls'[c].phase = "ok" =>
                    \E e \in Results : e.request = calls[c].request
           \/ \E e : /\ Results' = Results \cup {e} /\ e.request = calls[c].request
                     /\ e.id = s.block /\ e.snapshot = blocks'[s.block]
                     /\ calls'[c].phase = "ok"
                     /\ e.snapshot.debited = BlockOf(c).debited
                           + (IF settling[c].phase = "debiting" THEN settling[c].due ELSE 0)
                     /\ settling[c].phase = "releasing" => e.snapshot.remaining = 0
<1> DEFINE s == settling[c].request
           r == calls[c].request
<1>1. TypeOK /\ CallsAreTyped /\ Trying(c)
  BY CallsMove DEF SettlementKept, ProviderKept
<1>2. r \in Request
  BY <1>1 DEF CallsAreTyped
<1>3. /\ BlockOf(c) \in Block /\ BlockOf(c).debited \in Nat /\ s.block \in DOMAIN blocks
      /\ r.block = s.block /\ settling[c].due \in Nat
      /\ settling[c].phase = "debiting" => r = DebitRequest(s, settling[c].due)
      /\ settling[c].phase = "releasing" => r.op = "release"
  BY UnderWay
<1>4. CASE Executes(r)
  <2>1. PICK e : /\ Results' = Results \cup {e} /\ e.request = r /\ Fresh(r)
                 /\ blocks'[e.id] = e.snapshot
                 /\ r.op # "create" =>
                       /\ e.id = r.block
                       /\ \/ r.op = "increase" /\ e.snapshot = Increased(blocks[r.block], r.amount)
                          \/ r.op = "debit" /\ e.snapshot = Debited(blocks[r.block], r.amount)
                          \/ r.op = "release" /\ e.snapshot = Released(blocks[r.block], r.amount)
    BY <1>1, <1>2, <1>4, ExecutionFiles
  <2>2. e \in Results' /\ e \notin Results
    BY <1>1, <2>1, FreshHasNone
  <2>3. Succeeds(c) /\ calls'[c].phase = "ok"
    BY <1>1, <2>2, CallsMove
  <2>4. CASE settling[c].phase = "debiting"
    <3>1. r.op = "debit" /\ r.amount = settling[c].due
      BY <1>3, <2>4 DEF DebitRequest
    <3>2. e.snapshot = Debited(BlockOf(c), settling[c].due) /\ e.id = s.block
      BY <1>3, <2>1, <3>1 DEF BlockOf
    <3>3. e.snapshot.debited = BlockOf(c).debited + settling[c].due
      BY <1>3, <3>2, OperationsMoveOneAmount
    <3> QED
      BY <1>3, <2>1, <2>3, <2>4, <3>2, <3>3
  <2>5. CASE settling[c].phase = "releasing"
    <3>1. e.snapshot = Released(BlockOf(c), r.amount) /\ e.id = s.block
      BY <1>3, <2>1, <2>5 DEF BlockOf
    <3>2. e.snapshot.debited = BlockOf(c).debited /\ e.snapshot.remaining = 0
      BY <1>3, <3>1, OperationsMoveOneAmount DEF Released, Block
    <3> QED
      BY <1>3, <2>1, <2>3, <2>5, <3>1, <3>2
  <2> QED
    BY <2>4, <2>5
<1>5. CASE Replayed(r)
  BY <1>5 DEF Replayed, providerVars, Results
<1>6. CASE ~Succeeds(c)
  BY <1>1, <1>6, CallsMove
<1> QED
  BY <1>4, <1>5, <1>6 DEF Succeeds

LEMMA UndisturbedInductive ==
    ASSUME OneCaller, SettlementKept, Undisturbed, [SettlementNext]_settlementVars
    PROVE  Undisturbed'
<1> SUFFICES ASSUME NEW c \in Callers, settling'[c].phase = "debiting", Trying(c)'
             PROVE  blocks'[settling'[c].request.block].debited = settling'[c].prior
  BY DEF Undisturbed, BlockOf
<1>1. CallsAreTyped /\ SettlingFits
  BY DEF SettlementKept, ProviderKept
<1>2. CASE UNCHANGED settlementVars
  BY <1>2 DEF settlementVars, Undisturbed, BlockOf, Trying
<1>3. CASE ClientIssues(c)
  BY <1>3 DEF ClientIssues, Idle, NotSettling, Broken
<1>4. CASE Attempt(c) /\ UNCHANGED <<settling, settled>>
  BY <1>1, <1>4, CallsMove DEF Undisturbed, BlockOf, Trying
<1>5. ASSUME NEW s \in Settlements, SettleShort(c, s) PROVE FALSE
  BY <1>1, <1>5, EnterSets DEF SettleShort, NotSettling
<1>6. ASSUME NEW s \in Settlements, SettleDebit(c, s)
      PROVE  blocks'[settling'[c].request.block].debited = settling'[c].prior
  BY <1>1, <1>6, EnterSets DEF SettleDebit, StartCall, providerVars, Results
<1>7. ASSUME NEW s, NEW prior, NEW newly, NEW final, ReleaseRest(c, s, prior, newly, final)
      PROVE  FALSE
  <2>1. CASE final.remaining > 0
    <3>1. settling'[c] = [phase |-> "releasing", request |-> s, due |-> newly, prior |-> prior]
      BY <1>7, <2>1, ReleaseRestEnters
    <3> QED
      BY <3>1
  <2>2. CASE ~(final.remaining > 0)
    <3>1. settling'[c] \in {NotSettling, Broken}
      BY <1>7, <2>2, ReleaseRestEnters
    <3> QED
      BY <3>1 DEF NotSettling, Broken
  <2> QED
    BY <2>1, <2>2
<1>8. CASE ReleaseReturns(c) \/ SettlementAborts(c)
  BY <1>1, <1>8, EnterSets DEF ReleaseReturns, Conclude, SettlementAborts, NotSettling, Broken
<1> QED
  BY <1>2, <1>3, <1>4, <1>5, <1>6, <1>7, <1>8, SettlementSteps DEF SettleNothingDue, DebitReturns

\* While a settlement's call is tried, only its attempts happen.
LEMMA OnlyAttempts ==
    ASSUME OneCaller, SettlementKept, [SettlementNext]_settlementVars, NEW c \in Callers, Trying(c)
    PROVE  UNCHANGED settlementVars \/ (Attempt(c) /\ UNCHANGED <<settling, settled>>)
BY SettlementSteps
DEF ClientIssues, Idle, SettleShort, SettleDebit, SettleNothingDue, SettlementStarts,
    DebitReturns, ReleaseReturns, SettlementAborts, Trying

\* A settlement never collects beyond the fare, whatever fares a key was
\* presented with before, as long as nobody else debits the block while it does.
THEOREM CollectsTheFareAtMost == OneCaller => (SettlementSpec => NeverCollectsBeyondFare)
<1> SUFFICES ASSUME OneCaller PROVE SettlementSpec => NeverCollectsBeyondFare
  OBVIOUS
<1> DEFINE A == \A c \in Callers :
                   settling[c].phase = "debiting" /\ Trying(c) =>
                       LET s == settling[c].request IN
                       blocks'[s.block].debited > blocks[s.block].debited =>
                           blocks'[s.block].debited <= s.fare
<1>1. SettlementInit => Undisturbed
  BY DEF SettlementInit, ServiceInit, Undisturbed, Trying
<1>2. SettlementKept /\ Undisturbed /\ [SettlementNext]_settlementVars => Undisturbed'
  BY UndisturbedInductive
<1>3. SettlementKept /\ Undisturbed /\ [SettlementNext]_settlementVars => [A]_settlementVars
  <2> SUFFICES ASSUME SettlementKept, Undisturbed, [SettlementNext]_settlementVars,
                      NEW c \in Callers, settling[c].phase = "debiting", Trying(c),
                      blocks'[settling[c].request.block].debited > BlockOf(c).debited
               PROVE  blocks'[settling[c].request.block].debited <= settling[c].request.fare
    BY DEF BlockOf
  <2>1. /\ BlockOf(c).debited = settling[c].prior
        /\ settling[c].prior + settling[c].due = settling[c].request.fare
        /\ settling[c].request.fare \in Nat /\ BlockOf(c).debited \in Nat
    BY UnderWay DEF Undisturbed
  <2>2. blocks' # blocks
    BY <2>1 DEF BlockOf
  <2>3. Attempt(c)
    BY <2>2, OnlyAttempts DEF settlementVars
  <2>4. blocks'[settling[c].request.block].debited = settling[c].prior + settling[c].due
    BY <2>1, <2>2, <2>3, SettlementAttempt
  <2> QED
    BY <2>1, <2>4
<1> QED
  BY <1>1, <1>2, <1>3, SettlementIsKept, PTL DEF SettlementSpec, NeverCollectsBeyondFare

-----------------------------------------------------------------------------
(* Settlement: its figures are those of the block *)

\* The debit a settlement tries has not been filed: had it been, the fare would
\* have been paid before.  Nor has the release: it would have left nothing.
LEMMA AttemptIsNew ==
    ASSUME SettlementKept, Undisturbed, SettlementSound, NEW c \in Callers, Trying(c),
           settling[c].phase \in {"debiting", "releasing"},
           NEW e \in Results, e.request = calls[c].request
    PROVE  FALSE
<1> DEFINE s == settling[c].request
<1>1. /\ s \in Settlements /\ s.fare \in Nat /\ settling[c].prior \in Nat
      /\ settling[c].due \in Nat /\ calls[c].request.block = s.block
      /\ BlockOf(c).debited \in Nat
  BY UnderWay
<1>2. CASE settling[c].phase = "debiting"
  <2>1. /\ calls[c].request = DebitRequest(s, settling[c].due)
        /\ settling[c].due > 0 /\ settling[c].prior + settling[c].due = s.fare
    BY <1>2, UnderWay
  <2>2. /\ e.request.op = "debit" /\ e.request.key = SubKey(s.key, "debit")
        /\ e.request.block = s.block
    BY <1>1, <2>1 DEF DebitRequest
  <2>3. e.id = s.block
    BY <2>2 DEF SettlementKept, RecordsFit
  <2>4. s.key \in SettlementKeys /\ s.fare \in FaresFor[s.key]
    BY <1>1, SettlementFields
  <2>5. BlockOf(c).debited >= s.fare
    BY <2>2, <2>3, <2>4 DEF SettlementSound, BlockOf
  <2>6. BlockOf(c).debited = settling[c].prior
    BY <1>2 DEF Undisturbed
  <2> QED
    BY <1>1, <2>1, <2>5, <2>6
<1>3. CASE settling[c].phase = "releasing"
  <2>1. e.request.op = "release" /\ e.request.block = s.block
    BY <1>1, <1>3, UnderWay
  <2>2. e.id = s.block /\ e.snapshot.remaining = 0 /\ blocks[e.id] = e.snapshot
    BY <2>1 DEF SettlementKept, RecordsFit
  <2>3. BlockOf(c).remaining > 0
    BY <1>3 DEF SettlementSound
  <2> QED
    BY <2>2, <2>3 DEF BlockOf
<1> QED
  BY <1>2, <1>3

\* The one answer a caller can have been given.
LEMMA OneAnswer ==
    ASSUME SettlementKept, NEW c \in Callers, NEW e \in Results, e.request = calls[c].request
    PROVE  Result(c) = e.snapshot
BY ResultOfRequest DEF SettlementKept, ProviderKept, Result

\* What has to hold of the caller's progress when the block does not move.
LEMMA SoundWhenBlocksStay ==
    ASSUME OneCaller, SettlementSound, NEW c \in Callers,
           blocks' = blocks, Results' = Results, settling'[c] # Broken,
           \A k \in SettlementKeys :
               /\ Trying(c)'
               /\ calls'[c].request.op = "debit" /\ calls'[c].request.key = SubKey(k, "debit")
               => settling'[c].phase = "debiting",
           settling'[c].phase = "debiting" => calls'[c].phase # "ok",
           settling'[c].phase = "releasing" =>
               LET b == blocks[settling'[c].request.block] IN
               /\ Trying(c)'
               /\ b.debited = settling'[c].prior + settling'[c].due /\ b.remaining > 0
    PROVE  SettlementSound'
<1>1. \A d \in Callers : d = c
  BY DEF OneCaller
<1>2. settling'[c].phase = "releasing" => calls'[c].phase # "ok"
  BY DEF Trying
<1>3. \A k \in SettlementKeys, e \in Results' :
          e.request.op = "debit" /\ e.request.key = SubKey(k, "debit") =>
              \A f \in FaresFor[k] : blocks'[e.id].debited >= f
  BY DEF SettlementSound
<1> QED
  BY <1>1, <1>2, <1>3 DEF SettlementSound, BlockOf

\* An attempt files nothing but the answer to its own request.
LEMMA AttemptFiles ==
    ASSUME CallsAreTyped, TypeOK, NEW c \in Callers, Attempt(c)
    PROVE  \A e \in Results' \ Results : e.request = calls[c].request
<1>1. Trying(c) /\ calls[c].request \in Request
  BY CallsMove DEF CallsAreTyped
<1>2. CASE Succeeds(c)
  <2>1. CASE Replayed(calls[c].request)
    BY <2>1 DEF Replayed, providerVars, Results
  <2>2. CASE Executes(calls[c].request)
    BY <1>1, <2>2, ExecutionFiles
  <2> QED
    BY <1>2, <2>1, <2>2 DEF Succeeds
<1>3. CASE ~Succeeds(c)
  BY <1>3, CallsMove
<1> QED
  BY <1>2, <1>3

\* An attempt keeps the figures, whether it is a settlement's or a client's.
LEMMA SoundAfterAttempt ==
    ASSUME OneCaller, OneFare, SettlementKept, Undisturbed, SettlementSound,
           NEW c \in Callers, Attempt(c), UNCHANGED <<settling, settled>>
    PROVE  SettlementSound'
<1> DEFINE s == settling[c].request
           p == settling[c]
<1>1. /\ TypeOK /\ CallsAreTyped /\ BlocksAreConsistent /\ Trying(c)
      /\ calls'[c].request = calls[c].request /\ \A d \in Callers : d = c
  BY CallsMove DEF SettlementKept, ProviderKept, OneCaller
<1>2. settling[c] # Broken
  BY DEF SettlementSound
<1>3. settling' = settling
  OBVIOUS
<1>4. \A k \in SettlementKeys :
          calls[c].request.op = "debit" /\ calls[c].request.key = SubKey(k, "debit") =>
              settling[c].phase = "debiting"
  BY <1>1 DEF SettlementSound
<1>5. [ProviderStep]_providerVars
  BY <1>1, ServiceStepsProvider DEF ServiceStep
<1>6. \A id \in DOMAIN blocks : blocks'[id].debited >= blocks[id].debited
  BY <1>1, <1>5, BlocksStay
<1>7. \A k \in SettlementKeys, e \in Results :
          e.request.op = "debit" /\ e.request.key = SubKey(k, "debit") =>
              \A f \in FaresFor[k] : blocks'[e.id].debited >= f
  <2> SUFFICES ASSUME NEW k \in SettlementKeys, NEW e \in Results,
                      e.request.op = "debit", e.request.key = SubKey(k, "debit"),
                      NEW f \in FaresFor[k]
               PROVE  blocks'[e.id].debited >= f
    OBVIOUS
  <2>1. e.id \in DOMAIN blocks /\ blocks[e.id].debited >= f
    BY DEF SettlementSound, SettlementKept, RecordsFit
  <2>2. blocks'[e.id].debited >= blocks[e.id].debited
    BY <1>6, <2>1
  <2>3. e.id \in DOMAIN blocks' /\ TypeOK'
    BY <1>1, <1>5, <2>1, BlocksStay, TypeInductive
  <2>4. blocks'[e.id].debited \in Int /\ blocks[e.id].debited \in Int
    <3>1. blocks \in Seq(Block) /\ blocks' \in Seq(Block)
      BY <1>1, <2>3 DEF TypeOK
    <3>2. blocks'[e.id] \in Block /\ blocks[e.id] \in Block
      BY <2>1, <2>3, <3>1
    <3> QED
      BY <3>2 DEF Block
  <2>5. f \in Int
    BY SettlementAssumption, ProviderAssumption
  <2> QED
    BY <2>1, <2>2, <2>4, <2>5
<1>8. CASE settling[c].phase \in {"debiting", "releasing"}
  <2>1. CASE /\ blocks' = blocks /\ Results' = Results
             /\ calls'[c].phase = "ok" => \E e \in Results : e.request = calls[c].request
    <3>1. calls'[c].phase # "ok"
      BY <1>1, <1>8, <2>1, AttemptIsNew
    <3>2. settling[c].phase = "releasing" =>
              /\ BlockOf(c).debited = settling[c].prior + settling[c].due
              /\ BlockOf(c).remaining > 0
      BY <1>1 DEF SettlementSound
    <3>3. \A d \in Callers :
              /\ settling'[d] # Broken
              /\ settling'[d].phase = "debiting" /\ calls'[d].phase = "ok" => FALSE
              /\ settling'[d].phase = "releasing" /\ calls'[d].phase = "ok" => FALSE
              /\ settling'[d].phase = "releasing" /\ Trying(d)' =>
                     /\ BlockOf(d)'.debited = settling'[d].prior + settling'[d].due
                     /\ BlockOf(d)'.remaining > 0
      BY <1>1, <1>2, <1>3, <2>1, <3>1, <3>2 DEF BlockOf
    <3> QED
      BY <1>1, <1>3, <1>4, <1>7, <2>1, <3>3 DEF SettlementSound
  <2>2. ASSUME NEW e, Results' = Results \cup {e}, e.request = calls[c].request,
               e.id = s.block, e.snapshot = blocks'[s.block], calls'[c].phase = "ok",
               e.snapshot.debited = BlockOf(c).debited
                   + (IF settling[c].phase = "debiting" THEN settling[c].due ELSE 0)
        PROVE  SettlementSound'
    <3>1. /\ s \in Settlements /\ s.fare \in Nat /\ p.prior \in Nat /\ p.due \in Nat
          /\ BlockOf(c).debited \in Nat
      BY <1>8, UnderWay
    <3>2. BlockOf(c).debited = IF p.phase = "debiting" THEN p.prior ELSE p.prior + p.due
      BY <1>1, <1>8 DEF Undisturbed, SettlementSound
    <3>3. e.snapshot.debited = p.prior + p.due
      BY <1>8, <2>2, <3>1, <3>2
    <3>4. ASSUME NEW k \in SettlementKeys, e.request.op = "debit",
                 e.request.key = SubKey(k, "debit"), NEW f \in FaresFor[k]
          PROVE  blocks'[e.id].debited >= f
      <4>1. p.phase = "debiting"
        BY <1>4, <2>2, <3>4
      <4>2. calls[c].request = DebitRequest(s, p.due) /\ p.prior + p.due = s.fare
        BY <4>1, UnderWay
      <4>3. s.key = k
        BY <2>2, <3>4, <4>2 DEF DebitRequest, SubKey
      <4>4. f = s.fare
        BY <3>1, <3>4, <4>3, SettlementFields DEF OneFare
      <4> QED
        BY <2>2, <3>1, <3>3, <4>2, <4>4
    <3>5. /\ settling'[c].phase = "debiting" =>
                /\ \E g \in Results' : g.request = calls'[c].request /\ g.snapshot = BlockOf(c)'
                /\ BlockOf(c)'.debited = settling'[c].prior + settling'[c].due
          /\ settling'[c].phase = "releasing" =>
                \E g \in Results' : /\ g.request = calls'[c].request
                                     /\ g.snapshot.debited = settling'[c].prior + settling'[c].due
      BY <1>1, <1>3, <2>2, <3>3 DEF BlockOf
    <3>6. ~Trying(c)'
      BY <2>2 DEF Trying
    <3>7. \A k \in SettlementKeys, g \in Results' :
              g.request.op = "debit" /\ g.request.key = SubKey(k, "debit") =>
                  \A f \in FaresFor[k] : blocks'[g.id].debited >= f
      BY <1>7, <2>2, <3>4
    <3> QED
      BY <1>1, <1>2, <1>3, <3>5, <3>6, <3>7 DEF SettlementSound
  <2> QED
    BY <1>8, <2>1, <2>2, SettlementAttempt
<1>9. CASE settling[c].phase \notin {"debiting", "releasing"}
  <2>1. \A e \in Results' \ Results : e.request = calls[c].request
    BY <1>1, CallsMove, AttemptFiles
  <2>2. \A k \in SettlementKeys, g \in Results' :
            g.request.op = "debit" /\ g.request.key = SubKey(k, "debit") =>
                \A f \in FaresFor[k] : blocks'[g.id].debited >= f
    BY <1>4, <1>7, <1>9, <2>1
  <2> QED
    BY <1>1, <1>2, <1>3, <1>4, <1>9, <2>2 DEF SettlementSound
<1> QED
  BY <1>8, <1>9

LEMMA SoundInductive ==
    ASSUME OneCaller, OneFare, OwnKeys, SettlementKept, Undisturbed, SettlementSound,
           [SettlementNext]_settlementVars
    PROVE  SettlementSound'
<1>1. CASE UNCHANGED settlementVars
  BY <1>1 DEF settlementVars, SettlementSound, BlockOf, Trying, Results
<1>2. CASE ~UNCHANGED settlementVars
  <2>1. PICK c \in Callers : TRUE
    BY <1>2 DEF SettlementNext
  <2>2. SettlingFits /\ CallsAreTyped /\ TypeOK /\ settling[c] # Broken
    BY DEF SettlementKept, ProviderKept, SettlementSound
  <2>3. ASSUME ClientIssues(c) PROVE SettlementSound'
    <3>1. PICK r : StartCall(c, r) /\ r.key \in ClientKeys
      BY <2>3 DEF ClientIssues, Issue
    <3>2. settling'[c] = NotSettling /\ blocks' = blocks /\ Results' = Results
      BY <2>2, <2>3, <3>1 DEF ClientIssues, Idle, StartCall, providerVars, Results
    <3>3. calls'[c].request = r
      BY <2>2, <3>1, CallsMove
    <3> QED
      BY <3>1, <3>2, <3>3, SoundWhenBlocksStay DEF OwnKeys, NotSettling, Broken
  <2>4. ASSUME NEW s \in Settlements, SettleShort(c, s) PROVE SettlementSound'
    <3>1. /\ settling'[c] = NotSettling /\ blocks' = blocks /\ Results' = Results
          /\ ~Trying(c)'
      BY <2>2, <2>4, EnterSets DEF SettleShort, SettlementStarts, Idle, Trying, Results
    <3> QED
      BY <3>1, SoundWhenBlocksStay DEF NotSettling, Broken
  <2>5. ASSUME NEW s \in Settlements, SettleDebit(c, s) PROVE SettlementSound'
    <3>1. /\ settling'[c].phase = "debiting" /\ settling'[c] # Broken
          /\ blocks' = blocks /\ Results' = Results
      BY <2>2, <2>5, EnterSets DEF SettleDebit, StartCall, providerVars, Results, Broken
    <3>2. calls'[c].phase = "trying"
      BY <2>2, <2>5, CallsMove DEF SettleDebit
    <3> QED
      BY <3>1, <3>2, SoundWhenBlocksStay
  <2>6. ASSUME NEW s \in Settlements, NEW prior \in Nat, NEW newly \in Nat,
               s.block \in DOMAIN blocks, blocks[s.block].debited = prior + newly,
               MakesFare(s, prior, newly), ~Trying(c),
               ReleaseRest(c, s, prior, newly, blocks[s.block])
        PROVE  SettlementSound'
    <3> DEFINE final == blocks[s.block]
    <3>1. /\ blocks' = blocks /\ Results' = Results
          /\ IF final.remaining > 0
             THEN /\ settling'[c] = [phase |-> "releasing", request |-> s,
                                     due |-> newly, prior |-> prior]
                  /\ calls'[c].request = ReleaseRequest(s, final.remaining)
                  /\ calls'[c].phase = "trying"
             ELSE /\ calls' = calls
                  /\ ResultHolds(s, prior, newly, final) => settling'[c] = NotSettling
      BY <2>6, ReleaseRestEnters
    <3>2. CASE final.remaining > 0
      <4>1. /\ settling'[c].phase = "releasing" /\ settling'[c].request = s
            /\ settling'[c].due = newly /\ settling'[c].prior = prior
            /\ calls'[c].request.op = "release" /\ calls'[c].phase = "trying"
        BY <3>1, <3>2 DEF ReleaseRequest
      <4> QED
        BY <2>6, <3>1, <3>2, <4>1, SoundWhenBlocksStay DEF Trying, Broken
    <3>3. CASE ~(final.remaining > 0)
      <4>1. ResultHolds(s, prior, newly, final)
        BY <2>6, SettlementFields DEF ResultHolds, MakesFare
      <4>2. settling'[c] = NotSettling /\ ~Trying(c)'
        BY <2>6, <3>1, <3>3, <4>1 DEF Trying
      <4> QED
        BY <3>1, <4>2, SoundWhenBlocksStay DEF NotSettling, Broken
    <3> QED
      BY <3>2, <3>3
  <2>7. ASSUME NEW s \in Settlements, SettleNothingDue(c, s) PROVE SettlementSound'
    <3>1. /\ s.block \in DOMAIN blocks /\ ~Trying(c) /\ Due(s, blocks[s.block]) = 0
          /\ ReleaseRest(c, s, blocks[s.block].debited, 0, blocks[s.block])
      BY <2>7 DEF SettleNothingDue, SettlementStarts, Idle
    <3>2. blocks[s.block].debited \in Nat /\ s.fare \in Nat
      <4>1. blocks[s.block] \in Block
        BY <2>2, <3>1, BlockAmountsAreNumbers
      <4> QED
        BY <4>1, SettlementFields DEF Block
    <3>3. MakesFare(s, blocks[s.block].debited, 0)
      BY <3>1, <3>2 DEF Due, MakesFare
    <3> QED
      BY <2>6, <3>1, <3>2, <3>3
  <2>8. ASSUME DebitReturns(c) PROVE SettlementSound'
    <3>1. settling[c].phase = "debiting" /\ calls[c].phase = "ok"
      BY <2>8 DEF DebitReturns
    <3>2. /\ \E e \in Results : e.request = calls[c].request /\ e.snapshot = BlockOf(c)
          /\ BlockOf(c).debited = settling[c].prior + settling[c].due
      BY <3>1 DEF SettlementSound
    <3>3. Result(c) = BlockOf(c)
      BY <3>2, OneAnswer
    <3>4. /\ settling[c].request \in Settlements
          /\ settling[c].prior \in Nat /\ settling[c].due \in Nat
          /\ settling[c].request.block \in DOMAIN blocks
          /\ MakesFare(settling[c].request, settling[c].prior, settling[c].due)
      BY <3>1, UnderWay
    <3>5. ~Trying(c)
      BY <3>1 DEF Trying
    <3>6. ReleaseRest(c, settling[c].request, settling[c].prior, settling[c].due, BlockOf(c))
      BY <2>8, <3>3 DEF DebitReturns
    <3> QED
      BY <2>6, <3>2, <3>4, <3>5, <3>6 DEF BlockOf
  <2>9. ASSUME ReleaseReturns(c) PROVE SettlementSound'
    <3> DEFINE p == settling[c]
    <3>1. p.phase = "releasing" /\ calls[c].phase = "ok"
      BY <2>9 DEF ReleaseReturns
    <3>2. \E e \in Results : e.request = calls[c].request /\ e.snapshot.debited = p.prior + p.due
      BY <3>1 DEF SettlementSound
    <3>3. Result(c).debited = p.prior + p.due
      BY <3>2, OneAnswer
    <3>4. /\ p.request.fare \in Nat /\ p.prior \in Nat /\ p.due \in Nat
          /\ MakesFare(p.request, p.prior, p.due)
      BY <3>1, UnderWay
    <3>5. ResultHolds(p.request, p.prior, p.due, Result(c))
      BY <3>3, <3>4 DEF ResultHolds, MakesFare
    <3>6. /\ settling'[c] = NotSettling /\ blocks' = blocks /\ Results' = Results
          /\ calls' = calls
      BY <2>2, <2>9, <3>5, EnterSets DEF ReleaseReturns, Conclude, Results
    <3> QED
      BY <3>1, <3>6, SoundWhenBlocksStay DEF NotSettling, Broken, Trying
  <2>10. ASSUME SettlementAborts(c) PROVE SettlementSound'
    <3>1. /\ settling'[c] = NotSettling /\ blocks' = blocks /\ Results' = Results
          /\ ~Trying(c)'
      BY <2>2, <2>10, EnterSets DEF SettlementAborts, Trying, Results
    <3> QED
      BY <3>1, SoundWhenBlocksStay DEF NotSettling, Broken
  <2>11. ASSUME Attempt(c), UNCHANGED <<settling, settled>> PROVE SettlementSound'
    BY <2>11, SoundAfterAttempt
  <2> QED
    BY <1>2, <2>3, <2>4, <2>5, <2>7, <2>8, <2>9, <2>10, <2>11, SettlementSteps
<1> QED
  BY <1>1, <1>2

LEMMA SoundAtFirst == SettlementInit => SettlementSound
<1> SUFFICES ASSUME SettlementInit PROVE SettlementSound
  OBVIOUS
<1>1. Results = {} /\ \A c \in Callers : calls[c].phase = "idle" /\ settling[c] = NotSettling
  BY DEF SettlementInit, ServiceInit, ProviderInit, Results
<1> QED
  BY <1>1 DEF SettlementSound, Trying, NotSettling, Broken

\* What one caller's settlements keep, given keys of their own.
LEMMA SettlementIsSound ==
    OneCaller /\ OneFare /\ OwnKeys =>
        (SettlementSpec => [](SettlementKept /\ Undisturbed /\ SettlementSound))
<1> SUFFICES ASSUME OneCaller, OneFare, OwnKeys
             PROVE  SettlementSpec => [](SettlementKept /\ Undisturbed /\ SettlementSound)
  OBVIOUS
<1>1. SettlementInit => Undisturbed /\ SettlementSound
  BY SoundAtFirst DEF SettlementInit, ServiceInit, Undisturbed, Trying
<1>2. SettlementKept /\ Undisturbed /\ SettlementSound /\ [SettlementNext]_settlementVars =>
          (Undisturbed /\ SettlementSound)'
  BY UndisturbedInductive, SoundInductive
<1> QED
  BY <1>1, <1>2, SettlementIsKept, PTL DEF SettlementSpec

\* The figures of a settlement always add up, however many attempts failed half
\* way: the refusal in SettlementResult.__post_init__ is never reached by one
\* caller whose rides have settlement keys of their own.
THEOREM SettlementFiguresAddUp ==
    OneCaller /\ OneFare /\ OwnKeys => (SettlementSpec => []FiguresAddUp)
<1>1. SettlementSound => FiguresAddUp
  BY DEF SettlementSound, FiguresAddUp
<1> QED
  BY <1>1, SettlementIsSound, PTL

\* A settlement's release takes only what the fare no longer needs.
THEOREM OnlyTheRestIsReleased ==
    OneCaller /\ OneFare /\ OwnKeys => (SettlementSpec => ReleasesOnlyTheRest)
<1> SUFFICES ASSUME OneCaller, OneFare, OwnKeys
             PROVE  SettlementSpec => ReleasesOnlyTheRest
  OBVIOUS
<1> DEFINE A == \A c \in Callers :
                   settling[c].phase = "releasing" /\ Trying(c) =>
                       LET s == settling[c].request IN
                       blocks'[s.block].released > blocks[s.block].released =>
                           blocks'[s.block].debited >= s.fare
           K == SettlementKept /\ Undisturbed /\ SettlementSound
<1>1. K /\ [SettlementNext]_settlementVars => [A]_settlementVars
  <2> SUFFICES ASSUME SettlementKept, SettlementSound, [SettlementNext]_settlementVars,
                      NEW c \in Callers, settling[c].phase = "releasing", Trying(c),
                      blocks'[settling[c].request.block].released > BlockOf(c).released
               PROVE  blocks'[settling[c].request.block].debited >= settling[c].request.fare
    BY DEF BlockOf
  <2>1. /\ BlockOf(c).debited = settling[c].prior + settling[c].due
        /\ MakesFare(settling[c].request, settling[c].prior, settling[c].due)
        /\ settling[c].prior \in Nat /\ settling[c].due \in Nat
        /\ settling[c].request.fare \in Nat /\ BlockOf(c) \in Block
    BY UnderWay DEF SettlementSound
  <2>2. blocks' # blocks
    <3>1. ~(BlockOf(c).released > BlockOf(c).released)
      BY <2>1 DEF Block
    <3> QED
      BY <3>1 DEF BlockOf
  <2>3. Attempt(c)
    BY <2>2, OnlyAttempts DEF settlementVars
  <2>4. blocks'[settling[c].request.block].debited = BlockOf(c).debited + 0
    BY <2>2, <2>3, SettlementAttempt
  <2> QED
    BY <2>1, <2>4 DEF MakesFare
<1> HIDE DEF K
<1>2. SettlementSpec => []K
  BY SettlementIsSound DEF K
<1> QED
  BY <1>1, <1>2, PTL DEF SettlementSpec, ReleasesOnlyTheRest
=============================================================================
