------------------------- MODULE ReservePayService -------------------------
(***************************************************************************)
(* ReservePayService (reserve_pay/service.py): the execution boundary in   *)
(* front of the provider.  A call audits REQUESTED, tries the provider up  *)
(* to MaxAttempts times with the very same request, and audits what came   *)
(* of it.  Calls of several callers interleave between two attempts, where *)
(* the retry loop sleeps; one attempt is one step of the provider.         *)
(***************************************************************************)
EXTENDS MockReserveProvider

CONSTANTS
    Callers,        \* threads of control that use the service
    ClientKeys,     \* idempotency keys callers choose themselves
    MaxAttempts,    \* RetryConfig.max_attempts
    MaxCalls        \* bound: client calls in one behaviour

ASSUME ServiceAssumption ==
    /\ MaxAttempts \in Nat \ {0}
    /\ MaxCalls \in Nat
    /\ ClientKeys \subseteq Keys

VARIABLES
    calls,      \* the last call of each caller
    audit       \* how often audit_events holds each kind of event, per operation and key

serviceVars == <<blocks, registry, failures, calls, audit>>

Phases == {"idle", "trying", "ok", "failed", "escaped"}

NoRequest == [op |-> "none"]

Call == [phase : Phases, request : Request \cup {NoRequest}, attempt : 0 .. MaxAttempts]

Trail == [requested : Nat, succeeded : Nat, failed : Nat]

-----------------------------------------------------------------------------
(* One call *)

Trying(c) == calls[c].phase = "trying"

StartCall(c, r) ==
    /\ ~Trying(c)
    /\ calls' = [calls EXCEPT ![c] = [phase |-> "trying", request |-> r, attempt |-> 1]]
    /\ audit' = [audit EXCEPT ![r.op][r.key].requested = @ + 1]
    /\ UNCHANGED providerVars

Return(c, phase) == calls' = [calls EXCEPT ![c].phase = phase]

\* Slip: a success is audited with the event of a failure.
SucceedsAsFailure(c) ==
    LET r == calls[c].request IN
    /\ Trying(c)
    /\ Replayed(r) \/ Executes(r)
    /\ Return(c, "ok")
    /\ audit' = [audit EXCEPT ![r.op][r.key].failed = @ + 1]

Succeeds(c) ==
    LET r == calls[c].request IN
    /\ Trying(c)
    /\ Replayed(r) \/ Executes(r)
    /\ Return(c, "ok")
    /\ audit' = [audit EXCEPT ![r.op][r.key].succeeded = @ + 1]

\* Slip: the last attempt is retried like the others.
RetriesUnbounded(c) ==
    /\ Trying(c)
    /\ FailsTransiently(calls[c].request)
    /\ calls' = [calls EXCEPT ![c].attempt = @ + 1]
    /\ UNCHANGED audit

Retries(c) ==
    /\ Trying(c)
    /\ FailsTransiently(calls[c].request)
    /\ calls[c].attempt < MaxAttempts
    /\ calls' = [calls EXCEPT ![c].attempt = @ + 1]
    /\ UNCHANGED audit

\* Slip: giving up after the last attempt is not audited.
FailsSilently(c) ==
    LET r == calls[c].request IN
    /\ Trying(c)
    /\ \/ /\ FailsTransiently(r) /\ calls[c].attempt = MaxAttempts
          /\ UNCHANGED audit
       \/ /\ IsRefused(r)
          /\ audit' = [audit EXCEPT ![r.op][r.key].failed = @ + 1]
    /\ Return(c, "failed")

\* Slip: a refusal is waited out like a transient fault.
FailsWhenExhausted(c) ==
    LET r == calls[c].request IN
    /\ Trying(c)
    /\ FailsTransiently(r) /\ calls[c].attempt = MaxAttempts
    /\ Return(c, "failed")
    /\ audit' = [audit EXCEPT ![r.op][r.key].failed = @ + 1]

Fails(c) ==
    LET r == calls[c].request IN
    /\ Trying(c)
    /\ \/ FailsTransiently(r) /\ calls[c].attempt = MaxAttempts
       \/ IsRefused(r)
    /\ Return(c, "failed")
    /\ audit' = [audit EXCEPT ![r.op][r.key].failed = @ + 1]

\* DomainValidationError is no ReservePayError: it passes the handler that audits.
Escapes(c) ==
    /\ Trying(c)
    /\ Overflows(calls[c].request)
    /\ Return(c, "escaped")
    /\ UNCHANGED audit

Attempt(c) == Succeeds(c) \/ Retries(c) \/ Fails(c) \/ Escapes(c)

\* The block a call that returned ok was answered with.
Result(c) == registry[Scope(calls[c].request)].snapshot

-----------------------------------------------------------------------------
ClientCalls ==
    MapThenSumSet(LAMBDA p : audit[p[1]][p[2]].requested, Operations \X ClientKeys)

\* A caller asks for one of the four operations under a key of its own.
Issue(c) ==
    /\ ClientCalls < MaxCalls
    /\ \E r \in Requests : r.key \in ClientKeys /\ StartCall(c, r)

ServiceInit ==
    /\ ProviderInit
    /\ calls = [c \in Callers |-> [phase |-> "idle", request |-> NoRequest, attempt |-> 0]]
    /\ audit = [op \in Operations |-> [k \in Keys |->
                    [requested |-> 0, succeeded |-> 0, failed |-> 0]]]

ServiceNext == \E c \in Callers : Issue(c) \/ Attempt(c)

\* A call in its retry loop keeps running: time.sleep returns.
ServiceSpec ==
    /\ ServiceInit
    /\ [][ServiceNext]_serviceVars
    /\ \A c \in Callers : WF_serviceVars(Attempt(c))

-----------------------------------------------------------------------------
(* Properties *)

\* The calls are requests the provider accepts and the counts are counts.
ServiceTypeOK ==
    /\ TypeOK
    /\ calls \in [Callers -> Call]
    /\ audit \in [Operations -> [Keys -> Trail]]

InFlight(op, k) ==
    Cardinality({c \in Callers : /\ Trying(c)
                                 /\ calls[c].request.op = op
                                 /\ calls[c].request.key = k})

Ended(trail) == trail.succeeded + trail.failed

\* Of every create, debit and release the audit trail says how it ended: each
\* REQUESTED event is followed by exactly one outcome once the call is over.
OutcomesAreAudited ==
    \A op \in Operations \ {"increase"}, k \in Keys :
        audit[op][k].requested = Ended(audit[op][k]) + InFlight(op, k)

\* The same for increases too, as README "Provider failures are normalized as
\* credential-safe ReservePayError subclasses" promises: no failure passes by
\* the handler that audits it.
EveryOutcomeIsAudited ==
    \A op \in Operations, k \in Keys :
        audit[op][k].requested = Ended(audit[op][k]) + InFlight(op, k)

\* The audit trail shows a success under a key exactly if the provider executed
\* an operation under it, so the trail and the money can be reconciled.
AuditMatchesProvider ==
    \A op \in Operations, k \in Keys :
        audit[op][k].succeeded > 0 <=>
            <<op, k>> \in DOMAIN registry

\* A caller told that its call failed, or that hit an error nobody handles, can
\* rely on it: at that moment its request has not been executed, by this call
\* or by any other one, however its retries interleaved with theirs.
FailureMeansNotExecuted ==
    [][\A c \in Callers :
          Trying(c) /\ calls'[c].phase \in {"failed", "escaped"} =>
              \A e \in Results' : e.request # calls[c].request]_serviceVars

\* Every call gets an answer: the retry loop ends, whatever the provider is set
\* to fail with and whatever other callers do to the block meanwhile.
EveryCallReturns == \A c \in Callers : Trying(c) ~> ~Trying(c)
=============================================================================
