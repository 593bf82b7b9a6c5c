-------------------------- MODULE DynamicExecution --------------------------
(***************************************************************************)
(* The dynamic session and the provider together: authorize_initial_block, *)
(* request_additional_block and confirm_dynamic_increase of                *)
(* ReservePayService, which carry a decision to the provider and its       *)
(* success back into the session.  The two drift apart when an answer      *)
(* comes back for a decision that is no longer the latest.  The retry loop *)
(* of a call is in ReservePayService; here a call is its last attempt.     *)
(***************************************************************************)
EXTENDS DynamicSession, MockReserveProvider

CONSTANT InitialKey     \* the idempotency key of the initial authorization

\* f"{transaction_id}:{event_id}:increase": one key per event.
ASSUME ExecutionAssumption ==
    /\ Events \cup {InitialKey} \subseteq Keys
    /\ InitialKey \notin Events
    /\ Ride \in Transactions
    /\ InitialBlock \in Amounts
    /\ 1 \in BlockIds

VARIABLES
    waiting,    \* provider successes not yet brought to the session
    flagged     \* decisions audited as RECONCILIATION_REQUIRED

executionVars == <<session, decisions, blocks, registry, failures, waiting, flagged>>

RideBlock == 1      \* the block of the ride: the first and only one created

Success == [decision : Decision, total : Nat]

IncreaseRequest(d) ==
    [op |-> "increase", key |-> d.update.event, txn |-> d.update.ride,
     block |-> RideBlock, amount |-> d.additional]

-----------------------------------------------------------------------------
AuthorizeInitial ==
    /\ LET r == [op |-> "create", key |-> InitialKey, txn |-> Ride,
                 block |-> NoBlock, amount |-> InitialBlock]
       IN  Executes(r) \/ Replayed(r) \/ FailsTransiently(r) \/ IsRefused(r)
    /\ UNCHANGED <<session, decisions, waiting, flagged>>

\* The authorized total the provider answered an increase with.
AnsweredTotal(r) ==
    registry'[Scope(r)].snapshot.authorized

\* confirm_dynamic_increase: the answer is confirmed in the session ...
Confirms(d, total) ==
    /\ total = d.target
    /\ \/ Confirmable(d, total) /\ Confirm(d, total)
       \/ ConfirmedAs(d, total) /\ UNCHANGED session
    /\ UNCHANGED flagged

\* Slip: the session's refusal is dropped without a trace.
ReconcilesMismatchOnly(d, total) ==
    /\ \/ total # d.target /\ flagged' = flagged \cup {d}
       \/ /\ ~Confirmable(d, total) /\ ~ConfirmedAs(d, total)
          /\ UNCHANGED flagged
    /\ UNCHANGED session

\* ... or flagged, because it misses the target or the session refuses it.
Reconciles(d, total) ==
    /\ \/ total # d.target
       \/ ~Confirmable(d, total) /\ ~ConfirmedAs(d, total)
    /\ flagged' = flagged \cup {d}
    /\ UNCHANGED session

BringsBack(d, total) == Confirms(d, total) \/ Reconciles(d, total)

ProviderGrants(r) == Executes(r) \/ Replayed(r)

\* No increase is asked for when the current block suffices (NOT_REQUIRED).
Asks(d) ==
    /\ RideBlock \in DOMAIN blocks
    /\ d.additional > 0

\* request_additional_block, granted: confirmed or flagged in the same call.
RequestGranted(d) ==
    /\ Asks(d)
    /\ ProviderGrants(IncreaseRequest(d))
    /\ BringsBack(d, AnsweredTotal(IncreaseRequest(d)))
    /\ UNCHANGED <<decisions, waiting>>

\* Slip: the session is confirmed although the provider failed.
RequestAssumedGranted(d) ==
    LET r == IncreaseRequest(d) IN
    /\ Asks(d)
    /\ FailsTransiently(r) \/ IsRefused(r) \/ Overflows(r)
    /\ Confirmable(d, d.target)
    /\ Confirm(d, d.target)
    /\ UNCHANGED <<decisions, waiting, flagged>>

\* request_additional_block, not granted: FAILED, or the overflow of Money.
RequestNotGranted(d) ==
    LET r == IncreaseRequest(d) IN
    /\ Asks(d)
    /\ FailsTransiently(r) \/ IsRefused(r) \/ Overflows(r)
    /\ UNCHANGED <<session, decisions, waiting, flagged>>

\* increase_block on its own: the success is brought back by a later call.
IncreaseFirst(d) ==
    LET r == IncreaseRequest(d) IN
    /\ Asks(d)
    /\ ProviderGrants(r)
    /\ waiting' = waiting \cup {[decision |-> d, total |-> AnsweredTotal(r)]}
    /\ UNCHANGED <<session, decisions, flagged>>

\* confirm_dynamic_increase, late.
ConfirmLate(w) ==
    /\ BringsBack(w.decision, w.total)
    /\ waiting' = waiting \ {w}
    /\ UNCHANGED <<decisions, blocks, registry, failures>>

-----------------------------------------------------------------------------
ExecutionInit ==
    /\ SessionInit
    /\ ProviderInit
    /\ waiting = {}
    /\ flagged = {}

ExecutionNext ==
    \/ UpdateArrives /\ UNCHANGED <<blocks, registry, failures, waiting, flagged>>
    \/ AuthorizeInitial
    \/ \E d \in decisions : RequestGranted(d) \/ RequestNotGranted(d) \/ IncreaseFirst(d)
    \/ \E w \in waiting : ConfirmLate(w)

ExecutionSpec == ExecutionInit /\ [][ExecutionNext]_executionVars

-----------------------------------------------------------------------------
(* Properties *)

\* Waiting and flagged hold what the session and the provider produced.
ExecutionTypeOK ==
    /\ SessionTypeOK
    /\ TypeOK
    /\ waiting \subseteq Success
    /\ flagged \subseteq decisions

\* The session never believes in more money than the provider holds: failed,
\* stale, dropped and duplicated increases never raise its authorized block
\* above the block's, however their answers are reordered.
SessionNeverAhead ==
    RideBlock \in DOMAIN blocks => session.authorized <= blocks[RideBlock].authorized

\* The decision an executed increase was requested for.
DecisionsOf(e) == {d \in decisions : IncreaseRequest(d) = e.request}

\* No increase is lost: each one the provider executed is confirmed in the
\* session, still to be brought back, or flagged for reconciliation.
NoIncreaseIsLost ==
    \A e \in Results :
        e.request.op = "increase" =>
            \E d \in DecisionsOf(e) :
                \/ ConfirmedAs(d, e.snapshot.authorized)
                \/ d \in flagged
                \/ \E w \in waiting : w.decision = d

\* A difference between session and provider never goes unnoticed: it is exactly
\* the sum of the executed increases that the session has not confirmed.
DifferenceIsExplained ==
    RideBlock \in DOMAIN blocks =>
        blocks[RideBlock].authorized - session.authorized =
            MapThenSumSet(LAMBDA e : e.request.amount,
                          {e \in Results :
                              /\ e.request.op = "increase"
                              /\ ~\E d \in DecisionsOf(e) :
                                    ConfirmedAs(d, e.snapshot.authorized)})

\* A decision that an update has overtaken is never confirmed: the session's
\* authorized block changes only to the target of its latest decision.
OnlyLatestIsConfirmed ==
    [][session'.authorized # session.authorized =>
          LET last == Len(session.processed) IN
          /\ last > 0
          /\ session'.authorized = session.processed[last].decision.target
          /\ session'.version = session.version
          /\ session'.processed = session.processed]_executionVars
=============================================================================
