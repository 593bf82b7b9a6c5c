------------------------- MODULE ReserveSettlement -------------------------
(***************************************************************************)
(* ReservePayService.settle_completed_transaction: after the ride, debit   *)
(* what is still due of the fare and release the whole remainder.  It runs *)
(* under an idempotency key of its own and makes up to three service calls *)
(* (status, debit, release), each of which may fail; the keys of the debit *)
(* and of the release are derived from the settlement's.                   *)
(***************************************************************************)
EXTENDS ReservePayService

CONSTANTS
    SettlementKeys,     \* idempotency keys of settlements
    FaresFor,           \* the fares a settlement key is presented with
    MaxSettlementCalls  \* bound: service calls after which no settlement is begun

\* f"{idempotency_key}:debit" and f"{idempotency_key}:release"
SubKey(k, suffix) == <<k, suffix>>

ASSUME SettlementAssumption ==
    /\ SettlementKeys \X {"debit", "release"} \subseteq Keys
    /\ MaxSettlementCalls \in Nat
    /\ FaresFor \in [SettlementKeys -> SUBSET (1 .. MaxAmount)]

VARIABLES
    settling,   \* what each caller's settlement is at
    settled     \* _settlement_idempotency: the results filed

settlementVars == <<blocks, registry, failures, calls, audit, settling, settled>>

\* A settlement under way is a record of its phase, its request, and what the
\* status read at the start showed to be due and to be debited already.
NotSettling == [phase |-> "none"]
Broken      == [phase |-> "broken"]     \* SettlementResult refused its own figures

-----------------------------------------------------------------------------
\* Slip: what was debited before the settlement is forgotten.
DueInFull(s, b) == s.fare

Due(s, b) == IF s.fare > b.debited THEN s.fare - b.debited ELSE 0

DebitRequest(s, amount) ==
    [op |-> "debit", key |-> SubKey(s.key, "debit"), txn |-> s.txn,
     block |-> s.block, amount |-> amount]

ReleaseRequest(s, amount) ==
    [op |-> "release", key |-> SubKey(s.key, "release"), txn |-> s.txn,
     block |-> s.block, amount |-> amount]

\* execute files under the key whatever is there by now.
FileSettlement(s, verdict) ==
    settled' = {e \in settled : e.request.key # s.key}
                  \cup {[request |-> s, verdict |-> verdict]}

Enter(c, progress) == settling' = [settling EXCEPT ![c] = progress]

\* SettlementResult.__post_init__
ResultHolds(s, prior, newly, final) ==
    /\ prior + newly = final.debited
    /\ prior <= s.fare => final.debited <= s.fare

\* The end of action(): build the result and file it, or raise ValueError.
Conclude(c, s, prior, newly, final) ==
    IF ResultHolds(s, prior, newly, final)
    THEN /\ FileSettlement(s, IF prior > s.fare THEN "OVERPAID" ELSE "SETTLED")
         /\ Enter(c, NotSettling)
    ELSE /\ Enter(c, Broken)
         /\ UNCHANGED settled

\* Release what final shows to be left, or conclude if that is nothing.
ReleaseRest(c, s, prior, newly, final) ==
    IF final.remaining > 0
    THEN /\ StartCall(c, ReleaseRequest(s, final.remaining))
         /\ Enter(c, [phase |-> "releasing", request |-> s, due |-> newly, prior |-> prior])
         /\ UNCHANGED settled
    ELSE /\ Conclude(c, s, prior, newly, final)
         /\ UNCHANGED <<blocks, registry, failures, calls, audit>>

-----------------------------------------------------------------------------
(* The steps of a settlement *)

Idle(c) == ~Trying(c) /\ settling[c] \in {NotSettling, Broken}

\* The key was used before: the same result again, or IdempotencyConflictError.
SettlementAnswered(c, s) ==
    /\ Idle(c)
    /\ \E e \in settled : e.request.key = s.key
    /\ UNCHANGED settlementVars

\* The status read of a fresh key; a block that is not this transaction's ends it.
SettlementStarts(c, s) ==
    /\ Idle(c)
    /\ \A e \in settled : e.request.key # s.key
    /\ s.block \in DOMAIN blocks
    /\ blocks[s.block].txn = s.txn

StatusRefused(c, s) ==
    /\ Idle(c)
    /\ \A e \in settled : e.request.key # s.key
    /\ s.block \notin DOMAIN blocks \/ (s.block \in DOMAIN blocks /\ blocks[s.block].txn # s.txn)
    /\ UNCHANGED settlementVars

\* More is due than is reserved: nothing moves, and the shortfall is the result.
SettleShort(c, s) ==
    /\ SettlementStarts(c, s)
    /\ Due(s, blocks[s.block]) > blocks[s.block].remaining
    /\ FileSettlement(s, "INSUFFICIENT")
    /\ Enter(c, NotSettling)
    /\ UNCHANGED <<blocks, registry, failures, calls, audit>>

SettleDebit(c, s) ==
    LET b == blocks[s.block] IN
    /\ SettlementStarts(c, s)
    /\ Due(s, b) \in 1 .. b.remaining
    /\ StartCall(c, DebitRequest(s, Due(s, b)))
    /\ Enter(c, [phase |-> "debiting", request |-> s, due |-> Due(s, b), prior |-> b.debited])
    /\ UNCHANGED settled

\* Slip: the release does not wait for the debit.
SettleByRelease(c, s) ==
    LET b == blocks[s.block] IN
    /\ SettlementStarts(c, s)
    /\ ReleaseRest(c, s, b.debited, 0, b)

SettleNothingDue(c, s) ==
    LET b == blocks[s.block] IN
    /\ SettlementStarts(c, s)
    /\ Due(s, b) = 0
    /\ ReleaseRest(c, s, b.debited, 0, b)

\* Slip: the settlement ends with its debit and keeps the remainder blocked.
DebitEnds(c) ==
    LET p == settling[c] IN
    /\ p.phase = "debiting"
    /\ calls[c].phase = "ok"
    /\ Conclude(c, p.request, p.prior, p.due, Result(c))
    /\ UNCHANGED <<blocks, registry, failures, calls, audit>>

\* The debit was answered: go on with the block of the answer.
DebitReturns(c) ==
    LET p == settling[c] IN
    /\ p.phase = "debiting"
    /\ calls[c].phase = "ok"
    /\ ReleaseRest(c, p.request, p.prior, p.due, Result(c))

ReleaseReturns(c) ==
    LET p == settling[c] IN
    /\ p.phase = "releasing"
    /\ calls[c].phase = "ok"
    /\ Conclude(c, p.request, p.prior, p.due, Result(c))
    /\ UNCHANGED <<blocks, registry, failures, calls, audit>>

\* Slip: the error of a failed release is swallowed.
SettlementAbortsOnDebit(c) ==
    /\ settling[c].phase = "debiting"
    /\ calls[c].phase = "failed"
    /\ Enter(c, NotSettling)
    /\ UNCHANGED <<blocks, registry, failures, calls, audit, settled>>

\* A service call failed: the error leaves the settlement, which files nothing.
SettlementAborts(c) ==
    /\ settling[c].phase \in {"debiting", "releasing"}
    /\ calls[c].phase = "failed"
    /\ Enter(c, NotSettling)
    /\ UNCHANGED <<blocks, registry, failures, calls, audit, settled>>

-----------------------------------------------------------------------------
Settlements ==
    UNION {[key : {k}, txn : Transactions, block : BlockIds, fare : FaresFor[k]] :
              k \in SettlementKeys}

SettlementCalls ==
    MapThenSumSet(LAMBDA p : audit[p[1]][p[2]].requested,
                  {"debit", "release"} \X (Keys \ ClientKeys))

SettleCalled(c) ==
    /\ SettlementCalls < MaxSettlementCalls
    /\ \E s \in Settlements :
          \/ SettlementAnswered(c, s) \/ StatusRefused(c, s)
          \/ SettleShort(c, s) \/ SettleDebit(c, s) \/ SettleNothingDue(c, s)

SettlementGoesOn(c) ==
    \/ Attempt(c) /\ UNCHANGED <<settling, settled>>
    \/ DebitReturns(c) \/ ReleaseReturns(c) \/ SettlementAborts(c)

\* Callers use the provider directly too, before and between settlements.
ClientIssues(c) == Idle(c) /\ Issue(c) /\ UNCHANGED <<settling, settled>>

SettlementInit ==
    /\ ServiceInit
    /\ settling = [c \in Callers |-> NotSettling]
    /\ settled = {}

SettlementNext ==
    \E c \in Callers : ClientIssues(c) \/ SettleCalled(c) \/ SettlementGoesOn(c)

\* A settlement runs to its end in the thread that called it.
SettlementSpec ==
    /\ SettlementInit
    /\ [][SettlementNext]_settlementVars
    /\ \A c \in Callers : WF_settlementVars(SettlementGoesOn(c))

-----------------------------------------------------------------------------
(* Properties *)

\* A ride reported settled is paid: from then on its block has debited exactly
\* the fare and holds nothing back, whatever failed on the way there and
\* whatever is asked of the block afterwards.
SettledMeansPaid ==
    \A e \in settled :
        e.verdict = "SETTLED" =>
            LET b == blocks[e.request.block] IN
            b.debited = e.request.fare /\ b.remaining = 0

\* A settlement never collects beyond the fare: when one of its steps debits
\* the block, the block has then debited at most the fare.
NeverCollectsBeyondFare ==
    [][\A c \in Callers :
          settling[c].phase = "debiting" /\ Trying(c) =>
              LET s == settling[c].request IN
              blocks'[s.block].debited > blocks[s.block].debited =>
                  blocks'[s.block].debited <= s.fare]_settlementVars

\* A settlement releases only what the fare no longer needs (README: it "debits
\* only that outstanding amount and releases the full unused remainder"): a
\* block that one of its steps releases has debited the fare by then.
ReleasesOnlyTheRest ==
    [][\A c \in Callers :
          settling[c].phase = "releasing" /\ Trying(c) =>
              LET s == settling[c].request IN
              blocks'[s.block].released > blocks[s.block].released =>
                  blocks'[s.block].debited >= s.fare]_settlementVars

\* The figures a settlement reports always add up, however many of its earlier
\* attempts failed half way: SettlementResult never refuses them.
FiguresAddUp == \A c \in Callers : settling[c] # Broken

\* A settlement does not hang between its debit and its release.
SettlementEnds ==
    \A c \in Callers :
        settling[c].phase \in {"debiting", "releasing"} ~>
            settling[c].phase \in {"none", "broken"}
=============================================================================
