------------------------ MODULE DynamicExecution_proofs ------------------------
(***************************************************************************)
(* Proofs about the dynamic session and the provider together: what is     *)
(* waiting to be brought back was filed by the provider, the provider's    *)
(* block never shrinks, and so the session stays behind it, no executed    *)
(* increase is lost and only the latest decision is ever confirmed.        *)
(***************************************************************************)
EXTENDS DynamicExecution, MockReserveProvider_proofs

\* Decisions are about the ride of the session.
DecisionsOfRide == \A d \in decisions : d.update.ride = Ride

\* What waits is an answer of the provider to one of them.
WaitingIsFiled ==
    \A w \in waiting :
        /\ w.decision \in decisions
        /\ \E e \in Results : /\ e.request = IncreaseRequest(w.decision)
                               /\ e.snapshot.authorized = w.total

Kept == ExecutionTypeOK /\ OneResultPerKey /\ DecisionsOfRide /\ WaitingIsFiled

-----------------------------------------------------------------------------
(* The session *)

LEMMA BlocksAreAmounts == Target \in [Contexts -> Nat \ {0}] /\ InitialBlock \in Nat \ {0}
BY SessionAssumption DEF InitialBlock

\* A decision about an update that is accepted.
LEMMA DecideIsTyped ==
    ASSUME SessionTypeOK, NEW u \in Updates, Accepted(u)
    PROVE  u \in Update /\ Decide(u) \in Decision /\ Decide(u).update.ride = Ride
<1>1. /\ session.version \in Nat /\ session.authorized \in Nat
      /\ session.processed \in Seq([update : Update, decision : Decision])
  BY DEF SessionTypeOK, Session
<1>2. u.sequence \in Nat \ {0}
  BY <1>1 DEF Accepted
<1>3. /\ u \in Update /\ u.context \in Contexts
  BY <1>2 DEF Updates, Update
<1>4. Target[u.context] \in Nat
  BY <1>3, BlocksAreAmounts
<1>5. Additional(Target[u.context]) \in Nat
  BY <1>1, <1>4 DEF Additional
<1> QED
  BY <1>1, <1>3, <1>4, <1>5 DEF Decide, Decision, Accepted

\* Updates keep the session typed, and its block and confirmations as they are.
LEMMA UpdateStep ==
    ASSUME SessionTypeOK, UpdateArrives
    PROVE  /\ SessionTypeOK'
           /\ session'.authorized = session.authorized
           /\ session'.confirmed = session.confirmed
           /\ decisions \subseteq decisions'
           /\ \A d \in decisions' : d \in decisions \/ d.update.ride = Ride
<1>1. PICK u \in Updates : ApplyUpdate(u) \/ ApplyAndDrop(u) \/ UpdateChangesNothing(u)
  BY DEF UpdateArrives
<1>2. CASE UpdateChangesNothing(u)
  BY <1>2 DEF UpdateChangesNothing, sessionVars, SessionTypeOK
<1>3. CASE ApplyAndDrop(u)
  BY <1>3, DecideIsTyped DEF ApplyAndDrop, Issue, SessionTypeOK
<1>4. CASE ApplyUpdate(u)
  <2>1. /\ u \in Update /\ Decide(u) \in Decision /\ Decide(u).update.ride = Ride
        /\ u.context \in Contexts /\ u.at \in Nat
    BY <1>4, DecideIsTyped, SessionAssumption DEF ApplyUpdate, Updates
  <2>2. decisions' = decisions \cup {Decide(u)}
    BY <1>4 DEF ApplyUpdate, Issue
  <2> DEFINE entry == [update |-> u, decision |-> Decide(u)]
  <2>3. entry \in [update : Update, decision : Decision]
    BY <2>1
  <2>4. session' = [session EXCEPT !.context = u.context, !.version = @ + 1,
                                   !.lastUpdate = u.at, !.processed = Append(@, entry)]
    BY <1>4 DEF ApplyUpdate
  <2> HIDE DEF entry
  <2>5. session \in Session
    BY DEF SessionTypeOK
  <2>6. Append(session.processed, entry) \in Seq([update : Update, decision : Decision])
    BY <2>3, <2>5 DEF Session
  <2>7. session' \in Session
    <3>1. /\ session.version + 1 \in Nat /\ session.authorized \in Nat
          /\ session.confirmed \in SUBSET [event : Events, amount : Nat]
      BY <2>5 DEF Session
    <3>2. session' = [context |-> u.context, authorized |-> session.authorized,
                      version |-> session.version + 1, lastUpdate |-> u.at,
                      processed |-> Append(session.processed, entry),
                      confirmed |-> session.confirmed]
      BY <2>4, <2>5 DEF Session
    <3> QED
      BY <2>1, <2>6, <3>1, <3>2 DEF Session
  <2>8. session'.authorized = session.authorized /\ session'.confirmed = session.confirmed
    BY <2>4, <2>5 DEF Session
  <2> QED
    BY <2>1, <2>2, <2>7, <2>8 DEF SessionTypeOK
<1> QED
  BY <1>1, <1>2, <1>3, <1>4

\* After the step, also for an amount that is itself known after it only.
ConfirmedNow(d, total) ==
    \E c \in session'.confirmed : c.event = d.update.event /\ c.amount = total

\* An answer brought back is confirmed or flagged, and confirms nothing else.
LEMMA BringsBackStep ==
    ASSUME SessionTypeOK, flagged \subseteq decisions, NEW d \in decisions, NEW total,
           BringsBack(d, total), decisions' = decisions
    PROVE  /\ SessionTypeOK'
           /\ flagged \subseteq flagged' /\ flagged' \subseteq decisions
           /\ session.confirmed \subseteq session'.confirmed
           /\ session'.authorized # session.authorized => session'.authorized = total
           /\ ConfirmedNow(d, total) \/ d \in flagged'
<1>1. session \in Session /\ decisions \subseteq Decision /\ d \in Decision
  BY DEF SessionTypeOK
<1>2. CASE UNCHANGED session /\ ConfirmedAs(d, total) /\ UNCHANGED flagged
  BY <1>2 DEF SessionTypeOK, ConfirmedAs, ConfirmedNow
<1>3. CASE Reconciles(d, total)
  BY <1>3 DEF Reconciles, SessionTypeOK
<1>4. CASE total = d.target /\ Confirm(d, total) /\ UNCHANGED flagged
  <2>1. total \in Nat /\ d.update.event \in Events
    BY <1>1, <1>4 DEF Decision, Update
  <2> DEFINE c == [event |-> d.update.event, amount |-> total]
  <2>2. c \in [event : Events, amount : Nat] /\ c.event = d.update.event /\ c.amount = total
    BY <2>1
  <2>3. session' = [session EXCEPT !.authorized = total, !.confirmed = @ \cup {c}]
    BY <1>4 DEF Confirm
  <2> HIDE DEF c
  <2>4. /\ session' \in Session /\ session'.confirmed = session.confirmed \cup {c}
        /\ session'.authorized = total
    BY <1>1, <2>1, <2>2, <2>3 DEF Session
  <2> QED
    BY <1>4, <2>2, <2>4 DEF SessionTypeOK, ConfirmedNow
<1> QED
  BY <1>2, <1>3, <1>4 DEF BringsBack, Confirms

-----------------------------------------------------------------------------
(* The provider *)

LEMMA AskedIsRequest ==
    ASSUME SessionTypeOK, DecisionsOfRide, NEW d \in decisions, d.additional > 0
    PROVE  IncreaseRequest(d) \in Request
<1>1. /\ d \in Decision /\ d.update.event \in Keys
      /\ d.update.ride \in Transactions /\ d.additional \in Nat \ {0}
  BY ExecutionAssumption DEF SessionTypeOK, DecisionsOfRide, Decision, Update
<1>2. RideBlock \in BlockIds /\ "increase" \in Operations \ {"create"}
  BY ExecutionAssumption DEF RideBlock, Operations
<1> QED
  BY <1>1, <1>2 DEF IncreaseRequest, Request, BlockRequest

InitialRequest ==
    [op |-> "create", key |-> InitialKey, txn |-> Ride, block |-> NoBlock, amount |-> InitialBlock]

LEMMA InitialIsRequest == InitialRequest \in Request
BY ExecutionAssumption DEF InitialRequest, Request, CreateRequest

\* The answer to a request that was granted is the one filed.
LEMMA AnswerIsFiled ==
    ASSUME NEW r, ProviderGrants(r)
    PROVE  \E e \in Results' : e.request = r /\ e.snapshot.authorized = AnsweredTotal(r)
<1>1. registry'[Scope(r)] \in Results' /\ registry'[Scope(r)].request = r
  BY SuccessIsFiled DEF ProviderGrants
<1> QED
  BY <1>1 DEF AnsweredTotal

LEMMA ProviderMoves ==
    ASSUME Kept, [ExecutionNext]_executionVars
    PROVE  [ProviderStep]_providerVars
<1>1. SessionTypeOK /\ DecisionsOfRide
  BY DEF Kept, ExecutionTypeOK
<1>2. ASSUME AuthorizeInitial PROVE ProviderStep
  BY <1>2, InitialIsRequest DEF AuthorizeInitial, InitialRequest, ProviderStep
<1>3. ASSUME NEW d \in decisions, RequestGranted(d) \/ RequestNotGranted(d) \/ IncreaseFirst(d)
      PROVE  ProviderStep
  <2>1. IncreaseRequest(d) \in Request
    BY <1>1, <1>3, AskedIsRequest DEF RequestGranted, RequestNotGranted, IncreaseFirst, Asks
  <2> QED
    BY <1>3, <2>1
    DEF RequestGranted, RequestNotGranted, IncreaseFirst, ProviderGrants, ProviderStep
<1>4. ASSUME UpdateArrives /\ UNCHANGED <<blocks, registry, failures, waiting, flagged>>
      PROVE  UNCHANGED providerVars
  BY <1>4 DEF providerVars
<1>5. ASSUME NEW w \in waiting, ConfirmLate(w) PROVE UNCHANGED providerVars
  BY <1>5 DEF ConfirmLate, providerVars
<1>6. CASE UNCHANGED executionVars
  BY <1>6 DEF executionVars, providerVars
<1> QED
  BY <1>2, <1>3, <1>4, <1>5, <1>6 DEF ExecutionNext

\* The registry only grows.
LEMMA RegistryGrows ==
    ASSUME [ProviderStep]_providerVars
    PROVE  Results \subseteq Results'
BY ResultsStep

-----------------------------------------------------------------------------
(* Types, and where what waits comes from *)

\* A filed answer to a request is the only one.
LEMMA OneAnswer ==
    ASSUME OneResultPerKey, NEW e \in Results, NEW f \in Results, e.request = f.request
    PROVE  e = f
BY DEF OneResultPerKey, SameKey

LEMMA KeptInductive == Kept /\ [ExecutionNext]_executionVars => Kept'
<1> SUFFICES ASSUME Kept, [ExecutionNext]_executionVars PROVE Kept'
  OBVIOUS
<1>1. /\ SessionTypeOK /\ TypeOK /\ OneResultPerKey /\ DecisionsOfRide /\ WaitingIsFiled
      /\ waiting \subseteq Success /\ flagged \subseteq decisions
  BY DEF Kept, ExecutionTypeOK
<1>2. TypeOK' /\ OneResultPerKey' /\ Results \subseteq Results'
  BY <1>1, ProviderMoves, TypeInductive, OneResultPerKeyInductive, RegistryGrows
<1> DEFINE Goal == /\ SessionTypeOK' /\ DecisionsOfRide' /\ WaitingIsFiled'
                   /\ waiting' \subseteq Success /\ flagged' \subseteq decisions'
<1>3. ASSUME waiting' \subseteq waiting, decisions \subseteq decisions'
      PROVE  WaitingIsFiled' /\ waiting' \subseteq Success
  BY <1>1, <1>2, <1>3 DEF WaitingIsFiled
<1>4. ASSUME UNCHANGED executionVars PROVE Goal
  BY <1>1, <1>4 DEF executionVars, SessionTypeOK, DecisionsOfRide, WaitingIsFiled, Results
<1>5. ASSUME UpdateArrives, UNCHANGED <<blocks, registry, failures, waiting, flagged>>
      PROVE  Goal
  <2>1. SessionTypeOK' /\ decisions \subseteq decisions' /\ DecisionsOfRide'
    BY <1>1, <1>5, UpdateStep DEF DecisionsOfRide
  <2> QED
    BY <1>1, <1>3, <1>5, <2>1
<1>6. ASSUME AuthorizeInitial PROVE Goal
  BY <1>1, <1>3, <1>6 DEF AuthorizeInitial, SessionTypeOK, DecisionsOfRide
<1>7. ASSUME NEW d \in decisions, RequestGranted(d) PROVE Goal
  <2>1. UNCHANGED <<decisions, waiting>> /\ BringsBack(d, AnsweredTotal(IncreaseRequest(d)))
    BY <1>7 DEF RequestGranted
  <2>2. SessionTypeOK' /\ flagged' \subseteq decisions
    BY <1>1, <2>1, BringsBackStep
  <2> QED
    BY <1>1, <1>3, <2>1, <2>2 DEF DecisionsOfRide
<1>8. ASSUME NEW d \in decisions, RequestNotGranted(d) PROVE Goal
  BY <1>1, <1>3, <1>8 DEF RequestNotGranted, SessionTypeOK, DecisionsOfRide
<1>9. ASSUME NEW d \in decisions, IncreaseFirst(d) PROVE Goal
  <2> DEFINE r == IncreaseRequest(d)
             w == [decision |-> d, total |-> AnsweredTotal(r)]
  <2>1. /\ waiting' = waiting \cup {w} /\ ProviderGrants(r)
        /\ UNCHANGED <<session, decisions, flagged>>
    BY <1>9 DEF IncreaseFirst
  <2>2. PICK e \in Results' : e.request = r /\ e.snapshot.authorized = AnsweredTotal(r)
    BY <2>1, AnswerIsFiled
  <2>3. AnsweredTotal(r) \in Nat
    BY <1>2, <2>2 DEF TypeOK, Results, Record, Block
  <2>4. w \in Success /\ w.decision = d /\ w.total = AnsweredTotal(r)
    BY <1>1, <2>3 DEF Success, SessionTypeOK
  <2> HIDE DEF w, r
  <2>5. waiting' \subseteq Success
    BY <1>1, <2>1, <2>4
  <2>6. WaitingIsFiled'
    <3> SUFFICES ASSUME NEW v \in waiting'
                 PROVE  /\ v.decision \in decisions'
                        /\ \E f \in Results' : /\ f.request = IncreaseRequest(v.decision)
                                                /\ f.snapshot.authorized = v.total
      BY DEF WaitingIsFiled, IncreaseRequest
    <3>1. CASE v = w
      BY <2>1, <2>2, <2>4, <3>1 DEF r
    <3>2. CASE v \in waiting
      BY <1>1, <1>2, <2>1, <3>2 DEF WaitingIsFiled
    <3> QED
      BY <2>1, <3>1, <3>2
  <2> QED
    BY <1>1, <2>1, <2>5, <2>6 DEF SessionTypeOK, DecisionsOfRide
<1>10. ASSUME NEW w \in waiting, ConfirmLate(w) PROVE Goal
  <2>1. /\ waiting' \subseteq waiting /\ decisions' = decisions
        /\ BringsBack(w.decision, w.total) /\ w.decision \in decisions
    BY <1>1, <1>10 DEF ConfirmLate, WaitingIsFiled
  <2>2. SessionTypeOK' /\ flagged' \subseteq decisions
    BY <1>1, <2>1, BringsBackStep
  <2> QED
    BY <1>1, <1>3, <2>1, <2>2 DEF DecisionsOfRide
<1>11. Goal
  BY <1>4, <1>5, <1>6, <1>7, <1>8, <1>9, <1>10 DEF ExecutionNext
<1> QED
  BY <1>2, <1>11 DEF Kept, ExecutionTypeOK

LEMMA KeptAtFirst == ExecutionInit => Kept
<1> SUFFICES ASSUME ExecutionInit PROVE Kept
  OBVIOUS
<1>1. session \in Session
  BY BlocksAreAmounts, SessionAssumption DEF ExecutionInit, SessionInit, Session
<1>2. TypeOK
  BY ProviderAssumption DEF ExecutionInit, ProviderInit, TypeOK
<1> QED
  BY <1>1, <1>2
  DEF ExecutionInit, SessionInit, ProviderInit, Kept, ExecutionTypeOK, SessionTypeOK,
      OneResultPerKey, Results, DecisionsOfRide, WaitingIsFiled

LEMMA ExecutionIsKept == ExecutionSpec => []Kept
BY KeptAtFirst, KeptInductive, PTL DEF ExecutionSpec

\* Whatever updates, drops, answers and late answers follow one another, session,
\* decisions, answers on their way and flags are what the data classes can hold.
THEOREM ExecutionTypeCorrect == ExecutionSpec => []ExecutionTypeOK
BY ExecutionIsKept, PTL DEF Kept

-----------------------------------------------------------------------------
(* No increase is lost *)

LEMMA LossInductive ==
    Kept /\ NoIncreaseIsLost /\ [ExecutionNext]_executionVars => NoIncreaseIsLost'
<1> SUFFICES ASSUME Kept, NoIncreaseIsLost, [ExecutionNext]_executionVars,
                    NEW e \in Results', e.request.op = "increase"
             PROVE  \E d \in decisions' :
                        /\ IncreaseRequest(d) = e.request
                        /\ \/ ConfirmedNow(d, e.snapshot.authorized)
                           \/ d \in flagged'
                           \/ \E w \in waiting' : w.decision = d
  BY DEF NoIncreaseIsLost, DecisionsOf, IncreaseRequest, ConfirmedAs, ConfirmedNow
<1> DEFINE Goal == \E d \in decisions' :
                        /\ IncreaseRequest(d) = e.request
                        /\ \/ ConfirmedNow(d, e.snapshot.authorized)
                           \/ d \in flagged'
                           \/ \E w \in waiting' : w.decision = d
<1>1. /\ SessionTypeOK /\ OneResultPerKey /\ OneResultPerKey' /\ WaitingIsFiled
      /\ flagged \subseteq decisions /\ Results \subseteq Results'
  BY ProviderMoves, OneResultPerKeyInductive, RegistryGrows DEF Kept, ExecutionTypeOK
<1>2. ASSUME e \in Results, waiting \subseteq waiting', decisions \subseteq decisions',
             flagged \subseteq flagged', session.confirmed \subseteq session'.confirmed
      PROVE  Goal
  BY <1>2 DEF NoIncreaseIsLost, DecisionsOf, ConfirmedAs, ConfirmedNow
<1>3. CASE UNCHANGED executionVars
  BY <1>2, <1>3 DEF executionVars, Results
<1>4. CASE UpdateArrives /\ UNCHANGED <<blocks, registry, failures, waiting, flagged>>
  BY <1>1, <1>2, <1>4, UpdateStep DEF Results
<1>5. CASE AuthorizeInitial
  <2>1. e \in Results
    <3>1. CASE Results' = Results
      BY <3>1
    <3>2. CASE Executes(InitialRequest) \/ Replayed(InitialRequest)
      <4>1. InitialRequest.op = "create"
        BY DEF InitialRequest
      <4> HIDE DEF Goal
      <4>2. \/ Results' = Results
            \/ \E f : f.request = InitialRequest /\ Results' = Results \cup {f}
        BY <3>2, SuccessIsFiled
      <4> QED
        BY <4>1, <4>2
    <3> QED
      BY <1>5, <3>1, <3>2
      DEF AuthorizeInitial, InitialRequest, FailsTransiently, TimesOut, Unavailable,
          IsRefused, Conflicted, Rejected, Denied, Insufficient, providerVars, Results
  <2> QED
    BY <1>2, <1>5, <2>1 DEF AuthorizeInitial
<1>6. ASSUME NEW d \in decisions, RequestNotGranted(d) PROVE Goal
  <2>1. Results' = Results
    BY <1>6 DEF RequestNotGranted, FailsTransiently, TimesOut, Unavailable, IsRefused,
                Conflicted, Rejected, Denied, Insufficient, Overflows, providerVars, Results
  <2> QED
    BY <1>2, <1>6, <2>1 DEF RequestNotGranted
<1>7. ASSUME NEW d \in decisions, ProviderGrants(IncreaseRequest(d)),
             e.request # IncreaseRequest(d)
      PROVE  e \in Results
  BY <1>7, SuccessIsFiled DEF ProviderGrants
<1>8. ASSUME NEW d \in decisions, RequestGranted(d) PROVE Goal
  <2>1. /\ ProviderGrants(IncreaseRequest(d)) /\ UNCHANGED <<decisions, waiting>>
        /\ BringsBack(d, AnsweredTotal(IncreaseRequest(d)))
    BY <1>8 DEF RequestGranted
  <2>2. /\ flagged \subseteq flagged' /\ session.confirmed \subseteq session'.confirmed
        /\ ConfirmedNow(d, AnsweredTotal(IncreaseRequest(d))) \/ d \in flagged'
    BY <1>1, <2>1, BringsBackStep
  <2>3. CASE e.request = IncreaseRequest(d)
    <3>1. PICK f \in Results' : /\ f.request = IncreaseRequest(d)
                                 /\ f.snapshot.authorized = AnsweredTotal(IncreaseRequest(d))
      BY <2>1, AnswerIsFiled
    <3>2. e = f
      BY <1>1, <2>3, <3>1 DEF OneResultPerKey, SameKey
    <3> QED
      BY <2>1, <2>2, <2>3, <3>1, <3>2
  <2> QED
    BY <1>2, <1>7, <2>1, <2>2, <2>3
<1>9. ASSUME NEW d \in decisions, IncreaseFirst(d) PROVE Goal
  <2> DEFINE w == [decision |-> d, total |-> AnsweredTotal(IncreaseRequest(d))]
  <2>1. /\ waiting' = waiting \cup {w} /\ ProviderGrants(IncreaseRequest(d))
        /\ UNCHANGED <<session, decisions, flagged>>
    BY <1>9 DEF IncreaseFirst
  <2>2. w.decision = d
    OBVIOUS
  <2> HIDE DEF w
  <2>3. CASE e.request = IncreaseRequest(d)
    BY <2>1, <2>2, <2>3
  <2> QED
    BY <1>2, <1>7, <2>1, <2>3
<1>10. ASSUME NEW w \in waiting, ConfirmLate(w) PROVE Goal
  <2>1. /\ waiting' = waiting \ {w} /\ decisions' = decisions /\ Results' = Results
        /\ BringsBack(w.decision, w.total) /\ w.decision \in decisions
    BY <1>1, <1>10 DEF ConfirmLate, WaitingIsFiled, Results
  <2>2. /\ flagged \subseteq flagged' /\ session.confirmed \subseteq session'.confirmed
        /\ ConfirmedNow(w.decision, w.total) \/ w.decision \in flagged'
    BY <1>1, <2>1, BringsBackStep
  <2>3. PICK d \in decisions : /\ IncreaseRequest(d) = e.request
                               /\ \/ ConfirmedAs(d, e.snapshot.authorized)
                                  \/ d \in flagged
                                  \/ \E v \in waiting : v.decision = d
    BY <2>1 DEF NoIncreaseIsLost, DecisionsOf
  <2>4. CASE d = w.decision
    <3>1. PICK f \in Results : /\ f.request = IncreaseRequest(d)
                                /\ f.snapshot.authorized = w.total
      BY <1>1, <2>4 DEF WaitingIsFiled
    <3>2. e = f
      BY <1>1, <2>1, <2>3, <3>1, OneAnswer
    <3> QED
      BY <2>1, <2>2, <2>3, <2>4, <3>1, <3>2
  <2>5. CASE d # w.decision
    BY <2>1, <2>2, <2>3, <2>5 DEF ConfirmedAs, ConfirmedNow
  <2> QED
    BY <2>4, <2>5
<1> QED
  BY <1>3, <1>4, <1>5, <1>6, <1>8, <1>9, <1>10 DEF ExecutionNext

\* Each increase the provider executed is confirmed, on its way or flagged, in
\* whatever order decisions are asked for and their answers come back.
THEOREM IncreasesAreKept == ExecutionSpec => []NoIncreaseIsLost
<1>1. ExecutionInit => NoIncreaseIsLost
  BY DEF ExecutionInit, ProviderInit, NoIncreaseIsLost, Results
<1> QED
  BY <1>1, LossInductive, ExecutionIsKept, PTL DEF ExecutionSpec

-----------------------------------------------------------------------------
(* The session stays behind the provider *)

Holds(amount) == RideBlock \in DOMAIN blocks /\ amount <= blocks[RideBlock].authorized

\* Until the ride has a block the session stands at the initial one; after that
\* the block covers the session and every answer an increase was ever given.
Behind ==
    /\ RideBlock \notin DOMAIN blocks => session.authorized = InitialBlock
    /\ \A e \in Results : e.request.op = "increase" => Holds(e.snapshot.authorized)
    /\ SessionNeverAhead

LEMMA StoredAmount ==
    ASSUME NEW s \in Seq(Block), NEW id \in DOMAIN s
    PROVE  s[id] \in Block /\ s[id].authorized \in Nat
<1>1. s[id] \in Block
  OBVIOUS
<1> QED
  BY <1>1 DEF Block

\* What a block held, it holds after any step of the provider.
LEMMA BlocksGrow ==
    ASSUME TypeOK, [ProviderStep]_providerVars, NEW id \in DOMAIN blocks
    PROVE  id \in DOMAIN blocks' /\ blocks[id].authorized <= blocks'[id].authorized
<1>1. blocks \in Seq(Block) /\ blocks[id].authorized \in Nat
  BY StoredAmount DEF TypeOK
<1>2. CASE blocks' = blocks
  BY <1>1, <1>2
<1>3. ASSUME NEW r \in Request, CreateBlock(r)
      PROVE  id \in DOMAIN blocks' /\ blocks'[id] = blocks[id]
  <2>1. PICK b : blocks' = Append(blocks, b)
    BY <1>3 DEF CreateBlock
  <2> QED
    BY <1>1, <2>1
<1>4. ASSUME NEW r \in Request, IncreaseBlock(r) \/ DebitBlock(r) \/ ReleaseBlock(r)
      PROVE  id \in DOMAIN blocks' /\ blocks[id].authorized <= blocks'[id].authorized
  <2>1. /\ r.block \in DOMAIN blocks /\ blocks[r.block] \in Block
        /\ blocks[r.block].authorized \in Nat /\ r.amount \in Nat
    BY <1>1, <1>4, RequestFields, StoredAmount
    DEF IncreaseBlock, DebitBlock, ReleaseBlock, Operable
  <2>2. PICK b : /\ blocks' = [blocks EXCEPT ![r.block] = b]
                 /\ b.authorized >= blocks[r.block].authorized
    <3>1. /\ Increased(blocks[r.block], r.amount).authorized >= blocks[r.block].authorized
          /\ Debited(blocks[r.block], r.amount).authorized >= blocks[r.block].authorized
          /\ Released(blocks[r.block], r.amount).authorized >= blocks[r.block].authorized
      BY <2>1 DEF Increased, Debited, Released, Block
    <3> QED
      BY <1>4, <3>1 DEF IncreaseBlock, DebitBlock, ReleaseBlock, Store
  <2> QED
    BY <1>1, <2>1, <2>2
<1>5. ASSUME NEW r \in Request,
             Replayed(r) \/ FailsTransiently(r) \/ IsRefused(r) \/ Overflows(r)
      PROVE  blocks' = blocks
  BY <1>5 DEF Replayed, FailsTransiently, TimesOut, Unavailable, IsRefused,
              Conflicted, Rejected, Denied, Insufficient, Overflows, providerVars, Results
<1> QED
  BY <1>1, <1>2, <1>3, <1>4, <1>5 DEF ProviderStep, Executes, providerVars

\* An increase granted for a decision leaves every answer held.
LEMMA GrantsAreHeld ==
    ASSUME Kept, Behind, NEW d \in decisions, Asks(d), ProviderGrants(IncreaseRequest(d)),
           NEW e \in Results', e.request.op = "increase"
    PROVE  Holds(e.snapshot.authorized)'
<1> DEFINE r == IncreaseRequest(d)
<1>1. TypeOK /\ r \in Request /\ r.block = RideBlock /\ r.op = "increase"
  BY AskedIsRequest DEF Kept, ExecutionTypeOK, Asks, IncreaseRequest
<1>2. [ProviderStep]_providerVars
  BY <1>1 DEF ProviderGrants, ProviderStep
<1>3. RideBlock \in DOMAIN blocks
  BY DEF Asks
<1>4. /\ RideBlock \in DOMAIN blocks'
      /\ blocks[RideBlock].authorized <= blocks'[RideBlock].authorized
  BY <1>1, <1>2, <1>3, BlocksGrow
<1>5. TypeOK'
  BY <1>1, <1>2, TypeInductive
<1>6. /\ blocks[RideBlock].authorized \in Nat /\ blocks'[RideBlock].authorized \in Nat
  BY <1>1, <1>3, <1>4, <1>5, StoredAmount DEF TypeOK
<1>7. CASE e \in Results
  <2>1. e.snapshot.authorized \in Nat /\ e.snapshot.authorized <= blocks[RideBlock].authorized
    BY <1>1, <1>7, ResultsAreTyped DEF Record, Block, Behind, Holds
  <2> QED
    BY <1>4, <1>6, <2>1 DEF Holds, RideBlock
<1>8. CASE e \notin Results
  <2>1. IncreaseBlock(r)
    BY <1>1, <1>8 DEF ProviderGrants, Executes, Replayed, CreateBlock, DebitBlock, ReleaseBlock, providerVars, Results
  <2> DEFINE b == Increased(blocks[r.block], r.amount)
  <2>2. blocks' = [blocks EXCEPT ![RideBlock] = b] /\ File(r, r.block, b)
    BY <1>1, <2>1 DEF IncreaseBlock, Store
  <2> DEFINE x == [request |-> r, id |-> r.block, snapshot |-> b]
  <2>4. Results' = Results \cup {x} /\ x.snapshot = b
    BY <2>1, <2>2, FilingKeepsResults DEF IncreaseBlock, Reaches
  <2> HIDE DEF b, x
  <2>3. e.snapshot = b /\ blocks'[RideBlock] = b
    BY <1>3, <1>8, <2>2, <2>4
  <2> QED
    BY <1>4, <1>6, <2>3 DEF Holds, RideBlock
<1> QED
  BY <1>7, <1>8

LEMMA BehindInductive == Kept /\ Behind /\ [ExecutionNext]_executionVars => Behind'
<1> SUFFICES ASSUME Kept, Behind, [ExecutionNext]_executionVars PROVE Behind'
  OBVIOUS
<1>1. /\ SessionTypeOK /\ TypeOK /\ TypeOK' /\ WaitingIsFiled /\ flagged \subseteq decisions
      /\ [ProviderStep]_providerVars /\ session.authorized \in Nat
  BY ProviderMoves, TypeInductive DEF Kept, ExecutionTypeOK, SessionTypeOK, Session
<1>2. RideBlock \in DOMAIN blocks => /\ blocks[RideBlock].authorized \in Nat
                                     /\ session.authorized <= blocks[RideBlock].authorized
  BY <1>1, StoredAmount DEF TypeOK, Behind, SessionNeverAhead
<1>3. RideBlock \in DOMAIN blocks' => blocks'[RideBlock].authorized \in Nat
  BY <1>1, StoredAmount DEF TypeOK
<1>4. RideBlock \in DOMAIN blocks =>
        /\ RideBlock \in DOMAIN blocks'
        /\ blocks[RideBlock].authorized <= blocks'[RideBlock].authorized
  BY <1>1, BlocksGrow
\* Steps that leave the provider's blocks and results alone.
<1>5. ASSUME blocks' = blocks, Results' = Results,
             \/ session'.authorized = session.authorized
             \/ Holds(session'.authorized)
      PROVE  Behind'
  BY <1>5 DEF Behind, Holds, SessionNeverAhead
<1>6. ASSUME UNCHANGED executionVars PROVE Behind'
  BY <1>5, <1>6 DEF executionVars, Results
<1>7. ASSUME UpdateArrives, UNCHANGED <<blocks, registry, failures, waiting, flagged>>
      PROVE  Behind'
  BY <1>1, <1>5, <1>7, UpdateStep DEF Results
<1>8. ASSUME AuthorizeInitial PROVE Behind'
  <2>1. UNCHANGED session
    BY <1>8 DEF AuthorizeInitial
  <2>2. CASE blocks' = blocks /\ Results' = Results
    BY <1>5, <2>1, <2>2
  <2>3. CASE CreateBlock(InitialRequest)
    <3> DEFINE b == [txn |-> Ride, authorized |-> InitialBlock, remaining |-> InitialBlock,
                     debited |-> 0, released |-> 0, status |-> "AUTHORIZED"]
    <3>1. /\ blocks' = Append(blocks, b)
          /\ File(InitialRequest, Len(blocks) + 1, b)
      BY <2>3 DEF CreateBlock, InitialRequest
    <3>2. b.authorized = InitialBlock
      OBVIOUS
    <3> DEFINE x == [request |-> InitialRequest, id |-> Len(blocks) + 1, snapshot |-> b]
    <3>7. Results' = Results \cup {x} /\ x.request.op = "create"
      BY <2>3, <3>1, FilingKeepsResults DEF CreateBlock, Reaches, InitialRequest
    <3> HIDE DEF b, x
    <3>3. \A e \in Results' : e.request.op = "increase" => e \in Results
      BY <3>7
    <3>4. blocks \in Seq(Block)
      BY <1>1 DEF TypeOK
    <3>5. CASE RideBlock \in DOMAIN blocks
      <4>1. blocks'[RideBlock] = blocks[RideBlock] /\ RideBlock \in DOMAIN blocks'
        BY <3>1, <3>4, <3>5
      <4> QED
        BY <2>1, <3>3, <4>1, <3>5 DEF Behind, Holds, SessionNeverAhead, RideBlock
    <3>6. CASE RideBlock \notin DOMAIN blocks
      <4>1. Len(blocks) = 0
        BY <3>4, <3>6 DEF RideBlock
      <4>2. RideBlock \in DOMAIN blocks' /\ blocks'[RideBlock] = b
        BY <3>1, <3>4, <4>1 DEF RideBlock
      <4>3. session'.authorized = InitialBlock /\ \A e \in Results' : e.request.op # "increase"
        BY <2>1, <3>3, <3>6 DEF Behind, Holds
      <4>4. InitialBlock \in Nat
        BY BlocksAreAmounts
      <4> QED
        BY <3>2, <4>2, <4>3, <4>4 DEF Behind, SessionNeverAhead, RideBlock
    <3> QED
      BY <3>5, <3>6
  <2> QED
    BY <1>8, <2>2, <2>3
    DEF AuthorizeInitial, InitialRequest, Executes, IncreaseBlock, DebitBlock, ReleaseBlock,
        Replayed, FailsTransiently, TimesOut, Unavailable, IsRefused, Conflicted, Rejected,
        Denied, Insufficient, providerVars, Results
<1>9. ASSUME NEW d \in decisions, RequestNotGranted(d) PROVE Behind'
  <2>1. blocks' = blocks /\ Results' = Results /\ UNCHANGED session
    BY <1>9 DEF RequestNotGranted, FailsTransiently, TimesOut, Unavailable, IsRefused,
                Conflicted, Rejected, Denied, Insufficient, Overflows, providerVars, Results
  <2> QED
    BY <1>5, <2>1
<1>10. ASSUME NEW d \in decisions, Asks(d), ProviderGrants(IncreaseRequest(d)),
              \/ session'.authorized = session.authorized
              \/ session'.authorized = AnsweredTotal(IncreaseRequest(d))
       PROVE  Behind'
  <2>1. \A e \in Results' : e.request.op = "increase" => Holds(e.snapshot.authorized)'
    BY <1>10, GrantsAreHeld
  <2>2. PICK e \in Results' : /\ e.request = IncreaseRequest(d)
                               /\ e.snapshot.authorized = AnsweredTotal(IncreaseRequest(d))
    BY <1>10, AnswerIsFiled
  <2>3. e.request.op = "increase"
    BY <2>2 DEF IncreaseRequest
  <2>4. RideBlock \in DOMAIN blocks
    BY <1>10 DEF Asks
  <2>5. session'.authorized <= blocks'[RideBlock].authorized /\ RideBlock \in DOMAIN blocks'
    BY <1>1, <1>2, <1>3, <1>4, <1>10, <2>1, <2>2, <2>3, <2>4 DEF Holds, RideBlock
  <2> QED
    BY <2>1, <2>5 DEF Behind, SessionNeverAhead, Holds, RideBlock
<1>11. ASSUME NEW d \in decisions, RequestGranted(d) PROVE Behind'
  BY <1>1, <1>10, <1>11, BringsBackStep DEF RequestGranted
<1>12. ASSUME NEW d \in decisions, IncreaseFirst(d) PROVE Behind'
  BY <1>10, <1>12 DEF IncreaseFirst
<1>13. ASSUME NEW w \in waiting, ConfirmLate(w) PROVE Behind'
  <2>1. PICK e \in Results : /\ e.request = IncreaseRequest(w.decision)
                              /\ e.snapshot.authorized = w.total
    BY <1>1, <1>13 DEF WaitingIsFiled
  <2>2. Holds(w.total)
    BY <2>1 DEF Behind, IncreaseRequest
  <2>3. session'.authorized = session.authorized \/ session'.authorized = w.total
    BY <1>1, <1>13, BringsBackStep DEF ConfirmLate, WaitingIsFiled
  <2> QED
    BY <1>5, <1>13, <2>2, <2>3 DEF ConfirmLate, Results
<1> QED
  BY <1>6, <1>7, <1>8, <1>9, <1>11, <1>12, <1>13 DEF ExecutionNext

\* However increases fail, are dropped, answered late or answered twice, the
\* session never counts on more than the provider's block holds.
THEOREM SessionStaysBehind == ExecutionSpec => []SessionNeverAhead
<1>1. ExecutionInit => Behind
  BY DEF ExecutionInit, SessionInit, ProviderInit, Behind, SessionNeverAhead, RideBlock, Results
<1>2. Behind => SessionNeverAhead
  BY DEF Behind
<1> QED
  BY <1>1, <1>2, BehindInductive, ExecutionIsKept, PTL DEF ExecutionSpec

-----------------------------------------------------------------------------
(* A difference is explained *)

\* The increases among R that no confirmation in C is of: what ConfirmedAs says
\* of a decision, said of the key its request was filed under.
Opens(R, C) ==
    {e \in R : /\ e.request.op = "increase"
               /\ ~\E c \in C : c.event = e.request.key /\ c.amount = e.snapshot.authorized}

\* Only what was executed is confirmed, and the difference between the session
\* and the provider is what is open.
Explained ==
    /\ IsFiniteSet(Results)
    /\ \A c \in session.confirmed :
          \E e \in Results : e.request.op = "increase" /\ e.request.key = c.event
    /\ RideBlock \in DOMAIN blocks =>
          blocks[RideBlock].authorized - session.authorized =
              Filed(Opens(Results, session.confirmed))

\* Every executed increase has its decision, so the increases without a
\* confirmed decision are those that are open.
LEMMA OpenIsUnconfirmed ==
    ASSUME NoIncreaseIsLost
    PROVE  Opens(Results, session.confirmed) =
               {e \in Results : /\ e.request.op = "increase"
                                 /\ ~\E d \in DecisionsOf(e) :
                                        ConfirmedAs(d, e.snapshot.authorized)}
<1>1. ASSUME NEW e \in Results, e.request.op = "increase"
      PROVE  (\E d \in DecisionsOf(e) : ConfirmedAs(d, e.snapshot.authorized)) <=>
                 \E c \in session.confirmed :
                     c.event = e.request.key /\ c.amount = e.snapshot.authorized
  <2>1. \E d : d \in DecisionsOf(e)
    BY <1>1 DEF NoIncreaseIsLost
  <2>2. \A d \in DecisionsOf(e) : d.update.event = e.request.key
    BY DEF DecisionsOf, IncreaseRequest
  <2> QED
    BY <2>1, <2>2 DEF ConfirmedAs
<1> QED
  BY <1>1 DEF Opens

LEMMA ExplainedMeansExplained == Explained /\ NoIncreaseIsLost => DifferenceIsExplained
<1> SUFFICES ASSUME Explained, NoIncreaseIsLost PROVE DifferenceIsExplained
  OBVIOUS
<1> DEFINE S == {e \in Results : /\ e.request.op = "increase"
                                  /\ ~\E d \in DecisionsOf(e) :
                                         ConfirmedAs(d, e.snapshot.authorized)}
<1>1. Opens(Results, session.confirmed) = S
  BY OpenIsUnconfirmed
<1> HIDE DEF S
<1>2. RideBlock \in DOMAIN blocks =>
          blocks[RideBlock].authorized - session.authorized = Filed(S)
  BY <1>1 DEF Explained
<1>3. DifferenceIsExplained <=>
          (RideBlock \in DOMAIN blocks =>
              blocks[RideBlock].authorized - session.authorized = Filed(S))
  BY DEF DifferenceIsExplained, S, Filed, MapThenSumSet, MapThenFoldSet
<1> QED
  BY <1>2, <1>3

\* What is filed under a key is a request for a positive amount.
LEMMA OpensAreAmounts ==
    ASSUME NEW R \in SUBSET Record, IsFiniteSet(R), NEW C
    PROVE  /\ IsFiniteSet(Opens(R, C)) /\ Opens(R, C) \subseteq R
           /\ \A e \in R : e.request.amount \in Int
           /\ Filed(Opens(R, C)) \in Int
<1>1. Opens(R, C) \subseteq R /\ IsFiniteSet(Opens(R, C))
  BY FS_Subset DEF Opens
<1>2. \A e \in R : e.request.amount \in Int
  BY RequestFields DEF Record
<1> DEFINE w == [e \in Opens(R, C) |-> e.request.amount]
<1>3. \A e \in Opens(R, C) : w[e] = e.request.amount /\ w[e] \in Int
  BY <1>1, <1>2
<1> HIDE DEF w
<1>4. Filed(Opens(R, C)) \in Int
  BY <1>1, <1>3, FiledIsSum, SumType
<1> QED
  BY <1>1, <1>2, <1>4

\* A granted increase raises the block by what it opens, or was open before.
LEMMA GrantOpens ==
    ASSUME Kept, Explained, NEW d \in decisions, Asks(d), ProviderGrants(IncreaseRequest(d))
    PROVE  /\ IsFiniteSet(Results')
           /\ RideBlock \in DOMAIN blocks'
           /\ blocks'[RideBlock].authorized - session.authorized =
                  Filed(Opens(Results', session.confirmed))
<1> DEFINE r == IncreaseRequest(d)
           C == session.confirmed
<1>1. TypeOK /\ r \in Request /\ r.block = RideBlock /\ r.op = "increase" /\ r.key = d.update.event
  BY AskedIsRequest DEF Kept, ExecutionTypeOK, Asks, IncreaseRequest
<1>2. RideBlock \in DOMAIN blocks /\ session.authorized \in Int
  BY DEF Asks, Kept, ExecutionTypeOK, SessionTypeOK, Session
<1>3. CASE Replayed(r)
  BY <1>2, <1>3 DEF Replayed, providerVars, Explained, Results
<1>4. CASE IncreaseBlock(r)
  <2> DEFINE b == Increased(blocks[r.block], r.amount)
             x == [request |-> r, id |-> r.block, snapshot |-> b]
  <2>1. /\ blocks' = [blocks EXCEPT ![RideBlock] = b] /\ Results' = Results \cup {x}
        /\ x.request = r /\ Fresh(r)
    BY <1>1, <1>4, FilingKeepsResults DEF IncreaseBlock, Store, Reaches
  <2>2. b.authorized = blocks[RideBlock].authorized + r.amount /\ r.amount \in Int
    BY <1>1, <1>2, OperationsMoveOneAmount, BlockAmountsAreNumbers, RequestFields
  <2> HIDE DEF b, x
  <2>3. /\ RideBlock \in DOMAIN blocks'
        /\ blocks'[RideBlock].authorized = blocks[RideBlock].authorized + r.amount
        /\ blocks[RideBlock].authorized \in Int
    BY <1>1, <1>2, <2>1, <2>2, BlockAmountsAreNumbers
  <2>4. \A e \in Results : e.request.op = "increase" => e.request.key # r.key
    BY <1>1, <2>1, FreshHasNone DEF SameKey
  <2>5. x \notin Results /\ \A c \in C : c.event # r.key
    BY <1>1, <2>1, <2>4 DEF Explained
  <2>6. Opens(Results', C) = Opens(Results, C) \cup {x}
    BY <1>1, <2>1, <2>5 DEF Opens
  <2>7. Results \in SUBSET Record /\ IsFiniteSet(Results) /\ IsFiniteSet(Results')
    BY <1>1, <2>1, ResultsAreTyped, FS_AddElement DEF Explained
  <2>8. /\ IsFiniteSet(Opens(Results, C)) /\ Opens(Results, C) \subseteq Results
        /\ \A e \in Opens(Results, C) \cup {x} : e.request.amount \in Int
    BY <2>1, <2>2, <2>7, OpensAreAmounts
  <2>9. /\ Filed(Opens(Results, C)) \in Int
        /\ Filed(Opens(Results', C)) = Filed(Opens(Results, C)) + r.amount
    BY <2>1, <2>5, <2>6, <2>8, FilingAdds
  <2>10. blocks[RideBlock].authorized - session.authorized = Filed(Opens(Results, C))
    BY <1>2 DEF Explained
  <2> QED
    BY <1>2, <2>2, <2>3, <2>7, <2>9, <2>10
<1> QED
  BY <1>1, <1>3, <1>4 DEF ProviderGrants, Executes, CreateBlock, DebitBlock, ReleaseBlock

\* An answer brought back closes the increase it confirms, and raises the
\* session by its amount.
LEMMA BringingBackCloses ==
    ASSUME SessionTypeOK, TypeOK', OneResultPerKey', IsFiniteSet(Results'),
           NEW d \in decisions, NEW total, BringsBack(d, total),
           NEW e \in Results', e.request = IncreaseRequest(d), e.snapshot.authorized = total
    PROVE  /\ Filed(Opens(Results', session'.confirmed)) =
                  Filed(Opens(Results', session.confirmed))
                      - (session'.authorized - session.authorized)
           /\ \A c \in session'.confirmed : c \in session.confirmed \/ c.event = e.request.key
<1> DEFINE R == Results'
           C == session.confirmed
           O == Opens(R, C)
<1>1. session \in Session /\ d \in Decision /\ R \in SUBSET Record
  BY DEF SessionTypeOK, TypeOK, Results
<1>2. Filed(O) \in Int /\ IsFiniteSet(O) /\ O \subseteq R /\ \A f \in R : f.request.amount \in Int
  BY <1>1, OpensAreAmounts
<1>3. CASE UNCHANGED session
  <2>1. session.authorized \in Int
    BY <1>1 DEF Session
  <2>2. Opens(R, session'.confirmed) = O /\ session'.authorized - session.authorized = 0
    BY <1>3, <2>1
  <2> HIDE DEF O
  <2>3. Filed(Opens(R, session'.confirmed)) = Filed(O) - 0
    BY <1>2, <2>2
  <2> QED
    BY <1>3, <2>2, <2>3 DEF O
<1>4. CASE Confirmable(d, total) /\ Confirm(d, total)
  <2> DEFINE c == [event |-> d.update.event, amount |-> total]
  <2>1. /\ session'.authorized = total /\ session'.confirmed = C \cup {c}
        /\ c.event = d.update.event /\ c.amount = total
    BY <1>1, <1>4 DEF Confirm, Session
  <2>2. /\ e.request.op = "increase" /\ e.request.key = d.update.event
        /\ e.request.amount = d.additional
    BY DEF IncreaseRequest
  <2> HIDE DEF c
  <2>3. e \in O
    BY <1>4, <2>2 DEF Opens, Confirmable, ConfirmedAtAll
  <2>4. ASSUME NEW f \in R, f.request.op = "increase", f.request.key = d.update.event
        PROVE  f = e
    BY <2>2, <2>4 DEF OneResultPerKey, SameKey
  <2>5. Opens(R, session'.confirmed) = O \ {e}
    BY <2>1, <2>2, <2>3, <2>4 DEF Opens
  <2>6. /\ session.authorized \in Int /\ d.additional \in Int /\ d.previous \in Int
        /\ session'.authorized - session.authorized = d.additional
    BY <1>1, <1>4, <2>1 DEF Confirmable, Session, Decision
  <2> HIDE DEF R, O
  <2>7. IsFiniteSet(O \ {e}) /\ (O \ {e}) \cup {e} = O
    BY <1>2, <2>3, FS_Subset
  <2>8. Filed(O \ {e}) \in Int /\ Filed((O \ {e}) \cup {e}) = Filed(O \ {e}) + e.request.amount
    BY <1>2, <2>7, <2>3, FilingAdds
  <2>9. Filed(O) = Filed(O \ {e}) + d.additional
    BY <2>2, <2>7, <2>8
  <2>10. Filed(O \ {e}) = Filed(O) - d.additional
    BY <1>2, <2>6, <2>8, <2>9
  <2> QED
    BY <2>1, <2>2, <2>5, <2>6, <2>10 DEF R, O
<1> QED
  BY <1>3, <1>4 DEF BringsBack, Confirms, Reconciles

LEMMA ExplanationInductive ==
    Kept /\ Behind /\ Explained /\ [ExecutionNext]_executionVars => Explained'
<1> SUFFICES ASSUME Kept, Behind, Explained, [ExecutionNext]_executionVars PROVE Explained'
  OBVIOUS
<1>1. /\ SessionTypeOK /\ TypeOK /\ TypeOK' /\ OneResultPerKey /\ OneResultPerKey' /\ WaitingIsFiled
      /\ Results \subseteq Results'
  BY ProviderMoves, TypeInductive, OneResultPerKeyInductive, RegistryGrows DEF Kept, ExecutionTypeOK
<1>2. ASSUME blocks' = blocks, Results' = Results,
             session'.authorized = session.authorized, session'.confirmed = session.confirmed
      PROVE  Explained'
  BY <1>2 DEF Explained
<1>3. ASSUME UNCHANGED executionVars PROVE Explained'
  BY <1>2, <1>3 DEF executionVars, Results
<1>4. ASSUME UpdateArrives, UNCHANGED <<blocks, registry, failures, waiting, flagged>>
      PROVE  Explained'
  BY <1>1, <1>2, <1>4, UpdateStep DEF Results
<1>5. ASSUME AuthorizeInitial PROVE Explained'
  <2>1. UNCHANGED session
    BY <1>5 DEF AuthorizeInitial
  <2>2. CASE blocks' = blocks /\ Results' = Results
    BY <1>2, <2>1, <2>2
  <2>3. CASE CreateBlock(InitialRequest)
    <3> DEFINE b == [txn |-> Ride, authorized |-> InitialBlock, remaining |-> InitialBlock,
                     debited |-> 0, released |-> 0, status |-> "AUTHORIZED"]
               x == [request |-> InitialRequest, id |-> Len(blocks) + 1, snapshot |-> b]
    <3>1. /\ blocks' = Append(blocks, b) /\ Results' = Results \cup {x}
          /\ x.request.op = "create" /\ b.authorized = InitialBlock
      BY <2>3, FilingKeepsResults DEF CreateBlock, Reaches, InitialRequest
    <3> HIDE DEF b, x
    <3>2. blocks \in Seq(Block) /\ InitialBlock \in Int
      BY <1>1, BlocksAreAmounts DEF TypeOK
    <3>3. Opens(Results', session'.confirmed) = Opens(Results, session.confirmed)
      BY <2>1, <3>1 DEF Opens
    <3>4. IsFiniteSet(Results')
      BY <3>1, FS_AddElement DEF Explained
    <3>5. RideBlock \in DOMAIN blocks' =>
              blocks'[RideBlock].authorized - session'.authorized =
                  Filed(Opens(Results', session'.confirmed))
      <4>1. CASE RideBlock \in DOMAIN blocks
        <5>1. blocks'[RideBlock] = blocks[RideBlock]
          BY <3>1, <3>2, <4>1
        <5> QED
          BY <2>1, <3>3, <4>1, <5>1 DEF Explained
      <4>2. CASE RideBlock \notin DOMAIN blocks
        <5>1. Len(blocks) = 0
          BY <3>2, <4>2 DEF RideBlock
        <5>2. blocks'[RideBlock] = b
          BY <3>1, <3>2, <5>1 DEF RideBlock
        <5>3. session'.authorized = InitialBlock
          BY <2>1, <4>2 DEF Behind
        <5>4. Opens(Results, session.confirmed) = {}
          BY <4>2 DEF Behind, Holds, Opens
        <5>5. Filed(Opens(Results', session'.confirmed)) = 0
          BY <3>3, <5>4, NothingFiled
        <5>6. blocks'[RideBlock].authorized - session'.authorized = 0
          BY <3>1, <3>2, <5>2, <5>3
        <5> QED
          BY <5>5, <5>6
      <4> QED
        BY <4>1, <4>2
    <3> QED
      BY <1>1, <2>1, <3>4, <3>5 DEF Explained
  <2> QED
    BY <1>5, <2>2, <2>3
    DEF AuthorizeInitial, InitialRequest, Executes, IncreaseBlock, DebitBlock, ReleaseBlock,
        Replayed, FailsTransiently, TimesOut, Unavailable, IsRefused, Conflicted, Rejected,
        Denied, Insufficient, providerVars, Results
<1>6. ASSUME NEW d \in decisions, RequestNotGranted(d) PROVE Explained'
  <2>1. blocks' = blocks /\ Results' = Results /\ UNCHANGED session
    BY <1>6 DEF RequestNotGranted, FailsTransiently, TimesOut, Unavailable, IsRefused,
                Conflicted, Rejected, Denied, Insufficient, Overflows, providerVars, Results
  <2> QED
    BY <1>2, <2>1
<1>7. ASSUME NEW d \in decisions, IncreaseFirst(d) PROVE Explained'
  BY <1>1, <1>7, GrantOpens DEF IncreaseFirst, Explained
<1>8. ASSUME NEW d \in decisions, NEW total, BringsBack(d, total), IsFiniteSet(Results'),
             NEW e \in Results', e.request = IncreaseRequest(d), e.snapshot.authorized = total,
             RideBlock \in DOMAIN blocks',
             blocks'[RideBlock].authorized - session.authorized =
                 Filed(Opens(Results', session.confirmed))
      PROVE  Explained'
  <2>1. /\ Filed(Opens(Results', session'.confirmed)) =
               Filed(Opens(Results', session.confirmed))
                   - (session'.authorized - session.authorized)
        /\ \A c \in session'.confirmed : c \in session.confirmed \/ c.event = e.request.key
    BY <1>1, <1>8, BringingBackCloses
  <2>2. session'.authorized \in Int /\ session.authorized \in Int
    <3>1. session' \in Session
      BY <1>1, <1>8, KeptInductive DEF Kept, ExecutionTypeOK, SessionTypeOK
    <3> QED
      BY <1>1, <3>1 DEF SessionTypeOK, Session
  <2>3. blocks'[RideBlock].authorized \in Int
    BY <1>1, <1>8, StoredAmount DEF TypeOK
  <2>4. e.request.op = "increase"
    BY <1>8 DEF IncreaseRequest
  <2>5. blocks'[RideBlock].authorized - session'.authorized =
            Filed(Opens(Results', session'.confirmed))
    BY <1>8, <2>1, <2>2, <2>3
  <2> QED
    BY <1>1, <1>8, <2>1, <2>4, <2>5 DEF Explained
<1>9. ASSUME NEW d \in decisions, RequestGranted(d) PROVE Explained'
  <2>1. /\ Asks(d) /\ ProviderGrants(IncreaseRequest(d))
        /\ BringsBack(d, AnsweredTotal(IncreaseRequest(d)))
    BY <1>9 DEF RequestGranted
  <2>2. PICK e \in Results' : /\ e.request = IncreaseRequest(d)
                               /\ e.snapshot.authorized = AnsweredTotal(IncreaseRequest(d))
    BY <2>1, AnswerIsFiled
  <2> QED
    BY <1>8, <2>1, <2>2, GrantOpens
<1>10. ASSUME NEW w \in waiting, ConfirmLate(w) PROVE Explained'
  <2>1. PICK e \in Results : /\ e.request = IncreaseRequest(w.decision)
                              /\ e.snapshot.authorized = w.total
    BY <1>1, <1>10 DEF WaitingIsFiled
  <2>2. /\ w.decision \in decisions /\ BringsBack(w.decision, w.total)
        /\ blocks' = blocks /\ Results' = Results
    BY <1>1, <1>10 DEF WaitingIsFiled, ConfirmLate, Results
  <2>3. RideBlock \in DOMAIN blocks
    BY <2>1 DEF Behind, Holds, IncreaseRequest
  <2> QED
    BY <1>8, <2>1, <2>2, <2>3 DEF Explained
<1> QED
  BY <1>3, <1>4, <1>5, <1>6, <1>7, <1>9, <1>10 DEF ExecutionNext

\* Session and provider differ by exactly the executed increases the session has
\* not confirmed, in whatever order decisions are made, dropped, asked for,
\* answered late and answered twice.
THEOREM DifferencesAreExplained == ExecutionSpec => []DifferenceIsExplained
<1>1. ExecutionInit => NoIncreaseIsLost /\ Behind /\ Explained
  <2>1. ExecutionInit => IsFiniteSet(Results)
    BY FS_EmptySet DEF ExecutionInit, ProviderInit, Results
  <2> QED
    BY <2>1 DEF ExecutionInit, SessionInit, ProviderInit, NoIncreaseIsLost, Behind,
                SessionNeverAhead, RideBlock, Explained, Results
<1> QED
  BY <1>1, LossInductive, BehindInductive, ExplanationInductive, ExplainedMeansExplained,
     ExecutionIsKept, PTL DEF ExecutionSpec

-----------------------------------------------------------------------------
(* Overtaken decisions *)

\* The block of a session moves only to the target of its latest decision.
THEOREM LatestIsConfirmed == ExecutionSpec => OnlyLatestIsConfirmed
<1> DEFINE A == session'.authorized # session.authorized =>
                    LET last == Len(session.processed) IN
                    /\ last > 0
                    /\ session'.authorized = session.processed[last].decision.target
                    /\ session'.version = session.version
                    /\ session'.processed = session.processed
<1>1. Kept /\ [ExecutionNext]_executionVars => [A]_executionVars
  <2> SUFFICES ASSUME Kept, ExecutionNext, session'.authorized # session.authorized
               PROVE  A
    OBVIOUS
  <2>1. SessionTypeOK /\ session \in Session /\ WaitingIsFiled
    BY DEF Kept, ExecutionTypeOK, SessionTypeOK
  <2>2. ASSUME NEW d, NEW total, BringsBack(d, total) PROVE A
    <3>1. total = d.target /\ Confirmable(d, total) /\ Confirm(d, total)
      BY <2>2 DEF BringsBack, Confirms, Reconciles
    <3>2. Len(session.processed) > 0
      BY <2>1, <3>1 DEF Confirmable, Session
    <3>3. /\ session'.authorized = total /\ session'.version = session.version
          /\ session'.processed = session.processed
      BY <2>1, <3>1 DEF Confirm, Session
    <3> QED
      BY <3>1, <3>2, <3>3 DEF Confirmable
  <2>3. ~UpdateArrives
    BY <2>1, UpdateStep
  <2> QED
    BY <2>2, <2>3
    DEF ExecutionNext, AuthorizeInitial, RequestGranted, RequestNotGranted, IncreaseFirst, ConfirmLate
<1> QED
  BY <1>1, ExecutionIsKept, PTL DEF ExecutionSpec, OnlyLatestIsConfirmed
=============================================================================
