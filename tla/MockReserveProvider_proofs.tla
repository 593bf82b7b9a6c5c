--------------------- MODULE MockReserveProvider_proofs ---------------------
(***************************************************************************)
(* What MockReserveProvider guarantees for every set of transactions, keys *)
(* and amounts, every MaxAmount and every initial failure configuration.   *)
(***************************************************************************)
EXTENDS MockReserveProvider, SumFacts, TLAPS

USE DEF Operations, NoBlock

-----------------------------------------------------------------------------
(* Type correctness *)

\* Amounts are positive and fit in Money.
LEMMA AmountsArePositive ==
    ASSUME NEW a \in Amounts
    PROVE  a \in Nat \ {0} /\ a <= MaxAmount
<1>1. a \in 1 .. MaxAmount
  BY ProviderAssumption
<1>2. MaxAmount \in Nat
  BY ProviderAssumption
<1>3. QED
  BY <1>1, <1>2

\* Whatever is issued is a request: what is left of a block is a positive
\* amount when it is asked for at all.
LEMMA RequestsAreTyped ==
    ASSUME TypeOK
    PROVE  Requests \subseteq Request
<1>1. ASSUME NEW id \in BlockIds, NEW a \in BlockAmounts(id) PROVE a \in Nat \ {0}
  <2>1. CASE a \in Amounts
    BY <2>1, AmountsArePositive
  <2>2. CASE id \in DOMAIN blocks /\ blocks[id].remaining > 0 /\ a = blocks[id].remaining
    <3>1. blocks[id] \in Block
      BY <2>2 DEF TypeOK
    <3>2. QED
      BY <2>2, <3>1 DEF Block
  <2>3. QED
    BY <1>1, <2>1, <2>2 DEF BlockAmounts
<1>2. QED
  BY <1>1 DEF Requests, Request, BlockRequest

\* The fields of a request, whichever operation it is for.
LEMMA RequestFields ==
    ASSUME NEW r \in Request
    PROVE  /\ r.op \in Operations
           /\ r.key \in Keys
           /\ r.txn \in Transactions
           /\ r.amount \in Nat \ {0}
<1>1. CASE r \in CreateRequest
  <2>1. r.amount \in Amounts
    BY <1>1 DEF CreateRequest
  <2>2. r.amount \in Nat \ {0}
    BY <2>1, AmountsArePositive
  <2>3. QED
    BY <1>1, <2>2 DEF CreateRequest
<1>2. CASE r \in BlockRequest
  BY <1>2 DEF BlockRequest
<1>3. QED
  BY <1>1, <1>2 DEF Request

\* Writing a block of the right type over a known block, or after the last
\* one, leaves a sequence of blocks.
LEMMA StoringKeepsType ==
    ASSUME NEW s \in Seq(Block), NEW b \in Block, NEW i \in DOMAIN s
    PROVE  [s EXCEPT ![i] = b] \in Seq(Block)
OBVIOUS

\* Each operation computes a block of the right type from one.
LEMMA OperationsAreTyped ==
    ASSUME NEW b \in Block, NEW a \in Nat \ {0}
    PROVE  /\ Increased(b, a) \in Block
           /\ a <= b.remaining => Debited(b, a) \in Block
           /\ Released(b, a) \in Block
<1>1. Increased(b, a) \in Block
  <2>1. b.authorized + a \in Nat /\ b.remaining + a \in Nat
    BY DEF Block
  <2>2. QED
    BY <2>1 DEF Block, Increased
<1>2. ASSUME a <= b.remaining PROVE Debited(b, a) \in Block
  <2>1. b.remaining - a \in Nat /\ b.debited + a \in Nat
    BY <1>2 DEF Block
  <2>2. DebitStatus(b, a) \in Statuses
    BY DEF DebitStatus, Statuses
  <2>3. QED
    BY <2>1, <2>2 DEF Block, Debited
<1>3. Released(b, a) \in Block
  <2>1. b.released + a \in Nat /\ "RELEASED" \in Statuses
    BY DEF Block, Statuses
  <2>2. QED
    BY <2>1 DEF Block, Released
<1>4. QED
  BY <1>1, <1>2, <1>3

\* A step for any request that can be written down, whether or not its amount
\* still has to do with what is left of the block.
ProviderStep ==
    \E r \in Request :
        \/ Replayed(r) \/ Executes(r)
        \/ FailsTransiently(r) \/ IsRefused(r) \/ Overflows(r)

LEMMA NextIsStep == TypeOK /\ [ProviderNext]_providerVars => [ProviderStep]_providerVars
BY RequestsAreTyped DEF ProviderNext, ProviderStep

\* The registry holds results, each under its own operation and key.
RegistryOK ==
    /\ DOMAIN registry \subseteq Operations \X Keys
    /\ \A k \in DOMAIN registry : registry[k] \in Record /\ Scope(registry[k].request) = k

\* Filing a result, over another one or not, leaves such a registry.
LEMMA FilingKeepsType ==
    ASSUME RegistryOK, NEW r \in Request, NEW id \in Nat \ {0}, NEW b \in Block, File(r, id, b)
    PROVE  RegistryOK'
<1> DEFINE e == [request |-> r, id |-> id, snapshot |-> b]
<1>1. e \in Record /\ e.request = r
  BY DEF Record
<1>2. registry' = [k \in DOMAIN registry \cup {Scope(r)} |-> IF k = Scope(r) THEN e ELSE registry[k]]
  BY DEF File
<1>3. Scope(r) \in Operations \X Keys
  BY RequestFields DEF Scope
<1> HIDE DEF e
<1>4. DOMAIN registry' = DOMAIN registry \cup {Scope(r)}
  BY <1>2
<1>5. ASSUME NEW k \in DOMAIN registry' PROVE registry'[k] \in Record /\ Scope(registry'[k].request) = k
  <2>1. CASE k = Scope(r)
    BY <1>1, <1>2, <2>1
  <2>2. CASE k # Scope(r)
    <3>1. k \in DOMAIN registry /\ registry'[k] = registry[k]
      BY <1>2, <1>5, <2>2
    <3> QED
      BY <3>1 DEF RegistryOK
  <2> QED
    BY <2>1, <2>2
<1>6. DOMAIN registry' \subseteq Operations \X Keys
  BY <1>3, <1>4 DEF RegistryOK
<1>7. \A k \in DOMAIN registry' : registry'[k] \in Record /\ Scope(registry'[k].request) = k
  BY <1>5
<1> QED
  BY <1>6, <1>7 DEF RegistryOK, Scope

\* A step of the provider keeps its variables typed.
LEMMA TypeInductive == TypeOK /\ [ProviderStep]_providerVars => TypeOK'
<1> SUFFICES ASSUME TypeOK, [ProviderStep]_providerVars PROVE TypeOK'
  OBVIOUS
<1>1. CASE UNCHANGED providerVars
  BY <1>1 DEF TypeOK, providerVars
<1>2. ASSUME NEW r \in Request,
             Replayed(r) \/ Conflicted(r) \/ Denied(r) \/ Insufficient(r) \/ Overflows(r)
      PROVE  TypeOK'
  <2>1. UNCHANGED providerVars
    BY <1>2 DEF Replayed, Conflicted, Denied, Insufficient, Overflows
  <2>2. QED
    BY <1>1, <2>1
<1>3. ASSUME NEW r \in Request, FailsTransiently(r) \/ Rejected(r) PROVE TypeOK'
  <2>1. r.op \in Operations
    BY RequestFields
  <2>2. CASE TimesOut(r)
    BY <2>2 DEF TypeOK, TimesOut, FailureConfig
  <2>3. CASE Unavailable(r)
    <3>1. failures.transient[r.op] - 1 \in Nat
      BY <2>1, <2>3 DEF TypeOK, Unavailable, FailureConfig
    <3>2. QED
      BY <2>1, <2>3, <3>1 DEF TypeOK, Unavailable, FailureConfig
  <2>4. CASE Rejected(r)
    BY <2>1, <2>4 DEF TypeOK, Rejected, FailureConfig
  <2>5. QED
    BY <1>3, <2>2, <2>3, <2>4 DEF FailsTransiently
<1>4. ASSUME NEW r \in Request, CreateBlock(r) PROVE TypeOK'
  <2> DEFINE b == [txn |-> r.txn, authorized |-> r.amount, remaining |-> r.amount,
                   debited |-> 0, released |-> 0, status |-> "AUTHORIZED"]
  <2> HIDE DEF b
  <2>1. b \in Block
    <3>1. r.txn \in Transactions /\ r.amount \in Nat /\ "AUTHORIZED" \in Statuses
      BY RequestFields DEF Statuses
    <3>2. QED
      BY <3>1 DEF Block, b
  <2>2. blocks' = Append(blocks, b) /\ File(r, Len(blocks) + 1, b)
    BY <1>4 DEF CreateBlock, b
  <2>3. Len(blocks) + 1 \in Nat \ {0}
    BY DEF TypeOK
  <2>4. blocks' \in Seq(Block)
    BY <2>1, <2>2 DEF TypeOK
  <2>5. RegistryOK'
    BY <2>1, <2>2, <2>3, FilingKeepsType DEF TypeOK, RegistryOK
  <2>6. QED
    BY <1>4, <2>4, <2>5 DEF TypeOK, RegistryOK, CreateBlock
<1>5. ASSUME NEW r \in Request, NEW b \in Block, r.block \in DOMAIN blocks,
             Store(r, b)
      PROVE  TypeOK'
  <2>1. r.block \in Nat \ {0}
    BY <1>5 DEF TypeOK
  <2>2. blocks' \in Seq(Block)
    BY <1>5, StoringKeepsType DEF TypeOK, Store
  <2>3. RegistryOK'
    BY <1>5, <2>1, FilingKeepsType DEF TypeOK, RegistryOK, Store
  <2>4. QED
    BY <1>5, <2>2, <2>3 DEF TypeOK, RegistryOK, Store
<1>6. ASSUME NEW r \in Request, IncreaseBlock(r) \/ DebitBlock(r) \/ ReleaseBlock(r)
      PROVE  TypeOK'
  <2>1. r.block \in DOMAIN blocks /\ blocks[r.block] \in Block
    BY <1>6 DEF IncreaseBlock, DebitBlock, ReleaseBlock, Operable, TypeOK
  <2>2. r.amount \in Nat \ {0}
    BY RequestFields
  <2>3. \E b \in Block : Store(r, b)
    BY <1>6, <2>1, <2>2, OperationsAreTyped DEF IncreaseBlock, DebitBlock, ReleaseBlock
  <2>4. QED
    BY <1>5, <2>1, <2>3
<1>7. QED
  BY <1>1, <1>2, <1>3, <1>4, <1>6 DEF ProviderStep, Executes, IsRefused

\* The provider's variables always hold values of the code's data classes.
THEOREM TypeCorrect == ProviderSpec => []TypeOK
<1>1. ProviderInit => TypeOK
  BY ProviderAssumption DEF ProviderInit, TypeOK
<1>2. QED
  BY <1>1, NextIsStep, TypeInductive, PTL DEF ProviderSpec

-----------------------------------------------------------------------------
(* Accounting *)

\* A block just created is consistent.
LEMMA CreatedIsConsistent ==
    ASSUME NEW t, NEW a \in Amounts
    PROVE  Consistent([txn |-> t, authorized |-> a, remaining |-> a, debited |-> 0,
                       released |-> 0, status |-> "AUTHORIZED"])
<1>1. a \in Nat \ {0} /\ a <= MaxAmount /\ MaxAmount \in Nat
  BY AmountsArePositive, ProviderAssumption
<1>2. QED
  BY <1>1 DEF Consistent, Balanced, StatusAgrees

\* Increasing an active block within the Money range keeps it consistent.
LEMMA IncreasedIsConsistent ==
    ASSUME NEW b \in Block, Consistent(b), Active(b),
           NEW a \in Nat \ {0}, b.authorized + a <= MaxAmount
    PROVE  Consistent(Increased(b, a))
<1>1. MaxAmount \in Nat
  BY ProviderAssumption
<1>2. /\ b.authorized \in Nat /\ b.remaining \in Nat
      /\ b.debited \in Nat /\ b.released \in Nat
  BY DEF Block
<1> DEFINE c == Increased(b, a)
<1>3. /\ c.authorized = b.authorized + a /\ c.remaining = b.remaining + a
      /\ c.debited = b.debited /\ c.released = b.released /\ c.status = b.status
  BY DEF Increased, Block
<1> HIDE DEF c
<1>4. /\ b.authorized \in 1 .. MaxAmount /\ Balanced(b) /\ StatusAgrees(b)
      /\ b.status \in {"AUTHORIZED", "PARTIALLY_DEBITED"}
  BY DEF Consistent, Active
<1>5. c.authorized \in 1 .. MaxAmount
  BY <1>1, <1>2, <1>3
<1>6. Balanced(c)
  BY <1>2, <1>3, <1>4 DEF Balanced
<1>7. StatusAgrees(c)
  BY <1>2, <1>3, <1>4 DEF StatusAgrees
<1>8. Consistent(c)
  BY <1>5, <1>6, <1>7 DEF Consistent
<1>9. QED
  BY <1>8 DEF c

\* Debiting no more than what remains of an active block keeps it consistent:
\* this is where DEBITED means that nothing is left.
LEMMA DebitedIsConsistent ==
    ASSUME NEW b \in Block, Consistent(b), Active(b),
           NEW a \in Nat \ {0}, a <= b.remaining
    PROVE  Consistent(Debited(b, a))
<1>1. /\ b.authorized \in Nat /\ b.remaining \in Nat
      /\ b.debited \in Nat /\ b.released \in Nat
  BY DEF Block
<1> DEFINE c == Debited(b, a)
<1>2. /\ c.authorized = b.authorized /\ c.remaining = b.remaining - a
      /\ c.debited = b.debited + a /\ c.released = b.released
      /\ c.status = DebitStatus(b, a)
  BY DEF Debited, Block
<1>3. b.released = 0
  BY DEF Active, Consistent, StatusAgrees
<1> HIDE DEF c
<1>4. b.authorized \in 1 .. MaxAmount /\ Balanced(b)
  BY DEF Consistent
<1>5. Balanced(c)
  BY <1>1, <1>2, <1>4 DEF Balanced
<1>6. StatusAgrees(c)
  BY <1>1, <1>2, <1>3, <1>4 DEF StatusAgrees, Balanced, DebitStatus
<1>7. Consistent(c)
  BY <1>2, <1>4, <1>5, <1>6 DEF Consistent
<1>8. QED
  BY <1>7 DEF c

\* Releasing all that remains of an active block keeps it consistent.
LEMMA ReleasedIsConsistent ==
    ASSUME NEW b \in Block, Consistent(b), Active(b), b.remaining \in Nat \ {0}
    PROVE  Consistent(Released(b, b.remaining))
<1>1. /\ b.authorized \in Nat /\ b.debited \in Nat /\ b.released \in Nat
  BY DEF Block
<1> DEFINE c == Released(b, b.remaining)
<1>2. /\ c.authorized = b.authorized /\ c.remaining = 0 /\ c.debited = b.debited
      /\ c.released = b.released + b.remaining /\ c.status = "RELEASED"
  BY DEF Released, Block
<1> HIDE DEF c
<1>3. b.authorized \in 1 .. MaxAmount /\ Balanced(b) /\ b.released = 0
  BY DEF Consistent, Active, StatusAgrees
<1>4. Balanced(c)
  BY <1>1, <1>2, <1>3 DEF Balanced
<1>5. StatusAgrees(c)
  BY <1>2, <1>3 DEF StatusAgrees
<1>6. Consistent(c)
  BY <1>2, <1>3, <1>4, <1>5 DEF Consistent
<1>7. QED
  BY <1>6 DEF c

\* What an executed operation on a known block stores, and that it may.
LEMMA StoredBlock ==
    ASSUME TypeOK, BlocksAreConsistent, NEW r \in Request,
           IncreaseBlock(r) \/ DebitBlock(r) \/ ReleaseBlock(r)
    PROVE  /\ r.block \in DOMAIN blocks
           /\ \E b \in Block : Store(r, b) /\ Consistent(b)
<1>1. r.block \in DOMAIN blocks /\ Active(blocks[r.block]) /\ blocks[r.block] \in Block
  BY DEF IncreaseBlock, DebitBlock, ReleaseBlock, Operable, TypeOK
<1>2. Consistent(blocks[r.block]) /\ r.amount \in Nat \ {0}
  BY <1>1, RequestFields DEF BlocksAreConsistent
<1>3. CASE IncreaseBlock(r)
  BY <1>1, <1>2, <1>3, IncreasedIsConsistent, OperationsAreTyped DEF IncreaseBlock
<1>4. CASE DebitBlock(r)
  BY <1>1, <1>2, <1>4, DebitedIsConsistent, OperationsAreTyped DEF DebitBlock
<1>5. CASE ReleaseBlock(r)
  BY <1>1, <1>2, <1>5, ReleasedIsConsistent, OperationsAreTyped DEF ReleaseBlock
<1>6. QED
  BY <1>1, <1>3, <1>4, <1>5

\* A step of the provider keeps every block consistent.
LEMMA ConsistencyInductive ==
    TypeOK /\ BlocksAreConsistent /\ [ProviderStep]_providerVars => BlocksAreConsistent'
<1> SUFFICES ASSUME TypeOK, BlocksAreConsistent, [ProviderStep]_providerVars
             PROVE  BlocksAreConsistent'
  OBVIOUS
<1>1. CASE blocks' = blocks
  BY <1>1 DEF BlocksAreConsistent
<1>2. ASSUME NEW r \in CreateRequest, CreateBlock(r) PROVE BlocksAreConsistent'
  <2> DEFINE b == [txn |-> r.txn, authorized |-> r.amount, remaining |-> r.amount,
                   debited |-> 0, released |-> 0, status |-> "AUTHORIZED"]
  <2>1. r.amount \in Amounts
    BY DEF CreateRequest
  <2>2. Consistent(b)
    BY <2>1, CreatedIsConsistent
  <2> HIDE DEF b
  <2>3. blocks' = Append(blocks, b)
    BY <1>2 DEF CreateBlock, b
  <2>4. ASSUME NEW i \in DOMAIN blocks' PROVE Consistent(blocks'[i])
    <3>1. blocks'[i] = b \/ (i \in DOMAIN blocks /\ blocks'[i] = blocks[i])
      BY <2>3 DEF TypeOK
    <3>2. QED
      BY <2>2, <3>1 DEF BlocksAreConsistent
  <2>5. QED
    BY <2>4 DEF BlocksAreConsistent
<1>3. ASSUME NEW r \in Request, IncreaseBlock(r) \/ DebitBlock(r) \/ ReleaseBlock(r)
      PROVE  BlocksAreConsistent'
  <2>1. PICK b \in Block : Store(r, b) /\ Consistent(b)
    BY <1>3, StoredBlock
  <2>2. blocks' = [blocks EXCEPT ![r.block] = b]
    BY <2>1 DEF Store
  <2>3. ASSUME NEW i \in DOMAIN blocks' PROVE Consistent(blocks'[i])
    <3>1. blocks'[i] = b \/ (i \in DOMAIN blocks /\ blocks'[i] = blocks[i])
      BY <2>2 DEF TypeOK
    <3>2. QED
      BY <2>1, <3>1 DEF BlocksAreConsistent
  <2>4. QED
    BY <2>3 DEF BlocksAreConsistent
<1>4. ASSUME NEW r \in Request, Replayed(r) \/ FailsTransiently(r) \/ IsRefused(r) \/ Overflows(r)
      PROVE  blocks' = blocks
  BY <1>4 DEF Replayed, FailsTransiently, TimesOut, Unavailable, IsRefused, Conflicted,
              Rejected, Denied, Insufficient, Overflows, providerVars
<1>5. ASSUME NEW r \in Request, CreateBlock(r) PROVE r \in CreateRequest
  BY <1>5 DEF CreateBlock, Request, BlockRequest
<1>6. QED
  BY <1>1, <1>2, <1>3, <1>4, <1>5 DEF ProviderStep, Executes, providerVars

\* ReserveBlock.__post_init__ never refuses a block an operation computed: in
\* every reachable state every block balances within the Money range, and its
\* status agrees with its amounts.
THEOREM AccountingCorrect == ProviderSpec => []BlocksAreConsistent
<1>1. ProviderInit => BlocksAreConsistent
  BY DEF ProviderInit, BlocksAreConsistent
<1>2. QED
  BY <1>1, NextIsStep, ConsistencyInductive, TypeCorrect, PTL DEF ProviderSpec

-----------------------------------------------------------------------------
(* Idempotency *)

SameKey(record, r) == record.request.op = r.op /\ record.request.key = r.key

\* What the dictionary gives: two results never share operation and key.
OneResultPerKey == \A e1, e2 \in Results : SameKey(e1, e2.request) => e1 = e2

\* The results are results of requests.
LEMMA ResultsAreTyped == TypeOK => Results \subseteq Record
BY DEF TypeOK, Results

LEMMA KeysTellResults == TypeOK => OneResultPerKey
<1> SUFFICES ASSUME TypeOK, NEW j \in DOMAIN registry, NEW k \in DOMAIN registry,
                    SameKey(registry[j], registry[k].request)
             PROVE  registry[j] = registry[k]
  BY DEF OneResultPerKey, Results
<1>1. Scope(registry[j].request) = j /\ Scope(registry[k].request) = k
  BY DEF TypeOK
<1> QED
  BY <1>1 DEF SameKey, Scope

LEMMA OneResultPerKeyInductive == TypeOK /\ [ProviderStep]_providerVars => OneResultPerKey'
<1> SUFFICES ASSUME TypeOK', NEW j \in DOMAIN registry', NEW k \in DOMAIN registry',
                    SameKey(registry'[j], registry'[k].request)
             PROVE  registry'[j] = registry'[k]
  BY TypeInductive DEF OneResultPerKey, Results
<1>1. Scope(registry'[j].request) = j /\ Scope(registry'[k].request) = k
  BY DEF TypeOK, Scope
<1> QED
  BY <1>1 DEF SameKey, Scope

\* A fresh request has no result yet, neither its own nor one under its key.
LEMMA FreshHasNone ==
    ASSUME TypeOK, NEW r, Fresh(r)
    PROVE  \A e \in Results : e.request # r /\ ~SameKey(e, r)
<1> SUFFICES ASSUME NEW k \in DOMAIN registry
             PROVE  registry[k].request # r /\ ~SameKey(registry[k], r)
  BY DEF Results
<1>1. Scope(registry[k].request) = k /\ k # Scope(r)
  BY DEF TypeOK, Fresh
<1> QED
  BY <1>1 DEF SameKey, Scope

\* Filing a fresh request overwrites nothing.
LEMMA FilingKeepsResults ==
    ASSUME NEW r, NEW id, NEW b, Fresh(r), File(r, id, b)
    PROVE  /\ DOMAIN registry' = DOMAIN registry \cup {Scope(r)}
           /\ registry'[Scope(r)] = [request |-> r, id |-> id, snapshot |-> b]
           /\ \A k \in DOMAIN registry : registry'[k] = registry[k]
           /\ Results' = Results \cup {[request |-> r, id |-> id, snapshot |-> b]}
<1> DEFINE e == [request |-> r, id |-> id, snapshot |-> b]
           s == Scope(r)
<1>1. registry' = [k \in DOMAIN registry \cup {s} |-> IF k = s THEN e ELSE registry[k]]
  BY DEF File
<1>2. s \notin DOMAIN registry
  BY DEF Fresh
<1> HIDE DEF e, s
<1>3. /\ DOMAIN registry' = DOMAIN registry \cup {s} /\ registry'[s] = e
      /\ \A k \in DOMAIN registry : registry'[k] = registry[k]
  BY <1>1, <1>2
<1>4. Results' = Results \cup {e}
  BY <1>3 DEF Results
<1> QED
  BY <1>3, <1>4 DEF e, s

\* What an executed request files, and that it was fresh.
LEMMA ExecutedIsFiled ==
    ASSUME NEW r, Executes(r)
    PROVE  Fresh(r) /\ \E id, b : File(r, id, b)
BY DEF Executes, CreateBlock, IncreaseBlock, DebitBlock, ReleaseBlock, Store, Reaches

\* A request that is not executed leaves everything filed as it is.
LEMMA OthersFileNothing ==
    ASSUME NEW r, Replayed(r) \/ FailsTransiently(r) \/ IsRefused(r) \/ Overflows(r)
    PROVE  blocks' = blocks /\ registry' = registry /\ Results' = Results
BY DEF Replayed, FailsTransiently, TimesOut, Unavailable, IsRefused, Conflicted,
       Rejected, Denied, Insufficient, Overflows, providerVars, Results

\* The results grow by at most one, filed under a key and operation that had
\* none.
LEMMA ResultsStep ==
    ASSUME [ProviderStep]_providerVars
    PROVE  \/ Results' = Results
           \/ \E r \in Request : \E e :
                 /\ Fresh(r) /\ e.request = r
                 /\ Results' = Results \cup {e}
<1>1. CASE registry' = registry
  BY <1>1 DEF Results
<1>2. ASSUME NEW r \in Request, Executes(r)
      PROVE  \E e : Fresh(r) /\ e.request = r /\ Results' = Results \cup {e}
  <2>1. PICK id, b : Fresh(r) /\ File(r, id, b)
    BY <1>2, ExecutedIsFiled
  <2> DEFINE e == [request |-> r, id |-> id, snapshot |-> b]
  <2>2. e.request = r
    OBVIOUS
  <2>3. Results' = Results \cup {e}
    BY <2>1, FilingKeepsResults
  <2> QED
    BY <2>1, <2>2, <2>3
<1> QED
  BY <1>1, <1>2, OthersFileNothing DEF ProviderStep, providerVars

\* A request that succeeds is filed, and nothing else is.
LEMMA SuccessIsFiled ==
    ASSUME NEW r, Replayed(r) \/ Executes(r)
    PROVE  /\ Scope(r) \in DOMAIN registry' /\ registry'[Scope(r)].request = r
           /\ registry'[Scope(r)] \in Results'
           /\ \/ registry' = registry /\ Results' = Results
              \/ \E e : e.request = r /\ Results' = Results \cup {e}
                        /\ DOMAIN registry' = DOMAIN registry \cup {Scope(r)}
<1>1. CASE Replayed(r)
  BY <1>1 DEF Replayed, providerVars, Results
<1>2. CASE Executes(r)
  <2>1. PICK id, b : Fresh(r) /\ File(r, id, b)
    BY <1>2, ExecutedIsFiled
  <2> DEFINE e == [request |-> r, id |-> id, snapshot |-> b]
  <2>2. e.request = r
    OBVIOUS
  <2>3. /\ Results' = Results \cup {e} /\ registry'[Scope(r)] = e
        /\ DOMAIN registry' = DOMAIN registry \cup {Scope(r)}
    BY <2>1, FilingKeepsResults
  <2> HIDE DEF e
  <2> QED
    BY <2>2, <2>3 DEF Results
<1> QED
  BY <1>1, <1>2

\* No operation is executed twice under one key, however often and with
\* whatever payloads the key is presented: an execution finds the key unused
\* and leaves its result there.
THEOREM ExecutedAtMostOnce == ProviderSpec => AtMostOnce
<1> DEFINE New == \E k \in (Operations \X Keys) \ DOMAIN registry :
                      DOMAIN registry' = DOMAIN registry \cup {k}
<1>1. ASSUME [ProviderStep]_providerVars, blocks' # blocks PROVE New
  <2>1. PICK r \in Request : Executes(r)
    BY <1>1, OthersFileNothing DEF ProviderStep, providerVars
  <2>2. PICK id, b : Fresh(r) /\ File(r, id, b)
    BY <2>1, ExecutedIsFiled
  <2>3. DOMAIN registry' = DOMAIN registry \cup {Scope(r)}
    BY <2>2, FilingKeepsResults
  <2>4. Scope(r) \in (Operations \X Keys) \ DOMAIN registry
    BY <2>2, RequestFields DEF Scope, Fresh
  <2> QED
    BY <2>3, <2>4
<1> HIDE DEF New
<1>2. [ProviderStep]_providerVars => [blocks' # blocks => New]_providerVars
  BY <1>1
<1> QED
  BY <1>2, NextIsStep, TypeCorrect, PTL DEF ProviderSpec, AtMostOnce, New

\* A result, once returned, is what every later replay returns: the assignment
\* that files a result never finds one under its key.
THEOREM ResultsNeverChange == ProviderSpec => ResultsAreKept
<1> DEFINE Stays == \A k \in DOMAIN registry : k \in DOMAIN registry' /\ registry'[k] = registry[k]
<1>1. ASSUME NEW r \in Request, Executes(r) PROVE Stays
  <2>1. PICK id, b : Fresh(r) /\ File(r, id, b)
    BY <1>1, ExecutedIsFiled
  <2> QED
    BY <2>1, FilingKeepsResults
<1>2. ASSUME registry' = registry PROVE Stays
  BY <1>2
<1> HIDE DEF Stays
<1>3. [ProviderStep]_providerVars => [Stays]_providerVars
  BY <1>1, <1>2, OthersFileNothing DEF ProviderStep
<1>4. QED
  BY <1>3, NextIsStep, TypeCorrect, PTL DEF ProviderSpec, ResultsAreKept, Stays

-----------------------------------------------------------------------------
(* Every paise is filed *)

\* The amounts of a set of results, summed as the model does.
Filed(S) == MapThenSumSet(LAMBDA e : e.request.amount, S)

\* That is a sum with the amounts as weights.
LEMMA FiledIsSum ==
    ASSUME NEW S, IsFiniteSet(S), NEW w, \A e \in S : w[e] = e.request.amount
    PROVE  Filed(S) = SumOver(w, S)
<1> DEFINE Folded(f) ==
              f = [s \in SUBSET S |->
                    IF s = {} THEN 0
                    ELSE (CHOOSE x \in s : TRUE).request.amount + f[s \ {CHOOSE x \in s : TRUE}]]
           g == CHOOSE f : Folded(f)
           h == CHOOSE f : Sums(f, w, S)
<1>1. ASSUME NEW f PROVE Folded(f) <=> Sums(f, w, S)
  <2>1. \A s \in SUBSET S : s # {} => /\ (CHOOSE x \in s : TRUE).request.amount = w[FirstOf(s)]
                                      /\ (CHOOSE x \in s : TRUE) = FirstOf(s)
    BY FirstIsElement DEF FirstOf
  <2> QED
    BY <2>1 DEF Sums
<1>2. Sums(h, w, S)
  BY SumsExist
<1>3. Folded(g)
  <2> HIDE DEF Folded, h
  <2>1. Folded(h)
    BY <1>1, <1>2
  <2> QED
    BY <2>1
<1>4. Filed(S) = g[S]
  BY DEF Filed, MapThenSumSet, MapThenFoldSet
<1> HIDE DEF Folded, g, h
<1>5. g[S] = h[S]
  BY <1>1, <1>2, <1>3, SumsAgree
<1>6. SumOver(w, S) = h[S]
  BY DEF SumOver, h
<1> QED
  BY <1>4, <1>5, <1>6

\* Filing one more result adds its amount, and nothing filed is no money.
LEMMA FilingAdds ==
    ASSUME NEW S, IsFiniteSet(S), NEW x, x \notin S,
           \A e \in S \cup {x} : e.request.amount \in Int
    PROVE  /\ Filed(S) \in Int
           /\ Filed(S \cup {x}) = Filed(S) + x.request.amount
<1> DEFINE w == [e \in S \cup {x} |-> e.request.amount]
<1>1. \A e \in S \cup {x} : w[e] = e.request.amount /\ w[e] \in Int
  OBVIOUS
<1>2. IsFiniteSet(S \cup {x}) /\ (S \cup {x}) \ {x} = S
  BY FS_AddElement
<1> HIDE DEF w
<1>3. Filed(S) = SumOver(w, S) /\ Filed(S \cup {x}) = SumOver(w, S \cup {x})
  BY <1>1, <1>2, FiledIsSum
<1>4. SumOver(w, S) \in Int
  BY <1>1, SumType
<1>5. SumOver(w, S \cup {x}) = w[x] + SumOver(w, S)
  BY <1>1, <1>2, SumWithout
<1> QED
  BY <1>1, <1>3, <1>4, <1>5

LEMMA NothingFiled == Filed({}) = 0
<1>1. IsFiniteSet({})
  BY FS_EmptySet
<1> DEFINE w == [e \in {} |-> 0]
<1>2. Filed({}) = SumOver(w, {}) /\ SumOver(w, {}) = 0
  BY <1>1, FiledIsSum, SumEquation
<1> QED
  BY <1>2

\* What explains the money of the blocks: finitely many results, each of a
\* block there is.
PaiseAreFiled ==
    /\ IsFiniteSet(Results)
    /\ \A e \in Results : e.id \in DOMAIN blocks
    /\ EveryPaiseIsFiled

\* The results of one operation on one block, whose amounts Moved sums.
ResultsOf(op, id) == {e \in Results : e.request.op = op /\ e.id = id}

\* An executed request adds its amount to what its operation moved on its
\* block, and to nothing else.
LEMMA FilingMoves ==
    ASSUME TypeOK, IsFiniteSet(Results), NEW r \in Request, Fresh(r),
           NEW id, NEW b, File(r, id, b), NEW op, NEW i
    PROVE  /\ Moved(op, i) \in Int
           /\ Moved(op, i)' = Moved(op, i) + (IF op = r.op /\ i = id THEN r.amount ELSE 0)
<1> DEFINE x == [request |-> r, id |-> id, snapshot |-> b]
           S == ResultsOf(op, i)
<1>1. Results' = Results \cup {x} /\ x.request = r /\ x.id = id
  BY FilingKeepsResults
<1>2. x \notin Results
  BY <1>1, FreshHasNone
<1>3. \A e \in Results : e.request.amount \in Int
  BY RequestFields, ResultsAreTyped DEF Record
<1>4. r.amount \in Int
  BY RequestFields
<1>5. IsFiniteSet(S) /\ S \subseteq Results
  BY FS_Subset DEF ResultsOf
<1>6. Moved(op, i) = Filed(S) /\ Moved(op, i)' = Filed(S')
  BY DEF Moved, Filed, ResultsOf, MapThenSumSet, MapThenFoldSet
<1>7. S' = IF op = r.op /\ i = id THEN S \cup {x} ELSE S
  BY <1>1 DEF ResultsOf
<1> HIDE DEF x, S
<1>8. /\ Filed(S) \in Int
      /\ Filed(S \cup {x}) = Filed(S) + r.amount
  BY <1>1, <1>2, <1>3, <1>4, <1>5, FilingAdds
<1> QED
  BY <1>4, <1>6, <1>7, <1>8

\* Nothing was moved on a block that does not exist yet.
LEMMA UnknownBlockMovedNothing ==
    ASSUME PaiseAreFiled, NEW id, id \notin DOMAIN blocks, NEW op
    PROVE  Moved(op, id) = 0
<1>1. ResultsOf(op, id) = {}
  BY DEF PaiseAreFiled, ResultsOf
<1> QED
  BY <1>1, NothingFiled DEF Moved, ResultsOf, Filed

\* The amounts of a block are numbers.
LEMMA BlockAmountsAreNumbers ==
    ASSUME TypeOK, NEW id \in DOMAIN blocks
    PROVE  /\ blocks[id] \in Block
           /\ blocks[id].authorized \in Int /\ blocks[id].debited \in Int
           /\ blocks[id].released \in Int /\ blocks[id].remaining \in Int
<1>1. blocks[id] \in Block
  BY DEF TypeOK
<1> QED
  BY <1>1 DEF Block

\* Creating a block files what it authorizes.
LEMMA CreateIsFiled ==
    ASSUME TypeOK, PaiseAreFiled, NEW r \in Request, CreateBlock(r)
    PROVE  PaiseAreFiled'
<1> DEFINE b == [txn |-> r.txn, authorized |-> r.amount, remaining |-> r.amount,
                 debited |-> 0, released |-> 0, status |-> "AUTHORIZED"]
           n == Len(blocks) + 1
<1>1. blocks' = Append(blocks, b) /\ File(r, n, b) /\ Fresh(r) /\ r.op = "create"
  BY DEF CreateBlock, Reaches
<1>2. b.authorized = r.amount /\ b.debited = 0 /\ b.released = 0
  OBVIOUS
<1>3. r.amount \in Int
  BY RequestFields
<1> HIDE DEF b
<1>4. /\ n \notin DOMAIN blocks /\ DOMAIN blocks' = DOMAIN blocks \cup {n} /\ blocks'[n] = b
      /\ \A i \in DOMAIN blocks : blocks'[i] = blocks[i] /\ i # n
  BY <1>1 DEF TypeOK
<1> HIDE DEF n
<1>5. /\ IsFiniteSet(Results') /\ \A e \in Results' : e.id \in DOMAIN blocks'
  <2> DEFINE e == [request |-> r, id |-> n, snapshot |-> b]
  <2>1. Results' = Results \cup {e} /\ e.id = n
    BY <1>1, FilingKeepsResults
  <2> HIDE DEF e
  <2> QED
    BY <1>4, <2>1, FS_AddElement DEF PaiseAreFiled
<1>6. \A op, i : /\ Moved(op, i) \in Int
                 /\ Moved(op, i)' = Moved(op, i) + (IF op = "create" /\ i = n THEN r.amount ELSE 0)
  BY <1>1, FilingMoves DEF PaiseAreFiled
<1>7. \A op : Moved(op, n) = 0
  BY <1>4, UnknownBlockMovedNothing
<1>8. ASSUME NEW id \in DOMAIN blocks'
      PROVE  /\ blocks'[id].authorized = Moved("create", id)' + Moved("increase", id)'
             /\ blocks'[id].debited = Moved("debit", id)'
             /\ blocks'[id].released = Moved("release", id)'
  <2>1. CASE id = n
    <3>1. /\ Moved("create", id)' = r.amount /\ Moved("increase", id)' = 0
          /\ Moved("debit", id)' = 0 /\ Moved("release", id)' = 0
      BY <1>3, <1>6, <1>7, <2>1
    <3> QED
      BY <1>2, <1>3, <1>4, <2>1, <3>1
  <2>2. CASE id \in DOMAIN blocks
    <3>1. \A op : Moved(op, id)' = Moved(op, id)
      BY <1>4, <1>6, <2>2
    <3> QED
      BY <1>4, <2>2, <3>1 DEF PaiseAreFiled, EveryPaiseIsFiled
  <2> QED
    BY <1>4, <2>1, <2>2
<1> QED
  BY <1>5, <1>8 DEF PaiseAreFiled, EveryPaiseIsFiled

\* Each operation adds its amount to one figure of the block.
LEMMA OperationsMoveOneAmount ==
    ASSUME NEW b \in Block, NEW a
    PROVE  /\ Increased(b, a).authorized = b.authorized + a
           /\ Increased(b, a).debited = b.debited
           /\ Increased(b, a).released = b.released
           /\ Debited(b, a).authorized = b.authorized
           /\ Debited(b, a).debited = b.debited + a
           /\ Debited(b, a).released = b.released
           /\ Released(b, a).authorized = b.authorized
           /\ Released(b, a).debited = b.debited
           /\ Released(b, a).released = b.released + a
BY DEF Increased, Debited, Released, Block

\* An operation on a known block files what it moves.
LEMMA OperationIsFiled ==
    ASSUME TypeOK, PaiseAreFiled, BlocksAreConsistent, NEW r \in Request,
           IncreaseBlock(r) \/ DebitBlock(r) \/ ReleaseBlock(r)
    PROVE  PaiseAreFiled'
<1> DEFINE n == r.block
           b == blocks[n]
           a == r.amount
<1>1. n \in DOMAIN blocks /\ Fresh(r)
  BY DEF IncreaseBlock, DebitBlock, ReleaseBlock, Operable, Reaches
<1>2. a \in Int /\ b \in Block
  BY <1>1, RequestFields, BlockAmountsAreNumbers
<1>3. PICK c : /\ Store(r, c)
               /\ \/ r.op = "increase" /\ c = Increased(b, a)
                  \/ r.op = "debit" /\ c = Debited(b, a)
                  \/ r.op = "release" /\ c = Released(b, a)
  BY DEF IncreaseBlock, DebitBlock, ReleaseBlock
<1>4. /\ c.authorized = b.authorized + (IF r.op = "increase" THEN a ELSE 0)
      /\ c.debited = b.debited + (IF r.op = "debit" THEN a ELSE 0)
      /\ c.released = b.released + (IF r.op = "release" THEN a ELSE 0)
  <2> HIDE DEF b, a
  <2>1. b.authorized \in Int /\ b.debited \in Int /\ b.released \in Int
    BY <1>2 DEF Block
  <2>2. CASE r.op = "increase"
    BY <1>2, <1>3, <2>1, <2>2, OperationsMoveOneAmount
  <2>3. CASE r.op = "debit"
    BY <1>2, <1>3, <2>1, <2>3, OperationsMoveOneAmount
  <2>4. CASE r.op = "release"
    BY <1>2, <1>3, <2>1, <2>4, OperationsMoveOneAmount
  <2> QED
    BY <1>3, <2>2, <2>3, <2>4
<1>5. blocks' = [blocks EXCEPT ![n] = c] /\ File(r, n, c)
  BY <1>3 DEF Store
<1>6. /\ DOMAIN blocks' = DOMAIN blocks /\ blocks'[n] = c
      /\ \A i \in DOMAIN blocks : i # n => blocks'[i] = blocks[i]
  BY <1>1, <1>5 DEF TypeOK
<1>7. IsFiniteSet(Results') /\ \A e \in Results' : e.id \in DOMAIN blocks'
  <2> DEFINE e == [request |-> r, id |-> n, snapshot |-> c]
  <2>1. Results' = Results \cup {e} /\ e.id = n
    BY <1>1, <1>5, FilingKeepsResults
  <2> HIDE DEF e
  <2> QED
    BY <1>1, <1>6, <2>1, FS_AddElement DEF PaiseAreFiled
<1>8. \A op, i : /\ Moved(op, i) \in Int
                 /\ Moved(op, i)' = Moved(op, i) + (IF op = r.op /\ i = n THEN a ELSE 0)
  BY <1>1, <1>5, FilingMoves DEF PaiseAreFiled
<1>9. r.op \in {"increase", "debit", "release"}
  BY <1>3
<1> HIDE DEF n, b, a
<1>10. ASSUME NEW id \in DOMAIN blocks'
       PROVE  /\ blocks'[id].authorized = Moved("create", id)' + Moved("increase", id)'
              /\ blocks'[id].debited = Moved("debit", id)'
              /\ blocks'[id].released = Moved("release", id)'
  <2>1. /\ blocks[id].authorized = Moved("create", id) + Moved("increase", id)
        /\ blocks[id].debited = Moved("debit", id)
        /\ blocks[id].released = Moved("release", id)
    BY <1>6 DEF PaiseAreFiled, EveryPaiseIsFiled
  <2>2. CASE id = n
    <3>1. /\ Moved("create", id)' = Moved("create", id)
          /\ Moved("increase", id)' = Moved("increase", id) + (IF r.op = "increase" THEN a ELSE 0)
          /\ Moved("debit", id)' = Moved("debit", id) + (IF r.op = "debit" THEN a ELSE 0)
          /\ Moved("release", id)' = Moved("release", id) + (IF r.op = "release" THEN a ELSE 0)
      BY <1>8, <1>9, <2>2
    <3>2. /\ blocks'[id].authorized = blocks[id].authorized + (IF r.op = "increase" THEN a ELSE 0)
          /\ blocks'[id].debited = blocks[id].debited + (IF r.op = "debit" THEN a ELSE 0)
          /\ blocks'[id].released = blocks[id].released + (IF r.op = "release" THEN a ELSE 0)
      BY <1>4, <1>6, <2>2 DEF b
    <3> QED
      BY <1>2, <1>8, <2>1, <3>1, <3>2
  <2>3. CASE id # n
    <3>1. \A op : Moved(op, id)' = Moved(op, id)
      BY <1>8, <2>3
    <3> QED
      BY <1>6, <2>1, <2>3, <3>1
  <2> QED
    BY <2>2, <2>3
<1> QED
  BY <1>7, <1>10 DEF PaiseAreFiled, EveryPaiseIsFiled

\* A step of the provider moves no paise it does not file.
LEMMA FilingInductive ==
    TypeOK /\ BlocksAreConsistent /\ PaiseAreFiled /\ [ProviderStep]_providerVars => PaiseAreFiled'
<1> SUFFICES ASSUME TypeOK, BlocksAreConsistent, PaiseAreFiled, [ProviderStep]_providerVars
             PROVE  PaiseAreFiled'
  OBVIOUS
<1>1. CASE blocks' = blocks /\ registry' = registry
  <2>1. Results' = Results
    BY <1>1 DEF Results
  <2>2. \A op, id : Moved(op, id)' = Moved(op, id)
    BY <2>1 DEF Moved, MapThenSumSet, MapThenFoldSet
  <2> QED
    BY <1>1, <2>1, <2>2 DEF PaiseAreFiled, EveryPaiseIsFiled
<1> QED
  BY <1>1, OthersFileNothing, CreateIsFiled, OperationIsFiled DEF ProviderStep, Executes, providerVars

\* Every paise of every block is explained by exactly one filed result, however
\* many requests were refused, failed or were replayed on the way.
THEOREM EveryPaiseIsAccountedFor == ProviderSpec => []EveryPaiseIsFiled
<1>1. ProviderInit => PaiseAreFiled
  <2> SUFFICES ASSUME ProviderInit PROVE PaiseAreFiled
    OBVIOUS
  <2>1. Results = {} /\ DOMAIN blocks = {}
    BY DEF ProviderInit, Results
  <2> QED
    BY <2>1, FS_EmptySet DEF PaiseAreFiled, EveryPaiseIsFiled
<1>2. PaiseAreFiled => EveryPaiseIsFiled
  BY DEF PaiseAreFiled
<1> QED
  BY <1>1, <1>2, NextIsStep, FilingInductive, TypeCorrect, AccountingCorrect, PTL
  DEF ProviderSpec

-----------------------------------------------------------------------------
(* Refinement *)

\* The ledger the blocks stand for.
View == [i \in DOMAIN blocks |-> Entry(blocks[i])]

\* Creating a block opens a ledger entry at the end.
LEMMA CreateOpens ==
    ASSUME TypeOK, NEW r \in CreateRequest, CreateBlock(r)
    PROVE  Ledger!Open(r.amount)
<1> DEFINE b == [txn |-> r.txn, authorized |-> r.amount, remaining |-> r.amount,
                 debited |-> 0, released |-> 0, status |-> "AUTHORIZED"]
<1>1. blocks' = Append(blocks, b)
  BY DEF CreateBlock
<1>2. Entry(b) = [authorized |-> r.amount, debited |-> 0, released |-> 0]
  BY DEF Entry
<1> HIDE DEF b
<1>3. View \in Seq({Entry(c) : c \in Block}) /\ Len(View) = Len(blocks)
  BY DEF TypeOK, View
<1>4. View' = Append(View, Entry(b))
  BY <1>1, <1>3 DEF TypeOK, View
<1>5. QED
  BY <1>2, <1>4 DEF Ledger!Open, View

\* Storing a block over a known one replaces its ledger entry.
LEMMA StoreReplacesEntry ==
    ASSUME NEW r, NEW b, r.block \in DOMAIN blocks, Store(r, b)
    PROVE  View' = [View EXCEPT ![r.block] = Entry(b)]
BY DEF Store, View

\* An operation on a known block extends, collects from or hands back its entry.
LEMMA OperationMovesLedger ==
    ASSUME TypeOK, BlocksAreConsistent, NEW r \in Request,
           IncreaseBlock(r) \/ DebitBlock(r) \/ ReleaseBlock(r)
    PROVE  Ledger!Next
<1> DEFINE id == r.block
           b  == blocks[id]
           a  == r.amount
<1>1. id \in DOMAIN blocks /\ b \in Block /\ Active(b) /\ Consistent(b)
  BY DEF IncreaseBlock, DebitBlock, ReleaseBlock, Operable, TypeOK, BlocksAreConsistent
<1>2. a \in Nat \ {0} /\ MaxAmount \in Nat
  BY RequestFields, ProviderAssumption
<1>3. /\ b.authorized \in Nat /\ b.remaining \in Nat
      /\ b.debited \in Nat /\ b.released \in Nat
  BY <1>1 DEF Block
<1>4. /\ View[id] = Entry(b) /\ id \in DOMAIN View
      /\ Ledger!Unused(View[id]) = b.remaining
  BY <1>1, <1>3 DEF View, Entry, Ledger!Unused, Consistent, Balanced
<1>5. b.remaining > 0 /\ b.remaining <= MaxAmount
  BY <1>1, <1>2, <1>3 DEF Consistent, Balanced, StatusAgrees, Active
<1> HIDE DEF id, b, a
<1>6. CASE IncreaseBlock(r)
  <2>1. b.authorized + a <= MaxAmount /\ Store(r, Increased(b, a))
    BY <1>6 DEF IncreaseBlock, id, b, a
  <2>2. Entry(Increased(b, a)) = [Entry(b) EXCEPT !.authorized = @ + a]
    BY <1>1 DEF Entry, Increased, Block
  <2>3. View' = [View EXCEPT ![id] = [Entry(b) EXCEPT !.authorized = @ + a]]
    BY <1>1, <2>1, <2>2, StoreReplacesEntry DEF id
  <2>4. View' = [View EXCEPT ![id].authorized = @ + a]
    BY <1>4, <2>3
  <2>5. a \in 1 .. MaxAmount
    BY <1>2, <1>3, <2>1
  <2>6. View[id].authorized + a <= MaxAmount
    BY <1>4, <2>1 DEF Entry
  <2>7. Ledger!Extend(id, a)
    BY <1>4, <1>5, <2>4, <2>6 DEF Ledger!Extend, View
  <2>8. QED
    BY <1>4, <2>5, <2>7 DEF Ledger!Next, View
<1>7. CASE DebitBlock(r)
  <2>1. a <= b.remaining /\ Store(r, Debited(b, a))
    BY <1>7 DEF DebitBlock, id, b, a
  <2>2. Entry(Debited(b, a)) = [Entry(b) EXCEPT !.debited = @ + a]
    BY <1>1 DEF Entry, Debited, Block
  <2>3. View' = [View EXCEPT ![id] = [Entry(b) EXCEPT !.debited = @ + a]]
    BY <1>1, <2>1, <2>2, StoreReplacesEntry DEF id
  <2>4. View' = [View EXCEPT ![id].debited = @ + a]
    BY <1>4, <2>3
  <2>5. a \in 1 .. MaxAmount
    BY <1>2, <1>3, <1>5, <2>1
  <2>6. Ledger!Collect(id, a)
    BY <1>4, <2>1, <2>4 DEF Ledger!Collect, View
  <2>7. QED
    BY <1>4, <2>5, <2>6 DEF Ledger!Next, View
<1>8. CASE ReleaseBlock(r)
  <2>1. a = b.remaining /\ Store(r, Released(b, a))
    BY <1>8 DEF ReleaseBlock, id, b, a
  <2>2. b.released = 0
    BY <1>1 DEF Consistent, StatusAgrees, Active
  <2>3. Entry(Released(b, a)) = [Entry(b) EXCEPT !.released = b.remaining]
    BY <1>1, <1>3, <2>1, <2>2 DEF Entry, Released, Block
  <2>4. View' = [View EXCEPT ![id] = [Entry(b) EXCEPT !.released = b.remaining]]
    BY <1>1, <2>1, <2>3, StoreReplacesEntry DEF id
  <2>5. View' = [View EXCEPT ![id].released = Ledger!Unused(View[id])]
    BY <1>4, <2>4
  <2>6. Ledger!HandBack(id)
    BY <1>4, <1>5, <2>5 DEF Ledger!HandBack, View
  <2>7. QED
    BY <1>4, <2>6 DEF Ledger!Next, View
<1>9. QED
  BY <1>6, <1>7, <1>8

\* A step of the provider is a step of the ledger, or none.
LEMMA LedgerStep ==
    TypeOK /\ BlocksAreConsistent /\ [ProviderStep]_providerVars => [Ledger!Next]_View
<1> SUFFICES ASSUME TypeOK, BlocksAreConsistent, [ProviderStep]_providerVars
             PROVE  [Ledger!Next]_View
  OBVIOUS
<1>1. CASE blocks' = blocks
  BY <1>1 DEF View
<1>2. ASSUME NEW r \in Request,
             Replayed(r) \/ FailsTransiently(r) \/ IsRefused(r) \/ Overflows(r)
      PROVE  blocks' = blocks
  BY <1>2 DEF Replayed, FailsTransiently, TimesOut, Unavailable, IsRefused,
              Conflicted, Rejected, Denied, Insufficient, Overflows, providerVars
<1>3. ASSUME NEW r \in Request, CreateBlock(r) PROVE Ledger!Next
  <2>1. r \in CreateRequest
    BY <1>3 DEF CreateBlock, Request, BlockRequest
  <2>2. r.amount \in Amounts
    BY <2>1 DEF CreateRequest
  <2>3. r.amount \in 1 .. MaxAmount
    BY <2>2, ProviderAssumption
  <2>4. QED
    BY <1>3, <2>1, <2>3, CreateOpens DEF Ledger!Next
<1>4. ASSUME NEW r \in Request, IncreaseBlock(r) \/ DebitBlock(r) \/ ReleaseBlock(r)
      PROVE  Ledger!Next
  BY <1>4, OperationMovesLedger
<1>5. QED
  BY <1>1, <1>2, <1>3, <1>4 DEF ProviderStep, Executes, providerVars


\* The provider implements the ledger: requests that are refused, fail or are
\* replayed move nothing, an executed one moves exactly one entry, and an entry
\* with nothing unused never moves again.
THEOREM ProviderImplementsLedger == ProviderSpec => ImplementsLedger
<1>1. ProviderInit => Ledger!Init
  BY DEF ProviderInit, Ledger!Init
<1>2. QED
  BY <1>1, NextIsStep, LedgerStep, TypeCorrect, AccountingCorrect, PTL
  DEF ProviderSpec, ImplementsLedger, Ledger!Spec, View
=============================================================================
