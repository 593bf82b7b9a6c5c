------------------------ MODULE MockReserveProvider ------------------------
(***************************************************************************)
(* MockReserveProvider (reserve_pay/mock_provider.py) with its             *)
(* IdempotencyRegistry (idempotency.py), the lifecycle table (state.py)    *)
(* and the block records and requests of models.py.                        *)
(*                                                                         *)
(* Every operation is  execute(op, key, payload, action):  look the key    *)
(* up, replay or refuse, otherwise run the action and file its result.     *)
(* The actions below are the ways one request can end, in the order the    *)
(* code tests for them.  A request is one atomic step: the module is the   *)
(* provider as one thread sees it.                                         *)
(***************************************************************************)
EXTENDS Integers, Sequences, FiniteSetsExt

CONSTANTS
    Transactions,   \* transaction ids
    Keys,           \* idempotency keys
    BlockIds,       \* block ids a request may name, known or not
    Amounts,        \* positive amounts a request may carry
    MaxAmount,      \* MAX_AMOUNT_PAISE
    FailureConfigs  \* MockFailureConfig values the provider may start with

Operations == {"create", "increase", "debit", "release"}

FailureConfig == [timeoutNext : Operations \cup {"none"},
                  transient   : [Operations -> Nat],
                  failNext    : [Operations -> BOOLEAN]]

ASSUME ProviderAssumption ==
    /\ BlockIds \subseteq Nat \ {0}
    /\ MaxAmount \in Nat
    /\ Amounts \subseteq 1 .. MaxAmount
    /\ FailureConfigs \subseteq FailureConfig

VARIABLES
    blocks,     \* _blocks; a block's id is its position, _block_counter is Len
    registry,   \* _records: from operation and key to what was executed and its result
    failures    \* failure_config

providerVars == <<blocks, registry, failures>>

-----------------------------------------------------------------------------
(* Data *)

Statuses == {"PENDING", "AUTHORIZED", "PARTIALLY_DEBITED",
             "DEBITED", "RELEASED", "FAILED"}

Block == [txn : Transactions, authorized : Nat, remaining : Nat,
          debited : Nat, released : Nat, status : Statuses]

\* A create request names no block; a payload is the other fields but the key.
NoBlock == 0

CreateRequest == [op : {"create"}, key : Keys, txn : Transactions,
                  block : {NoBlock}, amount : Amounts]

BlockRequest == [op : Operations \ {"create"}, key : Keys, txn : Transactions,
                 block : BlockIds, amount : Nat \ {0}]

Request == CreateRequest \cup BlockRequest

\* The result of an operation holds the block as the operation left it.
Record == [request : Request, id : Nat \ {0}, snapshot : Block]

AllowedTransitions(status) ==
    CASE status = "PENDING"           -> {"AUTHORIZED", "FAILED"}
      [] status = "AUTHORIZED"        -> {"AUTHORIZED", "PARTIALLY_DEBITED",
                                          "DEBITED", "RELEASED"}
      [] status = "PARTIALLY_DEBITED" -> {"PARTIALLY_DEBITED", "DEBITED",
                                          "RELEASED"}
      [] OTHER                        -> {}

Active(b) == b.status \in {"AUTHORIZED", "PARTIALLY_DEBITED"}

-----------------------------------------------------------------------------
(* IdempotencyRegistry.execute *)

\* record_key: a key is scoped by the operation it is presented for.
Scope(r) == <<r.op, r.key>>

Results == {registry[k] : k \in DOMAIN registry}

\* Slip: the look-up compares payloads, so a reused key runs again.
FreshByPayload(r) == \A record \in Results : record.request # r

Fresh(r) == Scope(r) \notin DOMAIN registry

Replayed(r) ==
    /\ Scope(r) \in DOMAIN registry
    /\ registry[Scope(r)].request = r
    /\ UNCHANGED providerVars

\* Slip: the fingerprints of a repeated request differ.
ConflictedOnReuse(r) ==
    /\ Scope(r) \in DOMAIN registry
    /\ UNCHANGED providerVars

Conflicted(r) ==
    /\ Scope(r) \in DOMAIN registry
    /\ registry[Scope(r)].request # r
    /\ UNCHANGED providerVars

\* Slip: results are filed by key alone, over those of other operations.
FileByKey(r, id, b) ==
    registry' = [k \in {j \in DOMAIN registry : j[2] # r.key} \cup {Scope(r)} |->
                    IF k = Scope(r) THEN [request |-> r, id |-> id, snapshot |-> b]
                    ELSE registry[k]]

\* _records[record_key] = ...: whatever was filed there before is overwritten.
File(r, id, b) ==
    registry' = [k \in DOMAIN registry \cup {Scope(r)} |->
                    IF k = Scope(r) THEN [request |-> r, id |-> id, snapshot |-> b]
                    ELSE registry[k]]

-----------------------------------------------------------------------------
(* _inject_failure: runs inside the action, so only for a fresh key *)

TimesOut(r) ==
    /\ Fresh(r)
    /\ failures.timeoutNext = r.op
    /\ failures' = [failures EXCEPT !.timeoutNext = "none"]
    /\ UNCHANGED <<blocks, registry>>

Unavailable(r) ==
    /\ Fresh(r)
    /\ failures.timeoutNext # r.op
    /\ failures.transient[r.op] > 0
    /\ failures' = [failures EXCEPT !.transient[r.op] = @ - 1]
    /\ UNCHANGED <<blocks, registry>>

Rejected(r) ==
    /\ Fresh(r)
    /\ failures.timeoutNext # r.op
    /\ failures.transient[r.op] = 0
    /\ failures.failNext[r.op]
    /\ failures' = [failures EXCEPT !.failNext[r.op] = FALSE]
    /\ UNCHANGED <<blocks, registry>>

\* The request reaches the operation proper.
Reaches(r) ==
    /\ Fresh(r)
    /\ failures.timeoutNext # r.op
    /\ failures.transient[r.op] = 0
    /\ ~failures.failNext[r.op]

-----------------------------------------------------------------------------
(* The operations *)

\* _block_for finds the block and the block can still be operated on.
Operable(r) ==
    /\ r.block \in DOMAIN blocks
    /\ blocks[r.block].txn = r.txn
    /\ Active(blocks[r.block])

\* Slip: earlier debits are forgotten when deciding whether all is debited.
DebitStatusOfFirst(b, amount) ==
    IF b.authorized = amount THEN "DEBITED" ELSE "PARTIALLY_DEBITED"

DebitStatus(b, amount) ==
    IF b.remaining = amount THEN "DEBITED" ELSE "PARTIALLY_DEBITED"

Increased(b, amount) ==
    [b EXCEPT !.authorized = @ + amount, !.remaining = @ + amount]

Debited(b, amount) ==
    [b EXCEPT !.remaining = @ - amount, !.debited = @ + amount,
              !.status = DebitStatus(b, amount)]

Released(b, amount) ==
    [b EXCEPT !.remaining = 0, !.released = @ + amount, !.status = "RELEASED"]

\* Slip: the block is replaced but the result is not filed.
StoreUnfiled(r, b) ==
    /\ b.status \in AllowedTransitions(blocks[r.block].status)
    /\ blocks' = [blocks EXCEPT ![r.block] = b]
    /\ UNCHANGED <<registry, failures>>

\* Store the block an operation on a known block produced, and its result.
Store(r, b) ==
    /\ b.status \in AllowedTransitions(blocks[r.block].status)
    /\ blocks' = [blocks EXCEPT ![r.block] = b]
    /\ File(r, r.block, b)
    /\ UNCHANGED failures

CreateBlock(r) ==
    /\ r.op = "create"
    /\ Reaches(r)
    /\ LET b == [txn |-> r.txn, authorized |-> r.amount, remaining |-> r.amount,
                 debited |-> 0, released |-> 0, status |-> "AUTHORIZED"]
       IN  /\ blocks' = Append(blocks, b)
           /\ File(r, Len(blocks) + 1, b)
    /\ UNCHANGED failures

IncreaseBlock(r) ==
    /\ r.op = "increase"
    /\ Reaches(r)
    /\ Operable(r)
    /\ blocks[r.block].authorized + r.amount <= MaxAmount
    /\ Store(r, Increased(blocks[r.block], r.amount))

\* Slip: the remaining amount is not checked.
DebitBlockUnchecked(r) ==
    /\ r.op = "debit"
    /\ Reaches(r)
    /\ Operable(r)
    /\ Store(r, Debited(blocks[r.block], r.amount))

DebitBlock(r) ==
    /\ r.op = "debit"
    /\ Reaches(r)
    /\ Operable(r)
    /\ r.amount <= blocks[r.block].remaining
    /\ Store(r, Debited(blocks[r.block], r.amount))

\* Slip: a release of less than what remains is let through.
ReleaseBlockInPart(r) ==
    /\ r.op = "release"
    /\ Reaches(r)
    /\ Operable(r)
    /\ r.amount <= blocks[r.block].remaining
    /\ Store(r, Released(blocks[r.block], r.amount))

ReleaseBlock(r) ==
    /\ r.op = "release"
    /\ Reaches(r)
    /\ Operable(r)
    /\ r.amount = blocks[r.block].remaining
    /\ Store(r, Released(blocks[r.block], r.amount))

\* InvalidReserveStateError
Denied(r) ==
    /\ r.op # "create"
    /\ Reaches(r)
    /\ \/ ~Operable(r)
       \/ Operable(r) /\ r.op = "release" /\ r.amount # blocks[r.block].remaining
    /\ UNCHANGED providerVars

\* InsufficientReservedFundsError
Insufficient(r) ==
    /\ r.op = "debit"
    /\ Reaches(r)
    /\ Operable(r)
    /\ r.amount > blocks[r.block].remaining
    /\ UNCHANGED providerVars

\* Money(...) raises DomainValidationError before the block is replaced.
Overflows(r) ==
    /\ r.op = "increase"
    /\ Reaches(r)
    /\ Operable(r)
    /\ blocks[r.block].authorized + r.amount > MaxAmount
    /\ UNCHANGED providerVars

-----------------------------------------------------------------------------
Executes(r) == CreateBlock(r) \/ IncreaseBlock(r) \/ DebitBlock(r) \/ ReleaseBlock(r)

\* Errors a retry may cure (retryable = True), and the other ReservePayErrors.
FailsTransiently(r) == TimesOut(r) \/ Unavailable(r)

IsRefused(r) == Conflicted(r) \/ Rejected(r) \/ Denied(r) \/ Insufficient(r)

ProviderInit ==
    /\ blocks = << >>
    /\ registry = << >>
    /\ failures \in FailureConfigs

\* Amounts that can be asked of an existing block: any, and what is left of it.
BlockAmounts(id) ==
    Amounts \cup (IF id \in DOMAIN blocks /\ blocks[id].remaining > 0
                  THEN {blocks[id].remaining} ELSE {})

Requests ==
    CreateRequest \cup
    UNION {[op : Operations \ {"create"}, key : Keys, txn : Transactions,
            block : {id}, amount : BlockAmounts(id)] : id \in BlockIds}

ProviderNext ==
    \E r \in Requests :
        \/ Replayed(r) \/ Executes(r)
        \/ FailsTransiently(r) \/ IsRefused(r) \/ Overflows(r)

ProviderSpec == ProviderInit /\ [][ProviderNext]_providerVars

-----------------------------------------------------------------------------
(* Properties *)

\* The variables hold what the code's data classes can hold.
TypeOK ==
    /\ blocks \in Seq(Block)
    /\ DOMAIN registry \subseteq Operations \X Keys
    /\ \A k \in DOMAIN registry : registry[k] \in Record /\ Scope(registry[k].request) = k
    /\ failures \in FailureConfig

\* Every paise of a block is debited, released or remaining.
Balanced(b) == b.debited + b.released + b.remaining = b.authorized

\* The status tells the truth about the amounts.
StatusAgrees(b) ==
    /\ b.status = "AUTHORIZED" =>
          b.remaining = b.authorized /\ b.debited = 0 /\ b.released = 0
    /\ b.status = "PARTIALLY_DEBITED" =>
          b.debited > 0 /\ b.remaining > 0 /\ b.released = 0
    /\ b.status = "DEBITED" =>
          b.debited = b.authorized /\ b.remaining = 0 /\ b.released = 0
    /\ b.status = "RELEASED" => b.remaining = 0 /\ b.released > 0

\* What ReserveBlock.__post_init__ and Money demand of a block.
Consistent(b) == b.authorized \in 1 .. MaxAmount /\ Balanced(b) /\ StatusAgrees(b)

\* ReserveBlock.__post_init__ never refuses what an operation computes: after
\* any sequence of requests every stored block is a positive amount within the
\* Money range, balances, and has the status its amounts call for.
BlocksAreConsistent == \A i \in DOMAIN blocks : Consistent(blocks[i])

\* A key is executed at most once per operation, whatever payloads it is
\* presented with: a step that moves money uses up a key that had no result,
\* and leaves one under it.
AtMostOnce ==
    [][blocks' # blocks =>
          \E k \in (Operations \X Keys) \ DOMAIN registry :
              DOMAIN registry' = DOMAIN registry \cup {k}]_providerVars

\* Money moved by the filed results of one operation on one block.
Moved(op, id) ==
    MapThenSumSet(LAMBDA e : e.request.amount,
                  {e \in Results : e.request.op = op /\ e.id = id})

\* Every paise a block holds, lost or returned is explained by exactly one
\* filed result: no operation moves money twice, or moves it and leaves no
\* result a retry could replay.
EveryPaiseIsFiled ==
    \A id \in DOMAIN blocks :
        /\ blocks[id].authorized = Moved("create", id) + Moved("increase", id)
        /\ blocks[id].debited = Moved("debit", id)
        /\ blocks[id].released = Moved("release", id)

\* A result stays what it was when first returned and is never overwritten, so
\* that a later replay answers what the first call was answered (README
\* "Identical payload replay returns the original result").
ResultsAreKept ==
    [][\A k \in DOMAIN registry :
          k \in DOMAIN registry' /\ registry'[k] = registry[k]]_providerVars

\* The provider implements the ledger: refused, failed and replayed requests
\* are stuttering steps, and a debited or released block never moves again.
Entry(b) == [authorized |-> b.authorized, debited |-> b.debited,
             released |-> b.released]

Ledger == INSTANCE BlockLedger WITH
    Ceiling <- MaxAmount,
    Amounts <- 1 .. MaxAmount,
    ledger  <- [i \in DOMAIN blocks |-> Entry(blocks[i])]

ImplementsLedger == Ledger!Spec
=============================================================================
