------------------------- MODULE DashboardAuthorize -------------------------
(***************************************************************************)
(* DashboardService.authorize_mock (web/services.py): the request handlers *)
(* are plain functions that the web framework runs on a pool of threads,   *)
(* all of them on one MockReserveProvider.  Here the steps between which   *)
(* the interpreter may switch threads are actions: the look-up in the      *)
(* idempotency registry, the test and the reset of the failure flag, the   *)
(* numbering of the block, and the filing of block and result.             *)
(***************************************************************************)
EXTENDS Integers, FiniteSetsExt

CONSTANTS
    Threads,        \* worker threads of the server
    Keys,           \* idempotency keys of requests
    Payloads,       \* what a request authorizes: transaction, customer, amount
    MaxRequests     \* bound: requests in one behaviour

ASSUME DashboardAssumption ==
    /\ Keys # {} /\ Payloads # {}
    /\ MaxRequests \in Nat

VARIABLES
    thread,         \* what each thread is at
    counter,        \* _block_counter
    blocks,         \* _blocks: pairs of id and payload
    results,        \* _records: what each key was answered with
    failNextCreate, \* the shared failure flag
    requests        \* requests accepted so far, for the bound

dashboardVars == <<thread, counter, blocks, results, failNextCreate, requests>>

Steps == {"idle", "lookup", "inject", "reject", "number", "store",
          "authorized", "conflict", "rejected"}

\* The results filed under a key: at most one, the last.
ResultsOf(key) == {r \in results : r.key = key}

Over(t) == thread[t].step \in {"idle", "authorized", "conflict", "rejected"}

At(t, step) == thread[t].step = step

GoTo(t, step) == thread' = [thread EXCEPT ![t].step = step]

-----------------------------------------------------------------------------
\* A request is picked up; simulate_failure arms the flag before the call.
Accept(t, key, payload, simulateFailure) ==
    /\ Over(t)
    /\ requests < MaxRequests
    /\ requests' = requests + 1
    /\ failNextCreate' = (failNextCreate \/ simulateFailure)
    /\ thread' = [thread EXCEPT ![t] =
                    [step |-> "lookup", key |-> key, payload |-> payload, id |-> 0]]
    /\ UNCHANGED <<counter, blocks, results>>

\* Slip: the payload of the filed result is not compared.
LookupFindsAny(t) ==
    /\ At(t, "lookup")
    /\ \E r \in ResultsOf(thread[t].key) :
          thread' = [thread EXCEPT ![t].step = "authorized", ![t].id = r.id]
    /\ UNCHANGED <<counter, blocks, results, failNextCreate, requests>>

\* Slip: a request that conflicts is left without an answer.
LookupFindsSame(t) ==
    /\ At(t, "lookup")
    /\ \E r \in ResultsOf(thread[t].key) :
          /\ r.payload = thread[t].payload
          /\ thread' = [thread EXCEPT ![t].step = "authorized", ![t].id = r.id]
    /\ UNCHANGED <<counter, blocks, results, failNextCreate, requests>>

\* execute: a known key is answered at once, another one goes on to the action.
LookupFinds(t) ==
    /\ At(t, "lookup")
    /\ \E r \in ResultsOf(thread[t].key) :
          thread' = [thread EXCEPT
                       ![t].step = IF r.payload = thread[t].payload
                                   THEN "authorized" ELSE "conflict",
                       ![t].id = IF r.payload = thread[t].payload THEN r.id ELSE 0]
    /\ UNCHANGED <<counter, blocks, results, failNextCreate, requests>>

LookupMisses(t) ==
    /\ At(t, "lookup")
    /\ ResultsOf(thread[t].key) = {}
    /\ GoTo(t, "inject")
    /\ UNCHANGED <<counter, blocks, results, failNextCreate, requests>>

\* _inject_failure reads the flag ...
TestFlag(t) ==
    /\ At(t, "inject")
    /\ GoTo(t, IF failNextCreate THEN "reject" ELSE "number")
    /\ UNCHANGED <<counter, blocks, results, failNextCreate, requests>>

\* ... and resets it before it raises.
ResetFlag(t) ==
    /\ At(t, "reject")
    /\ failNextCreate' = FALSE
    /\ GoTo(t, "rejected")
    /\ UNCHANGED <<counter, blocks, results, requests>>

\* Slip: the number is taken from the blocks stored so far.
NumberByStored(t) ==
    /\ At(t, "number")
    /\ counter' = counter + 1
    /\ thread' = [thread EXCEPT ![t].step = "store", ![t].id = Cardinality(blocks) + 1]
    /\ UNCHANGED <<blocks, results, failNextCreate, requests>>

\* The block is numbered; incrementing and reading the counter is one step.
NumberBlock(t) ==
    /\ At(t, "number")
    /\ counter' = counter + 1
    /\ thread' = [thread EXCEPT ![t].step = "store", ![t].id = counter + 1]
    /\ UNCHANGED <<blocks, results, failNextCreate, requests>>

\* The block is stored, and the result filed whatever is filed by now.
StoreBlock(t) ==
    LET me == thread[t] IN
    /\ At(t, "store")
    /\ blocks' = {b \in blocks : b.id # me.id} \cup {[id |-> me.id, payload |-> me.payload]}
    /\ results' = (results \ ResultsOf(me.key))
                     \cup {[key |-> me.key, payload |-> me.payload, id |-> me.id]}
    /\ GoTo(t, "authorized")
    /\ UNCHANGED <<counter, failNextCreate, requests>>

Proceed(t) ==
    \/ LookupFinds(t) \/ LookupMisses(t) \/ TestFlag(t) \/ ResetFlag(t)
    \/ NumberBlock(t) \/ StoreBlock(t)

-----------------------------------------------------------------------------
DashboardInit ==
    /\ thread = [t \in Threads |-> [step |-> "idle", key |-> CHOOSE k \in Keys : TRUE,
                                    payload |-> CHOOSE p \in Payloads : TRUE, id |-> 0]]
    /\ counter = 0
    /\ blocks = {}
    /\ results = {}
    /\ failNextCreate = FALSE
    /\ requests = 0

DashboardNext ==
    \E t \in Threads :
        \/ \E key \in Keys, payload \in Payloads, simulateFailure \in BOOLEAN :
              Accept(t, key, payload, simulateFailure)
        \/ Proceed(t)

\* A thread that is in a handler is scheduled again and again.
DashboardSpec ==
    /\ DashboardInit
    /\ [][DashboardNext]_dashboardVars
    /\ \A t \in Threads : WF_dashboardVars(Proceed(t))

-----------------------------------------------------------------------------
(* Properties *)

\* Threads racing for block numbers never overwrite each other's block: as many
\* blocks are stored or about to be as numbers were given out.
NoBlockIsOverwritten ==
    Cardinality(blocks) + Cardinality({t \in Threads : At(t, "store")}) = counter

\* Whoever is told "authorized" holds a block that exists and authorizes what it
\* asked for, even if another thread was answered with another block meanwhile.
AnswersAreBacked ==
    \A t \in Threads :
        At(t, "authorized") =>
            [id |-> thread[t].id, payload |-> thread[t].payload] \in blocks

\* One key creates one block, as the README says of the registry ("Identical
\* payload replay returns the original result without executing twice").
OneBlockPerKey ==
    \A t, u \in Threads :
        /\ At(t, "authorized") /\ At(u, "authorized")
        /\ thread[t].key = thread[u].key
        => thread[t].id = thread[u].id

\* Every request is answered: no thread is caught between two steps for good.
RequestsAreAnswered == \A t \in Threads : ~Over(t) ~> Over(t)
=============================================================================
