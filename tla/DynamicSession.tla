--------------------------- MODULE DynamicSession ---------------------------
(***************************************************************************)
(* DynamicRideService (dynamic/service.py): the session of one ride, the   *)
(* updates of its context while it is under way, and the confirmation of   *)
(* additional blocks.  Sessions are immutable values, so a caller may take *)
(* the decision of an update and drop the session that came with it: such  *)
(* a decision is indistinguishable from the others until it is confirmed.  *)
(* Prediction and optimization are the function Target: context, history   *)
(* snapshot and risk policy are fixed for the session but for the context. *)
(***************************************************************************)
EXTENDS Integers, Sequences, FiniteSetsExt

CONSTANTS
    Ride,           \* the session's transaction
    Rides,          \* transactions an update may name
    Events,         \* ids of context updates
    Times,          \* observation times, after the start at 0
    Contexts,       \* values of the mutable context fields
    InitialContext,
    Target,         \* the block recommended for a context
    MaxDecisions    \* bound: distinct decisions of one behaviour

ASSUME SessionAssumption ==
    /\ Ride \in Rides
    /\ Times \subseteq Nat \ {0}
    /\ InitialContext \in Contexts
    /\ Target \in [Contexts -> Nat \ {0}]
    /\ MaxDecisions \in Nat

VARIABLES
    session,    \* the session the caller goes on with
    decisions   \* every decision the service ever returned for it

sessionVars == <<session, decisions>>

Update == [event : Events, ride : Rides, sequence : Nat \ {0}, at : Times, context : Contexts]

Decision == [update : Update, version : Nat, previous : Nat, target : Nat, additional : Nat]

Session == [context : Contexts, authorized : Nat, version : Nat, lastUpdate : Nat,
            processed : Seq([update : Update, decision : Decision]),
            confirmed : SUBSET [event : Events, amount : Nat]]

InitialBlock == Target[InitialContext]

-----------------------------------------------------------------------------
(* apply_context_update *)

Processed(event) ==
    \E i \in DOMAIN session.processed : session.processed[i].update.event = event

\* The checks an update that is not a replay has to pass, in one conjunction.
Accepted(u) ==
    /\ ~Processed(u.event)
    /\ u.ride = Ride
    /\ u.sequence = Len(session.processed) + 1
    /\ u.at > session.lastUpdate
    /\ u.context # session.context

\* Slip: a target below the authorized block asks for a negative amount.
AdditionalUnbounded(target) == target - session.authorized

Additional(target) ==
    IF target > session.authorized THEN target - session.authorized ELSE 0

Decide(u) ==
    [update     |-> u,
     version    |-> session.version + 1,
     previous   |-> session.authorized,
     target     |-> Target[u.context],
     additional |-> Additional(Target[u.context])]

Issue(d) ==
    /\ Cardinality(decisions \cup {d}) <= MaxDecisions
    /\ decisions' = decisions \cup {d}

ApplyUpdate(u) ==
    /\ Accepted(u)
    /\ Issue(Decide(u))
    /\ session' = [session EXCEPT
                     !.context    = u.context,
                     !.version    = @ + 1,
                     !.lastUpdate = u.at,
                     !.processed  = Append(@, [update |-> u, decision |-> Decide(u)])]

\* The caller keeps the decision and goes on with the session it had.
ApplyAndDrop(u) ==
    /\ Accepted(u)
    /\ Issue(Decide(u))
    /\ UNCHANGED session

\* A replay returns the stored decision, a faulty update raises; nothing changes.
UpdateChangesNothing(u) ==
    /\ ~Accepted(u)
    /\ UNCHANGED sessionVars

-----------------------------------------------------------------------------
(* confirm_block_authorized *)

ConfirmedAs(d, total) ==
    \E c \in session.confirmed : c.event = d.update.event /\ c.amount = total

ConfirmedAtAll(d) == \E c \in session.confirmed : c.event = d.update.event

\* Slip: the versions are not compared, so an overtaken decision passes.
ConfirmableStale(d, total) ==
    /\ ~ConfirmedAtAll(d)
    /\ session.authorized = d.previous
    /\ total = d.previous + d.additional

\* The decision is the session's latest, and nothing was authorized since.
Confirmable(d, total) ==
    /\ ~ConfirmedAtAll(d)
    /\ d.version = session.version
    /\ session.processed # << >>
    /\ session.processed[Len(session.processed)].decision = d
    /\ session.authorized = d.previous
    /\ total = d.previous + d.additional

\* Slip: the confirmation is not recorded in the audit trail.
ConfirmUnrecorded(d, total) == session' = [session EXCEPT !.authorized = total]

Confirm(d, total) ==
    session' = [session EXCEPT
                  !.authorized = total,
                  !.confirmed  = @ \cup {[event |-> d.update.event, amount |-> total]}]

-----------------------------------------------------------------------------
Updates ==
    [event : Events, ride : Rides, sequence : 1 .. Cardinality(Events) + 1,
     at : Times, context : Contexts]

SessionInit ==
    /\ session = [context |-> InitialContext, authorized |-> InitialBlock,
                  version |-> 0, lastUpdate |-> 0, processed |-> << >>, confirmed |-> {}]
    /\ decisions = {}

UpdateArrives ==
    \E u \in Updates : ApplyUpdate(u) \/ ApplyAndDrop(u) \/ UpdateChangesNothing(u)

\* The session and the decisions are what dynamic/models.py can hold.
SessionTypeOK ==
    /\ session \in Session
    /\ decisions \subseteq Decision
=============================================================================
