------------------------ MODULE MCReserveSettlement ------------------------
(* Small instances of ReserveSettlement for TLC. *)
EXTENDS ReserveSettlement, TLC

CONSTANTS t1, k1, s1, s2, c1

MCKeys == {k1} \cup ({s1, s2} \X {"debit", "release"})

\* Rejections of the two operations a settlement makes, and of none; one
\* timeout on top, which the retry of the same call absorbs.
Rejecting(ops) ==
    [timeoutNext |-> "debit",
     transient   |-> [o \in Operations |-> 0],
     failNext    |-> [o \in Operations |-> o \in ops]]

MCFailureConfigs == {Rejecting(ops) : ops \in SUBSET {"debit", "release"}}

\* One fare per key, as callers that derive the key from the ride do.
OneFareEach == (s1 :> {2}) @@ (s2 :> {3})

\* One key presented with two fares.
TwoFares == (s1 :> {1, 2}) @@ (s2 :> {3})
=============================================================================
