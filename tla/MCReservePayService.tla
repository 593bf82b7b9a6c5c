------------------------ MODULE MCReservePayService ------------------------
(* Small instances of ReservePayService for TLC. *)
EXTENDS ReservePayService, TLC

CONSTANTS t1, k1, k2, c1, c2

\* One operation times out, is unavailable and is rejected, once each:
\* a call of two attempts gives up, and the next one is refused.
FailingOnce(op) ==
    [timeoutNext |-> op,
     transient   |-> [o \in Operations |-> IF o = op THEN 1 ELSE 0],
     failNext    |-> [o \in Operations |-> o = op]]

MCFailureConfigs == {FailingOnce("create"), FailingOnce("increase"), FailingOnce("debit")}
=============================================================================
