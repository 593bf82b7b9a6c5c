------------------------ MODULE MCDynamicExecution ------------------------
(* A small instance of DynamicExecution for TLC. *)
EXTENDS DynamicExecution, TLC

CONSTANTS r1, r2, e1, e2, init, calm, slow, jam

MCTarget == (calm :> 1) @@ (slow :> 2) @@ (jam :> 3)

NoFailures == [timeoutNext |-> "none",
               transient   |-> [op \in Operations |-> 0],
               failNext    |-> [op \in Operations |-> FALSE]]

MCFailureConfigs ==
    {NoFailures,
     [NoFailures EXCEPT !.failNext["increase"] = TRUE],
     [NoFailures EXCEPT !.timeoutNext = "increase", !.failNext["create"] = TRUE]}

=============================================================================
