----------------------- MODULE MCMockReserveProvider -----------------------
(* Small instances of MockReserveProvider for TLC. *)
EXTENDS MockReserveProvider, TLC

CONSTANTS t1, t2, k1, k2

NoFailures == [timeoutNext |-> "none",
               transient   |-> [op \in Operations |-> 0],
               failNext    |-> [op \in Operations |-> FALSE]]

\* A clean provider, and one that fails each operation once in every way.
MCFailureConfigs ==
    {NoFailures} \cup
    {[timeoutNext |-> op,
      transient   |-> [o \in Operations |-> IF o = op THEN 1 ELSE 0],
      failNext    |-> [o \in Operations |-> o = op]] : op \in Operations}

Symmetry == Permutations(Transactions) \cup Permutations(Keys)
=============================================================================
