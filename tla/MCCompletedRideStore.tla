----------------------- MODULE MCCompletedRideStore -----------------------
(* Small instances of CompletedRideStore and OptimizationRuns for TLC. *)
EXTENDS OptimizationRuns, TLC

CONSTANTS h1, h2, h3, a1, r1, r2, r3, c1, c2, nobody

\* One customer's ride that ended earlier or later.
MCData == {[customer |-> c1, completed |-> time] : time \in 1 .. 2}

\* A ride that may be stored itself, one that starts as another ends, one of
\* another customer and one of nobody.
MCAsks ==
    {[id |-> r1, customer |-> c1, start |-> 3], [id |-> r3, customer |-> c1, start |-> 2],
     [id |-> r3, customer |-> c2, start |-> 3], [id |-> r3, customer |-> nobody, start |-> 1]}

\* One ride is stored by the id that a what-if gives another.
MCWhatIf == r1 :> r2 @@ r3 :> "what-if"
=============================================================================
