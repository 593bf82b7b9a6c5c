---- MODULE MCAgentRun ----
(* Two runs, one of them with an agent model that may do anything. *)
EXTENDS AgentRun, TLC

CONSTANTS free, offline, balanced, conservative, low, middle, high

MCModel == free :> "any" @@ offline :> "deterministic"
MCRequest == free :> balanced @@ offline :> conservative

\* No history: base model.  The second personalized ride changes the optimum of
\* one profile only, to what was the optimum of the other.
MCOptimum ==
    0 :> (balanced :> low @@ conservative :> middle)
    @@ 1 :> (balanced :> middle @@ conservative :> high)
    @@ 2 :> (balanced :> high @@ conservative :> high)
====
