-------------------------- MODULE MCLimitedUseArcs --------------------------
(* Model-checking instance of LimitedUseArcs: an output three launches     *)
(* use, one used once and one not used at all.                             *)
EXTENDS LimitedUseArcs, TLC
CONSTANTS h1, h2, h3, a, b, c
MCThreads == {h1, h2, h3}
MCTasks == {a, b, c}
MCUses == (a :> 3) @@ (b :> 1) @@ (c :> 0)
Symmetry == Permutations(MCThreads)
=============================================================================
