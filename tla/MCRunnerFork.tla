---------------------------- MODULE MCRunnerFork ----------------------------
(* Model-checking instance of Runner: two tasks that are ready at once, a  *)
(* third that needs both, the first of them twice, and a fourth that needs *)
(* the second, the third and a challenge.  The prover speaks in the first  *)
(* three, which its two runner threads may work on at the same time while  *)
(* the queue of outgoing data holds one entry; two connections take from   *)
(* the queue.  No task reads from disk.                                    *)
EXTENDS RunnerProperties

MCInputs == [t \in 0 .. 3 |-> CASE t = 2 -> <<0, 1, 0>> [] t = 3 -> <<1, 2>> [] OTHER -> <<>>]
MCPartyA == [t \in 0 .. 3 |-> "prover"]
MCSends == [t \in 0 .. 3 |-> IF t = 3 THEN 0 ELSE 1]
MCChunk == [t \in 0 .. 3 |-> NoChunk]
TwoRunners == [p \in Parties |-> IF p = "prover" THEN 2 ELSE 1]
=============================================================================
