---------------------------- MODULE MCRunnerChain ----------------------------
(* Model-checking instance of Runner: three tasks, each the input of the   *)
(* next.  In task 0 everything a request can ask for meets in one slot (a  *)
(* challenge, a message, a chunk and private data, with two disk threads), *)
(* the verifier speaks twice and the prover once.  Task 1 exchanges two    *)
(* messages; task 2 uses an output of task 0 twice, needs a challenge and  *)
(* sends nothing, so that the verifier can reach the end of the circuit    *)
(* while messages are still queued.                                        *)
EXTENDS RunnerProperties

MCInputs == [t \in 0 .. 2 |-> CASE t = 0 -> <<>> [] t = 1 -> <<0>> [] OTHER -> <<1, 0, 0>>]
MCPartyA == [t \in 0 .. 2 |-> IF t = 0 THEN "verifier" ELSE "prover"]
MCSends == [t \in 0 .. 2 |-> CASE t = 0 -> 3 [] t = 1 -> 2 [] OTHER -> 0]
MCChunk == [t \in 0 .. 2 |-> IF t = 1 THEN NoChunk ELSE "k"]
OneRunner == [p \in Parties |-> 1]
=============================================================================
