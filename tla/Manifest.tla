------------------------------ MODULE Manifest ------------------------------
(***************************************************************************)
(* A compiled circuit as the runner sees it (flatbuffer Manifest, written  *)
(* by ir/src/circuit_builder.rs and read by runner/src/runner.rs): tasks   *)
(* numbered in topological order, what each needs before its first step,   *)
(* and the rounds of messages its code exchanges with the same task at the *)
(* other party.                                                            *)
(***************************************************************************)
EXTENDS Integers, Sequences, FiniteSets, SequencesExt

CONSTANTS NumTasks,   \* tasks are 0 .. NumTasks - 1
          Inputs,     \* per task, the sources of its inputs, duplicates kept
          PartyA,     \* per task, the party that sends first
          Sends,      \* per task, how many messages alternate, from PartyA
          Challenge,  \* tasks whose kind has NEEDS_CHALLENGE
          Chunk,      \* per task, its prototype's data chunk or NoChunk
          Private     \* tasks with private data at the prover

Parties == {"prover", "verifier"}
Peer(p) == IF p = "prover" THEN "verifier" ELSE "prover"
NoChunk == "nochunk"

Tasks == 0 .. NumTasks - 1

ASSUME ManifestAssumption ==
  /\ NumTasks \in Nat
  /\ Inputs \in [Tasks -> Seq(Tasks)]
  /\ \A t \in Tasks : \A i \in DOMAIN Inputs[t] : Inputs[t][i] < t
  /\ PartyA \in [Tasks -> Parties]
  /\ Sends \in [Tasks -> Nat]
  /\ Challenge \subseteq Tasks
  /\ Private \subseteq Tasks

(* The rounds PrototypeBuilder::send records: the first sender opens a     *)
(* round (size_a), the other party completes it (size_b).                  *)
Rounds(t) == (Sends[t] + 1) \div 2
HasB(t, round) == 2 * round + 2 <= Sends[t]

IsA(p, t) == PartyA[t] = p

(* CommunicatonSizes::of, as "is there data": party A answers round        *)
(* step - 1 and opens round step, party B deals with round step.           *)
Incoming(p, t, step) ==
  IF IsA(p, t) THEN step >= 1 /\ step - 1 < Rounds(t) /\ HasB(t, step - 1)
  ELSE step < Rounds(t)
Outgoing(p, t, step) ==
  step < Rounds(t) /\ (IsA(p, t) \/ HasB(t, step))

(* The round whose data step needs, when it needs any. *)
RoundFor(p, t, step) == IF IsA(p, t) THEN step - 1 ELSE step

(* expected_to_finish_in_steps *)
ExpectedSteps(p, t) ==
  IF IsA(p, t)
  THEN IF Rounds(t) = 0 THEN 1
       ELSE Rounds(t) + (IF HasB(t, Rounds(t) - 1) THEN 1 ELSE 0)
  ELSE IF Rounds(t) = 0 THEN 1 ELSE Rounds(t)

(* What a ReactorRequest for a step asks for (launch_task for step 0,      *)
(* step_task for the others).                                              *)
WantChallenge(t, step) == step = 0 /\ t \in Challenge
WantIncoming(p, t, step) == step > 0 \/ (Rounds(t) > 0 /\ ~IsA(p, t))
WantPublic(t, step) == step = 0 /\ Chunk[t] # NoChunk
WantPrivate(p, t, step) == step = 0 /\ p = "prover" /\ t \in Private

(* How often u is an input of t; dependency and dependent counts. *)
Mult(t, u) == Cardinality({i \in DOMAIN Inputs[t] : Inputs[t][i] = u})

(* The uses of u: <<t, i>> when it is input i of task t. *)
UsesOf(u) == {ti \in UNION {{t} \X DOMAIN Inputs[t] : t \in Tasks} :
                Inputs[ti[1]][ti[2]] = u}
Precedes(x, y) == x[1] < y[1] \/ (x[1] = y[1] /\ x[2] < y[2])

(* inferred_dependents: sorted, one occurrence per use. *)
UseRank(u, y) == Cardinality({x \in UsesOf(u) : Precedes(x, y)})
UseAt(u, k) == CHOOSE y \in UsesOf(u) : UseRank(u, y) = k - 1
DependentsOf ==
  [u \in Tasks |-> [k \in 1 .. Cardinality(UsesOf(u)) |-> UseAt(u, k)[1]]]

(* initially_ready_tasks: pushed from the last task to the first. *)
InitiallyReady == {t \in Tasks : Inputs[t] = <<>>}
ReadyRank(t) == Cardinality({u \in InitiallyReady : u > t})
LaunchOrder ==
  [k \in 1 .. Cardinality(InitiallyReady) |->
     CHOOSE t \in InitiallyReady : ReadyRank(t) = k - 1]

(* inferred_priority *)
Priority[t \in Tasks] ==
  LET above == {Priority[d] : d \in {d \in t + 1 .. NumTasks - 1 : Mult(d, t) > 0}}
  IN  -Rounds(t) - 1
        + (IF above = {} THEN 0 ELSE CHOOSE m \in above : \A n \in above : n <= m)

(* Tasks whose outputs t needs, directly or not: those in every set that   *)
(* has t's inputs and, with a task, its inputs.                            *)
Ancestors ==
  [t \in Tasks |->
     {u \in Tasks :
        \A S \in SUBSET Tasks :
           /\ ToSet(Inputs[t]) \subseteq S
           /\ \A v \in S : ToSet(Inputs[v]) \subseteq S
           => u \in S}]
=============================================================================
