--------------------------- MODULE CircuitBuilder ---------------------------
(***************************************************************************)
(* mac-n-cheese/ir/src/circuit_builder.rs: how a compiler writes the       *)
(* manifest the runner reads.  It registers prototypes, announcing the     *)
(* messages of each, and instantiates them as tasks whose inputs are       *)
(* slices of the outputs of earlier tasks; finish then walks the tasks     *)
(* backwards and infers priorities.                                        *)
(* Shapes, sizes and data chunks are left out.                             *)
(***************************************************************************)
EXTENDS Integers, Sequences, FiniteSets, SequencesExt

CONSTANTS MaxPrototypes, MaxTasks,   \* bounds on what is built
          MaxSends,                  \* .. on the messages of a prototype
          MaxSingle, MaxMulti        \* .. and on the inputs of a task

ASSUME BuilderAssumption == MaxSends \in Nat /\ MaxTasks \in Nat

Parties == {"prover", "verifier"}
Nobody == "nobody"

VARIABLES
  prototypes,  \* registered: who sends first, the rounds, the sends announced
  pb,          \* the PrototypeBuilder at work, or a set with no prototype
  tasks,       \* wip_tasks; task t is at position t + 1
  ready,       \* initially_ready_tasks
  next         \* finish: the task it looks at; MaxTasks while building

builderVars == <<prototypes, pb, tasks, ready, next>>

NoBuilder == {}
NumTasks == Len(tasks)
TaskIds == 0 .. NumTasks - 1
Task(t) == tasks[t + 1]
Building == next = MaxTasks
AtMost(n, S) == UNION {[1 .. k -> S] : k \in 0 .. n}

BuilderInit ==
  /\ prototypes = <<>> /\ pb = NoBuilder
  /\ tasks = <<>> /\ ready = <<>>
  /\ next = MaxTasks

NewPrototype ==
  /\ Building /\ pb = NoBuilder /\ tasks = <<>> /\ Len(prototypes) < MaxPrototypes
  /\ pb' = {[first |-> Nobody, last |-> Nobody, rounds |-> <<>>, sends |-> 0]}
  /\ UNCHANGED <<prototypes, tasks, ready, next>>

(* PrototypeBuilder::send: a round opens when the first sender sends and   *)
(* is completed by the other.  Mutant: every message opens a round.        *)
RoundsAfter_AlwaysOpen(b, who) == Append(b.rounds, [a |-> TRUE, b |-> FALSE])
RoundsAfter(b, who) ==
  IF b.first \in {Nobody, who}
  THEN Append(b.rounds, [a |-> TRUE, b |-> FALSE])
  ELSE [b.rounds EXCEPT ![Len(b.rounds)].b = TRUE]

(* prover_sends and verifier_sends; the assertion that nobody sends twice  *)
(* in a row is the caller's duty.                                          *)
Send(who) ==
  \E b \in pb :
    /\ b.last # who /\ b.sends < MaxSends
    /\ pb' = {[first |-> IF b.first = Nobody THEN who ELSE b.first,
               last |-> who, rounds |-> RoundsAfter(b, who), sends |-> b.sends + 1]}
    /\ UNCHANGED <<prototypes, tasks, ready, next>>

(* party_a: first_sender.unwrap_or_default(), and the default is Prover.   *)
RegisterPrototype ==
  \E b \in pb :
    /\ prototypes' = Append(prototypes,
         [party_a |-> IF b.first = Nobody THEN "prover" ELSE b.first,
          rounds |-> b.rounds, sends |-> b.sends])
    /\ pb' = NoBuilder
    /\ UNCHANGED <<tasks, ready, next>>

(* task_id_buffer.  Mutant: the inputs of multi-arrays are forgotten.      *)
Sources_SingleOnly(single, multi) == single
Sources(single, multi) == single \o multi

Uses(src, t) == Cardinality({i \in DOMAIN src : src[i] = t})
Repeat(x, n) == [i \in 1 .. n |-> x]

(* inferred_dependents of the sources of a new task.  Mutant: a task that  *)
(* is an input twice gets its dependent once.                              *)
NewUses_Distinct(src, t) == IF Uses(src, t) > 0 THEN 1 ELSE 0
NewUses(src, t) == Uses(src, t)

(* inferred_priority of a new task, from the number of its rounds.         *)
(* Mutant: as the comment at circuit_builder.rs:432 has it.                *)
InitialPriority_AsCommented(n) == -(IF n = 0 THEN 1 ELSE n)
InitialPriority(n) == -n - 1

Instantiate(i, single, multi) ==
  LET src == Sources(single, multi)
      old == [k \in DOMAIN tasks |->
                [tasks[k] EXCEPT !.dependents =
                   @ \o Repeat(NumTasks, NewUses(src, k - 1))]]
  IN  /\ Building /\ pb = NoBuilder /\ NumTasks < MaxTasks
      /\ tasks' = Append(old, [prototype |-> i, dependencies |-> src,
                               dependents |-> <<>>, inputs |-> single \o multi,
                               priority |-> InitialPriority(Len(prototypes[i].rounds))])
      /\ UNCHANGED <<prototypes, pb, ready, next>>

StartFinish ==
  /\ Building /\ pb = NoBuilder
  /\ next' = NumTasks - 1
  /\ UNCHANGED <<prototypes, pb, tasks, ready>>

(* The best of the dependents' priorities, 0 without dependents.           *)
Delta(t) ==
  LET ps == {Task(d).priority : d \in ToSet(Task(t).dependents)}
  IN  IF ps = {} THEN 0 ELSE CHOOSE m \in ps : \A n \in ps : n <= m

FinishTask ==
  /\ next \in TaskIds
  /\ tasks' = [tasks EXCEPT ![next + 1].priority = @ + Delta(next)]
  /\ ready' = IF Task(next).dependencies = <<>> THEN Append(ready, next) ELSE ready
  /\ next' = next - 1
  /\ UNCHANGED <<prototypes, pb>>

(* sort_unstable of the dependents, as they are written.                   *)
SortRank(s, i) ==
  Cardinality({j \in DOMAIN s : s[j] < s[i] \/ (s[j] = s[i] /\ j < i)})
Sorted(s) == [k \in DOMAIN s |-> s[CHOOSE i \in DOMAIN s : SortRank(s, i) = k - 1]]

BuilderNext ==
  \/ NewPrototype
  \/ \E who \in Parties : Send(who)
  \/ RegisterPrototype
  \/ \E i \in DOMAIN prototypes : \E single \in AtMost(MaxSingle, TaskIds) :
        \E multi \in AtMost(MaxMulti, TaskIds) : Instantiate(i, single, multi)
  \/ StartFinish
  \/ FinishTask

BuilderSpec == BuilderInit /\ [][BuilderNext]_builderVars

Finished == next = -1
Prototype(t) == prototypes[Task(t).prototype]
-----------------------------------------------------------------------------
(* What the runner's model takes a circuit to be.                          *)
M == INSTANCE Manifest WITH
       NumTasks <- NumTasks,
       Inputs <- [t \in TaskIds |-> Task(t).inputs],
       PartyA <- [t \in TaskIds |-> Prototype(t).party_a],
       Sends <- [t \in TaskIds |-> Prototype(t).sends],
       Challenge <- {}, Private <- {},
       Chunk <- [t \in TaskIds |-> "nochunk"]

(* The list of dependents of every task is the transpose of the lists of   *)
(* dependencies, with multiplicity: what the runner counts down on one     *)
(* side (remaining_dependencies, notified per dependent) and on the other  *)
(* (task_outputs, taken per input) reaches zero exactly.                   *)
CountsMatch ==
  \A t, d \in TaskIds :
    Uses(Task(t).dependents, d) = Uses(Task(d).inputs, t)
      /\ Uses(Task(d).dependencies, t) = Uses(Task(d).inputs, t)

(* The rounds written for a prototype are those of the messages announced, *)
(* as both parties derive them: whatever one sends in a step the other     *)
(* waits for in some step, and neither waits for more.                     *)
RoundsMatch ==
  \A t \in TaskIds :
    LET r == Prototype(t).rounds
        sent(p) == Cardinality({k \in 0 .. MaxSends : M!Outgoing(p, t, k)})
        awaited(p) == Cardinality({k \in 0 .. MaxSends + 1 : M!Incoming(p, t, k)})
    IN  /\ M!Rounds(t) = Len(r)
        /\ \A k \in DOMAIN r : r[k].b <=> M!HasB(t, k - 1)
        /\ \A p \in Parties : sent(p) = awaited(M!Peer(p))
        /\ sent("prover") + sent("verifier") = Prototype(t).sends

(* The manifest written is the one the runner's model starts from: sorted  *)
(* dependents, and every task without inputs as initially ready, the most  *)
(* recent first (circuit_builder.rs:445-486).                              *)
WritesManifest ==
  Finished =>
    /\ \A t \in TaskIds : Sorted(Task(t).dependents) = M!DependentsOf[t]
    /\ ToSet(ready) = M!InitiallyReady
    /\ \A i \in 1 .. Len(ready) - 1 : ready[i] > ready[i + 1]

(* The builder's priorities bear the runner's: each step of a task adds    *)
(* one (runner.rs:309) and still some dependent it unlocks goes first in   *)
(* the task queue, on its priority alone.  A task may take one step more   *)
(* than it has rounds, so the room the builder leaves is only just enough, *)
(* for either party and on every path of dependents to the end: with the   *)
(* "max(1, # of communication rounds in t)" of the comment at line 431     *)
(* they would tie.                                                         *)
RanksBelowDependents ==
  Finished =>
    \A t \in TaskIds : \A p \in Parties :
      Task(t).dependents # <<>> =>
        \E d \in ToSet(Task(t).dependents) :
          Task(t).priority + (M!ExpectedSteps(p, t) - 1) < Task(d).priority
=============================================================================
