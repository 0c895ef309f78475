------------------------- MODULE ThreadSpawnerProofs -------------------------
(***************************************************************************)
(* Proofs about ThreadSpawner for every finite set of threads and daemons. *)
(* The count is exact by itself; that an Ok is right also needs that the   *)
(* main thread has spawned everything by the time it looks at the count.   *)
(***************************************************************************)
EXTENDS ThreadSpawner, FiniteSetTheorems, TLAPS

AllSpawned == main # "spawning" => In({"unspawned", "counted"}) = {}
IInv == TypeOK /\ CountExact /\ AllSpawned

(* Live threads can be counted.                                            *)
LEMMA LiveFinite == IsFiniteSet(Live) /\ Cardinality(Live) \in Nat
  BY SpawnerAssumption, FS_Subset, FS_CardinalityType DEF Live

(* The inductive invariant holds initially.                                *)
LEMMA InitIInv == Init => IInv
  BY SpawnerAssumption, FS_EmptySet
  DEF Init, IInv, TypeOK, CountExact, AllSpawned, Live, In

(* Counting a thread adds it to the live ones.                             *)
LEMMA CountThreadStep ==
  ASSUME IInv, NEW t \in Threads, CountThread(t)
  PROVE  IInv'
<1>1. Live' = Live \cup {t} /\ t \notin Live
  BY SpawnerAssumption DEF IInv, TypeOK, CountThread, Live
<1>2. Cardinality(Live') = Cardinality(Live) + 1
  BY <1>1, LiveFinite, FS_AddElement
<1>3. TypeOK'
  BY LiveFinite, SpawnerAssumption DEF IInv, TypeOK, CountThread, Counted
<1>4. In({"failed"})' = In({"failed"})
  BY DEF IInv, TypeOK, CountThread, In
<1>5. CountExact'
  BY <1>2, <1>4, LiveFinite, SpawnerAssumption DEF IInv, TypeOK, CountExact, CountThread, Counted
<1>6. AllSpawned'
  BY DEF CountThread, AllSpawned
<1> QED
  BY <1>3, <1>5, <1>6 DEF IInv

(* A thread that starts was live already; a daemon never is.               *)
LEMMA StartStep ==
  ASSUME IInv,
         \/ \E t \in Threads : StartThread(t)
         \/ \E d \in Daemons : SpawnDaemon(d)
  PROVE  IInv'
<1>1. Live' = Live
  BY SpawnerAssumption DEF IInv, TypeOK, StartThread, SpawnDaemon, Live
<1>2. In({"failed"})' = In({"failed"})
  BY DEF IInv, TypeOK, StartThread, SpawnDaemon, In
<1>3. In({"unspawned", "counted"})' \subseteq In({"unspawned", "counted"})
  BY DEF IInv, TypeOK, StartThread, SpawnDaemon, In
<1>4. TypeOK'
  BY DEF IInv, TypeOK, StartThread, SpawnDaemon
<1>5. CountExact' /\ AllSpawned'
  BY <1>1, <1>2, <1>3 DEF IInv, CountExact, AllSpawned, StartThread, SpawnDaemon
<1> QED
  BY <1>4, <1>5 DEF IInv

(* A thread that completes was live: the count is positive and goes down.  *)
LEMMA CompleteStep ==
  ASSUME IInv, NEW t \in Threads \cup Daemons, Complete(t)
  PROVE  IInv'
<1>1. In({"failed"})' = In({"failed"})
  BY DEF IInv, TypeOK, Complete, In
<1>2. In({"unspawned", "counted"})' = In({"unspawned", "counted"})
  BY DEF IInv, TypeOK, Complete, In
<1>3. main' # "spawning" => main # "spawning"
  BY DEF Complete, NotifyAll
<1>4. TypeOK' /\ CountExact'
  <2>1. CASE t \in Threads
    <3>1. t \in Live /\ Live' = Live \ {t}
      BY <2>1, SpawnerAssumption DEF IInv, TypeOK, Complete, Live
    <3>2. Cardinality(Live') = Cardinality(Live) - 1 /\ Cardinality(Live') \in Nat
      BY <3>1, LiveFinite, FS_RemoveElement, FS_CardinalityType
    <3>3. state' = Uncounted(state)
      BY <2>1 DEF Complete, Waited
    <3>4. TypeOK'
      BY <3>2, <3>3, LiveFinite, SpawnerAssumption
      DEF IInv, TypeOK, CountExact, Complete, Uncounted, NotifyAll
    <3>5. CountExact'
      BY <1>1, <3>2, <3>3, LiveFinite, SpawnerAssumption DEF IInv, CountExact, Uncounted
    <3> QED
      BY <3>4, <3>5
  <2>2. CASE t \in Daemons
    <3>1. Live' = Live /\ state' = state /\ main' = main
      BY <2>2, SpawnerAssumption DEF IInv, TypeOK, Complete, Waited, Live
    <3>2. TypeOK'
      BY <3>1 DEF IInv, TypeOK, Complete
    <3> QED
      BY <1>1, <3>1, <3>2 DEF IInv, CountExact
  <2> QED
    BY <2>1, <2>2
<1> QED
  BY <1>2, <1>3, <1>4 DEF IInv, AllSpawned

(* A failure overwrites whatever the count was.                            *)
LEMMA FailStep ==
  ASSUME IInv, NEW t \in Threads \cup Daemons, Fail(t)
  PROVE  IInv'
<1>1. TypeOK'
  BY DEF IInv, TypeOK, Fail, NotifyAll
<1>2. t \in In({"failed"})' /\ state' = Failed
  BY DEF IInv, TypeOK, Fail, In
<1>3. In({"unspawned", "counted"})' = In({"unspawned", "counted"})
  BY DEF IInv, TypeOK, Fail, In
<1>4. main' # "spawning" => main # "spawning"
  BY DEF Fail, NotifyAll
<1> QED
  BY <1>1, <1>2, <1>3, <1>4 DEF IInv, CountExact, AllSpawned

(* The main thread's own steps leave count and threads alone.              *)
LEMMA MainSteps ==
  ASSUME IInv, WaitOnThreads \/ Check \/ UNCHANGED vars
  PROVE  IInv'
<1>1. state' = state /\ thread' = thread
  BY DEF WaitOnThreads, Check, vars
<1>2. TypeOK'
  BY <1>1 DEF IInv, TypeOK, WaitOnThreads, Check, Verdict, vars
<1>3. CountExact'
  BY <1>1 DEF IInv, CountExact, In, Live
<1>4. AllSpawned'
  BY <1>1 DEF IInv, AllSpawned, In, WaitOnThreads, Check, vars
<1> QED
  BY <1>2, <1>3, <1>4 DEF IInv

(* The inductive invariant is preserved by every step.                     *)
LEMMA Inductive == IInv /\ [Next]_vars => IInv'
  BY CountThreadStep, StartStep, CompleteStep, FailStep, MainSteps DEF Next

(* CountExact: the number under the mutex of thread_spawner.rs is exact,   *)
(* and None exactly when a thread has failed, whatever the interleaving.   *)
THEOREM CountIsExact == Spec => []CountExact
<1>1. IInv => CountExact
  BY DEF IInv
<1> QED
  BY <1>1, InitIInv, Inductive, PTL DEF Spec

(* TypeOK: in particular the count never underflows.                       *)
THEOREM TypeCorrect == Spec => []TypeOK
<1>1. IInv => TypeOK
  BY DEF IInv
<1> QED
  BY <1>1, InitIInv, Inductive, PTL DEF Spec

(* VerdictRight: wait_on_threads returns Ok only after every thread it     *)
(* waits for has completed and none failed, and an error only after a      *)
(* failure.                                                                *)
THEOREM VerdictIsRight == Spec => VerdictRight
<1> DEFINE Right == main' # main =>
             /\ main' = "ok" => /\ \A t \in Threads : thread[t] = "completed"
                                /\ In({"failed"}) = {}
             /\ main' = "error" => In({"failed"}) # {}
<1>1. IInv /\ [Next]_vars => [Right]_vars
  <2> SUFFICES ASSUME IInv, Next, main' # main, main' \in {"ok", "error"}
               PROVE  Right
    BY DEF vars
  <2>1. Check
    BY DEF Next, CountThread, StartThread, SpawnDaemon, Complete, Fail,
           WaitOnThreads, NotifyAll
  <2>2. CASE main' = "error"
    BY <2>1, <2>2 DEF Check, Verdict, IInv, CountExact
  <2>3. CASE main' = "ok"
    <3>1. state = 0 /\ state # Failed
      BY <2>1, <2>3, SpawnerAssumption DEF Check, Verdict
    <3>2. Live = {}
      BY <3>1, LiveFinite, FS_EmptySet DEF IInv, CountExact
    <3>3. In({"failed"}) = {} /\ In({"unspawned", "counted"}) = {}
      BY <2>1, <3>1 DEF IInv, CountExact, AllSpawned, Check
    <3> QED
      BY <2>3, <3>2, <3>3 DEF Live, In, IInv, TypeOK
  <2> QED
    BY <2>2, <2>3
<1> QED
  BY <1>1, InitIInv, Inductive, PTL DEF Spec, VerdictRight
=============================================================================
