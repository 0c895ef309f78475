--------------------------- MODULE TaskQueueProofs ---------------------------
(***************************************************************************)
(* Proofs about TaskQueue for every finite set of workers and entries.     *)
(***************************************************************************)
EXTENDS TaskQueue, FiniteSetTheorems, TLAPS

IInv == TypeOK /\ HandedOutOnce /\ NoLostWakeup

(* Workers at a point of their loop can be counted.                        *)
LEMMA AtFinite ==
  ASSUME NEW where
  PROVE  IsFiniteSet(At(where)) /\ Cardinality(At(where)) \in Nat
  BY TaskQueueAssumption, FS_Subset, FS_CardinalityType DEF At

(* The heap is finite.                                                     *)
LEMMA QueueFinite == TypeOK => IsFiniteSet(queue) /\ Cardinality(queue) \in Nat
  BY TaskQueueAssumption, FS_Subset, FS_CardinalityType DEF TypeOK

(* The inductive invariant holds initially.                                *)
LEMMA InitIInv == Init => IInv
  BY FS_EmptySet
  DEF Init, IInv, TypeOK, HandedOutOnce, NoLostWakeup, Taken, At

(* notify_one moves at most one worker, and moves one if any is waiting.   *)
LEMMA NotifyOneMoves ==
  ASSUME TypeOK, NEW next \in NotifyOne
  PROVE  \/ next = pc /\ At("waiting") = {}
         \/ \E w \in At("waiting") : next = [pc EXCEPT ![w] = "ready"]
  BY DEF NotifyOne

(* Types are preserved, and close empties the heap.                        *)
LEMMA TypeStep == TypeOK /\ [Next]_vars => TypeOK'
<1> SUFFICES ASSUME TypeOK, [Next]_vars PROVE TypeOK'
  OBVIOUS
<1>1. ASSUME NEW e \in Entries, EnqueuePush(e) PROVE TypeOK'
  <2>1. pc' \in [Workers -> {"idle", "ready", "waiting", "done"}]
    BY <1>1, NotifyOneMoves DEF EnqueuePush, TypeOK, At
  <2> QED
    BY <1>1, <2>1 DEF EnqueuePush, TypeOK
<1>2. ASSUME NEW e \in Entries, EnqueueRefused(e) PROVE TypeOK'
  BY <1>2 DEF EnqueueRefused, TypeOK
<1>3. ASSUME NEW w \in Workers, CallDequeue(w) PROVE TypeOK'
  BY <1>3 DEF CallDequeue, TypeOK
<1>4. ASSUME NEW w \in Workers, DequeuePop(w) PROVE TypeOK'
  BY <1>4 DEF DequeuePop, TypeOK
<1>5. ASSUME NEW w \in Workers, DequeueWait(w) PROVE TypeOK'
  BY <1>5 DEF DequeueWait, TypeOK
<1>6. ASSUME NEW w \in Workers, DequeueNone(w) PROVE TypeOK'
  BY <1>6 DEF DequeueNone, TypeOK
<1>7. ASSUME Close PROVE TypeOK'
  BY <1>7 DEF Close, TypeOK
<1>8. CASE UNCHANGED vars
  BY <1>8 DEF vars, TypeOK
<1> QED
  BY <1>1, <1>2, <1>3, <1>4, <1>5, <1>6, <1>7, <1>8 DEF Next, Enqueue, Dequeue

(* An entry moves from the heap to one worker or to the dropped ones.      *)
LEMMA OnceStep == TypeOK /\ HandedOutOnce /\ [Next]_vars => HandedOutOnce'
<1> SUFFICES ASSUME TypeOK, HandedOutOnce, [Next]_vars PROVE HandedOutOnce'
  OBVIOUS
<1>1. ASSUME NEW e \in Entries, EnqueuePush(e) PROVE HandedOutOnce'
  <2>1. taken' = taken /\ Taken' = Taken
    BY <1>1 DEF EnqueuePush, Taken
  <2> QED
    BY <1>1, <2>1 DEF EnqueuePush, HandedOutOnce
<1>6. ASSUME NEW e \in Entries, EnqueueRefused(e) PROVE HandedOutOnce'
  <2>1. taken' = taken /\ Taken' = Taken
    BY <1>6 DEF EnqueueRefused, Taken
  <2>2. queue' = {}
    BY <1>6 DEF EnqueueRefused, TypeOK
  <2> QED
    BY <1>6, <2>1, <2>2 DEF EnqueueRefused, HandedOutOnce
<1>2. ASSUME NEW w \in Workers, DequeuePop(w) PROVE HandedOutOnce'
  <2>1. PICK e \in queue : /\ queue' = queue \ {e}
                           /\ taken' = [taken EXCEPT ![w] = @ \cup {e}]
    BY <1>2 DEF DequeuePop
  <2>2. dropped' = dropped
    BY <1>2 DEF DequeuePop
  <2>3. e \notin Taken
    BY <2>1 DEF HandedOutOnce
  <2>4. \A v \in Workers : taken'[v] = IF v = w THEN taken[w] \cup {e} ELSE taken[v]
    BY <2>1 DEF TypeOK
  <2>5. \A u, v \in Workers : u # v => taken'[u] \cap taken'[v] = {}
    BY <2>3, <2>4 DEF HandedOutOnce, Taken
  <2>6. Taken' \subseteq Taken \cup {e}
    BY <2>4 DEF Taken
  <2>7. /\ Taken' \cap (queue' \cup dropped') = {}
        /\ queue' \cap dropped' = {}
    BY <2>1, <2>2, <2>6 DEF HandedOutOnce
  <2> QED
    BY <2>5, <2>7 DEF HandedOutOnce
<1>3. ASSUME NEW w \in Workers, CallDequeue(w) \/ DequeueWait(w) \/ DequeueNone(w)
      PROVE  HandedOutOnce'
  BY <1>3 DEF CallDequeue, DequeueWait, DequeueNone, HandedOutOnce, Taken
<1>4. ASSUME Close PROVE HandedOutOnce'
  BY <1>4 DEF Close, HandedOutOnce, Taken
<1>5. CASE UNCHANGED vars
  BY <1>5 DEF vars, HandedOutOnce, Taken
<1> QED
  BY <1>1, <1>2, <1>3, <1>4, <1>5, <1>6 DEF Next, Enqueue, Dequeue

(* A push wakes a worker if one sleeps; a worker sleeps on an empty heap.  *)
LEMMA WakeupStep == TypeOK /\ HandedOutOnce /\ NoLostWakeup /\ [Next]_vars => NoLostWakeup'
<1> SUFFICES ASSUME TypeOK, HandedOutOnce, NoLostWakeup, [Next]_vars
             PROVE  NoLostWakeup'
  OBVIOUS
<1> DEFINE Ready == At("ready")
           Waiting == At("waiting")
<1>0. /\ IsFiniteSet(Ready) /\ Cardinality(Ready) \in Nat
      /\ IsFiniteSet(queue) /\ Cardinality(queue) \in Nat
      /\ pc \in [Workers -> {"idle", "ready", "waiting", "done"}]
  BY AtFinite, QueueFinite DEF TypeOK
<1>1. ASSUME NEW e \in Entries, EnqueuePush(e) PROVE NoLostWakeup'
  <2>1. queue' = queue \cup {e} /\ e \notin queue
    BY <1>1 DEF EnqueuePush
  <2>2. Cardinality(queue') = Cardinality(queue) + 1
    BY <1>0, <2>1, FS_AddElement
  <2>3. CASE pc' = pc /\ Waiting = {}
    BY <2>3 DEF NoLostWakeup, At
  <2>4. ASSUME NEW w \in Waiting, pc' = [pc EXCEPT ![w] = "ready"]
        PROVE  NoLostWakeup'
    <3>1. w \notin Ready /\ Ready' = Ready \cup {w}
      BY <1>0, <2>4 DEF At
    <3>2. Cardinality(Ready') = Cardinality(Ready) + 1
      BY <1>0, <3>1, FS_AddElement
    <3>3. Cardinality(queue) <= Cardinality(Ready)
      BY <2>4 DEF NoLostWakeup
    <3> QED
      BY <1>0, <2>2, <3>2, <3>3 DEF NoLostWakeup
  <2> QED
    BY <1>1, <2>3, <2>4, NotifyOneMoves DEF EnqueuePush
<1>2. ASSUME NEW w \in Workers, CallDequeue(w) PROVE NoLostWakeup'
  <2>1. w \notin Ready /\ Ready' = Ready \cup {w} /\ Waiting' = Waiting
    BY <1>0, <1>2 DEF CallDequeue, At
  <2>2. Cardinality(Ready') = Cardinality(Ready) + 1
    BY <1>0, <2>1, FS_AddElement
  <2> QED
    BY <1>0, <1>2, <2>1, <2>2 DEF CallDequeue, NoLostWakeup
<1>3. ASSUME NEW w \in Workers, DequeuePop(w) PROVE NoLostWakeup'
  <2>1. w \in Ready /\ Ready' = Ready \ {w} /\ Waiting' = Waiting
    BY <1>0, <1>3 DEF DequeuePop, At
  <2>2. Cardinality(Ready') = Cardinality(Ready) - 1
    BY <1>0, <2>1, FS_RemoveElement
  <2>3. PICK e \in queue : queue' = queue \ {e}
    BY <1>3 DEF DequeuePop
  <2>4. Cardinality(queue') = Cardinality(queue) - 1
    BY <1>0, <2>3, FS_RemoveElement
  <2> QED
    BY <1>0, <2>1, <2>2, <2>4 DEF NoLostWakeup
<1>4. ASSUME queue' = {}, Ready' \subseteq Ready \/ Waiting' = {}
      PROVE  NoLostWakeup'
  <2>1. Cardinality(queue') = 0
    BY <1>4, FS_EmptySet
  <2>2. CASE Ready' \subseteq Ready
    <3>1. Cardinality(Ready') \in Nat
      BY <1>0, <2>2, FS_Subset, FS_CardinalityType
    <3> QED
      BY <2>1, <3>1 DEF NoLostWakeup
  <2> QED
    BY <1>4, <2>2 DEF NoLostWakeup
<1>5. ASSUME NEW w \in Workers, DequeueWait(w) \/ DequeueNone(w)
      PROVE  NoLostWakeup'
  <2>1. queue' = {}
    BY <1>5 DEF DequeueWait, DequeueNone, TypeOK
  <2>2. Ready' \subseteq Ready
    BY <1>0, <1>5 DEF DequeueWait, DequeueNone, At
  <2> QED
    BY <1>4, <2>1, <2>2
<1>6. ASSUME Close PROVE NoLostWakeup'
  <2>1. queue' = {} /\ Waiting' = {}
    BY <1>0, <1>6 DEF Close, At
  <2> QED
    BY <1>4, <2>1
<1>7. ASSUME UNCHANGED <<queue, pc>> PROVE NoLostWakeup'
  BY <1>7 DEF NoLostWakeup, At
<1> QED
  BY <1>1, <1>2, <1>3, <1>5, <1>6, <1>7
  DEF Next, Enqueue, Dequeue, EnqueueRefused, vars

(* The inductive invariant is preserved by every step.                     *)
LEMMA IInvStep == IInv /\ [Next]_vars => IInv'
  BY TypeStep, OnceStep, WakeupStep DEF IInv

(* Every reachable state has the declared types, and a closed queue holds  *)
(* nothing.                                                                *)
THEOREM TypeCorrect == Spec => []TypeOK
<1>1. IInv => TypeOK
  BY DEF IInv
<1> QED
  BY InitIInv, IInvStep, <1>1, PTL DEF Spec

(* Workers never sleep beside queued work: the notify_one of               *)
(* task_queue.rs:74 suffices for any number of workers and entries.        *)
THEOREM WakeupsSuffice == Spec => []NoLostWakeup
<1>1. IInv => NoLostWakeup
  BY DEF IInv
<1> QED
  BY InitIInv, IInvStep, <1>1, PTL DEF Spec

(* A task stage is run, and a read performed, by one thread only.          *)
THEOREM OneWorkerPerEntry == Spec => []HandedOutOnce
<1>1. IInv => HandedOutOnce
  BY DEF IInv
<1> QED
  BY InitIInv, IInvStep, <1>1, PTL DEF Spec

(* BinaryHeap::pop with sort_key never leaves a better entry behind        *)
(* (task_queue.rs:25-28, 89).                                              *)
THEOREM PopsBest == Spec => BestFirst
<1>1. TypeOK /\ [Next]_vars =>
        [\A w \in Workers : \A e \in taken'[w] \ taken[w] : \A f \in queue' :
           /\ e.priority >= f.priority
           /\ e.priority = f.priority => e.task <= f.task]_vars
  <2> SUFFICES ASSUME TypeOK, Next, NEW w \in Workers,
                      NEW e \in taken'[w] \ taken[w], NEW f \in queue'
               PROVE  /\ e.priority >= f.priority
                      /\ e.priority = f.priority => e.task <= f.task
    BY DEF vars
  <2>1. PICK v \in Workers : DequeuePop(v)
    BY DEF Next, Enqueue, EnqueuePush, EnqueueRefused, Dequeue, CallDequeue,
           DequeueWait, DequeueNone, Close
  <2>2. PICK g \in queue : /\ \A h \in queue : ~Below(g, h)
                           /\ queue' = queue \ {g}
                           /\ taken' = [taken EXCEPT ![v] = @ \cup {g}]
    BY <2>1 DEF DequeuePop
  <2>3. e = g /\ f \in queue /\ ~Below(e, f)
    BY <2>2 DEF TypeOK
  <2>4. /\ e.priority \in Int /\ f.priority \in Int
        /\ e.task \in Nat /\ f.task \in Nat
    BY <2>3, TaskQueueAssumption DEF TypeOK
  <2> QED
    BY <2>3, <2>4 DEF Below
<1> QED
  BY TypeCorrect, <1>1, PTL DEF Spec, BestFirst
=============================================================================
