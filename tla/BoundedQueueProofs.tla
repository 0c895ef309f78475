------------------------- MODULE BoundedQueueProofs -------------------------
(***************************************************************************)
(* Proofs about BoundedQueue for every set of threads and every bound.     *)
(***************************************************************************)
EXTENDS BoundedQueue, FiniteSetTheorems, TLAPS

(* A producer that has called enqueue and not returned holds a value.      *)
Holding == \A p \in Producers : pc[p] # "idle" => arg[p] \in Values

(* The inductive invariant: the types, what a producer in a call holds,    *)
(* that a closed queue holds nothing, and the wakeup count.                *)
ClosedEmpty == ~open => contents = <<>>
IInv == TypeOK /\ Holding /\ ClosedEmpty /\ NoLostWakeup

(* Consumers on their way to the mutex can be counted.                     *)
LEMMA ReadyFinite ==
  IsFiniteSet(At(Consumers, "ready")) /\ Cardinality(At(Consumers, "ready")) \in Nat
  BY QueueAssumption, FS_Subset, FS_CardinalityType DEF At

(* The inductive invariant holds initially.                                *)
LEMMA InitIInv == Init => IInv
  BY QueueAssumption, SMT
  DEF Init, IInv, TypeOK, Holding, ClosedEmpty, NoLostWakeup, At, DequeueWaiters, Values

(* The type and value part is preserved by every step.                     *)
LEMMA TypeStep == TypeOK /\ Holding /\ [Next]_vars => TypeOK' /\ Holding'
<1> SUFFICES ASSUME TypeOK, Holding, [Next]_vars
             PROVE  TypeOK' /\ Holding'
  OBVIOUS
<1> USE QueueAssumption DEF TypeOK, Holding, Values
<1>1. ASSUME NEW p \in Producers, CallEnqueue(p) PROVE TypeOK' /\ Holding'
  BY <1>1 DEF CallEnqueue
<1>2. ASSUME NEW p \in Producers, EnqueueWait(p) PROVE TypeOK' /\ Holding'
  BY <1>2 DEF EnqueueWait
<1>3. ASSUME NEW p \in Producers, EnqueuePush(p) PROVE TypeOK' /\ Holding'
  <2>1. arg[p] \in 1 .. MaxCalls
    BY <1>3 DEF EnqueuePush
  <2>2. contents' \in Seq(1 .. MaxCalls) /\ accepted' \in Seq(1 .. MaxCalls)
    BY <1>3, <2>1 DEF EnqueuePush
  <2>b. Len(contents') <= Bound
    BY <1>3, <2>1 DEF EnqueuePush, Full
  <2>3. CASE pc' = [pc EXCEPT ![p] = "idle"]
    BY <1>3, <2>2, <2>b, <2>3 DEF EnqueuePush
  <2>4. CASE \E c \in DequeueWaiters :
               pc' = [pc EXCEPT ![p] = "idle", ![c] = "ready"]
    BY <1>3, <2>2, <2>b, <2>4 DEF EnqueuePush, DequeueWaiters, At
  <2> QED
    BY <1>3, <2>3, <2>4 DEF EnqueuePush, NotifyOne
<1>4. ASSUME NEW p \in Producers, EnqueueRefused(p) PROVE TypeOK' /\ Holding'
  BY <1>4 DEF EnqueueRefused
<1>5. ASSUME NEW c \in Consumers, CallDequeue(c) PROVE TypeOK' /\ Holding'
  BY <1>5 DEF CallDequeue
<1>6. ASSUME NEW c \in Consumers, DequeuePop(c) PROVE TypeOK' /\ Holding'
  BY <1>6 DEF DequeuePop
<1>7. ASSUME NEW c \in Consumers, DequeueWait(c) PROVE TypeOK' /\ Holding'
  BY <1>7 DEF DequeueWait
<1>8. ASSUME NEW c \in Consumers, DequeueNone(c) PROVE TypeOK' /\ Holding'
  BY <1>8 DEF DequeueNone
<1>9. ASSUME Close PROVE TypeOK' /\ Holding'
  <2>1. contents' \in Seq(1 .. MaxCalls) /\ dropped' \subseteq 1 .. MaxCalls
    <3>1. \A i \in DOMAIN contents : contents[i] \in 1 .. MaxCalls
      OBVIOUS
    <3>2. dropped' = dropped \cup {contents[i] : i \in DOMAIN contents}
      BY <1>9 DEF Close
    <3>3. {contents[i] : i \in DOMAIN contents} \subseteq 1 .. MaxCalls
      BY <3>1
    <3>4. dropped' \subseteq 1 .. MaxCalls
      BY <3>2, <3>3
    <3>5. contents' \in Seq(1 .. MaxCalls)
      BY <1>9 DEF Close
    <3> QED
      BY <3>4, <3>5
  <2>2. pc' \in [Producers \cup Consumers -> {"idle", "ready", "waiting", "done"}]
    BY <1>9 DEF Close, NotifyAll
  <2>3. Holding'
    BY <1>9 DEF Close, NotifyAll
  <2>4. Len(contents') <= Bound
    BY <1>9 DEF Close
  <2> QED
    BY <1>9, <2>1, <2>2, <2>3, <2>4 DEF Close
<1>10. CASE UNCHANGED vars
  BY <1>10 DEF vars
<1> QED
  BY <1>1, <1>2, <1>3, <1>4, <1>5, <1>6, <1>7, <1>8, <1>9, <1>10
  DEF Next, Enqueue, Dequeue

(* Only a consumer's own step, a push that notifies it, or close moves it. *)
LEMMA WakeupStep == IInv /\ [Next]_vars => ClosedEmpty' /\ NoLostWakeup'
<1> SUFFICES ASSUME IInv, [Next]_vars
             PROVE  ClosedEmpty' /\ NoLostWakeup'
  OBVIOUS
<1> DEFINE Ready == At(Consumers, "ready")
<1>0. /\ contents \in Seq(Values)
      /\ pc \in [Producers \cup Consumers -> {"idle", "ready", "waiting", "done"}]
  BY DEF IInv, TypeOK
<1>a. IsFiniteSet(Ready) /\ Cardinality(Ready) \in Nat
  BY ReadyFinite
<1>b. ASSUME contents' = contents, open' = open,
             Ready' = Ready, DequeueWaiters' = DequeueWaiters
      PROVE  ClosedEmpty' /\ NoLostWakeup'
  BY <1>b DEF IInv, ClosedEmpty, NoLostWakeup
<1>1. ASSUME NEW p \in Producers,
             CallEnqueue(p) \/ EnqueueWait(p) \/ EnqueueRefused(p)
      PROVE  ClosedEmpty' /\ NoLostWakeup'
  <2>1. \A c \in Consumers : pc'[c] = pc[c]
    BY <1>0, <1>1, QueueAssumption DEF CallEnqueue, EnqueueWait, EnqueueRefused
  <2> QED
    BY <1>1, <1>b, <2>1
    DEF CallEnqueue, EnqueueWait, EnqueueRefused, At, DequeueWaiters
<1>2. ASSUME NEW p \in Producers, EnqueuePush(p)
      PROVE  ClosedEmpty' /\ NoLostWakeup'
  <2>1. open /\ open' = open /\ Len(contents') = Len(contents) + 1
    BY <1>0, <1>2 DEF EnqueuePush
  <2>2. CASE DequeueWaiters = {} /\ pc' = [pc EXCEPT ![p] = "idle"]
    <3>1. DequeueWaiters' = {}
      BY <1>0, <2>2, QueueAssumption DEF DequeueWaiters, At
    <3> QED
      BY <2>1, <3>1 DEF ClosedEmpty, NoLostWakeup
  <2>3. ASSUME NEW c \in DequeueWaiters,
               pc' = [pc EXCEPT ![p] = "idle", ![c] = "ready"]
        PROVE  ClosedEmpty' /\ NoLostWakeup'
    <3>1. c \in Consumers /\ c \notin Ready
      BY <2>3 DEF DequeueWaiters, At
    <3>2. Ready' = Ready \cup {c}
      BY <1>0, <2>3, <3>1, QueueAssumption DEF At
    <3>3. Cardinality(Ready') = Cardinality(Ready) + 1
      BY <1>a, <3>1, <3>2, FS_AddElement
    <3>4. Len(contents) <= Cardinality(Ready)
      BY <2>3 DEF IInv, NoLostWakeup
    <3>5. Len(contents) \in Nat
      BY <1>0
    <3>6. Len(contents') <= Cardinality(Ready')
      BY <1>a, <2>1, <3>3, <3>4, <3>5
    <3> QED
      BY <2>1, <3>6 DEF ClosedEmpty, NoLostWakeup
  <2> QED
    BY <1>2, <2>2, <2>3 DEF EnqueuePush, NotifyOne
<1>3. ASSUME NEW c \in Consumers, CallDequeue(c)
      PROVE  ClosedEmpty' /\ NoLostWakeup'
  <2>1. DequeueWaiters' = DequeueWaiters /\ Ready' = Ready \cup {c} /\ c \notin Ready
    BY <1>0, <1>3 DEF CallDequeue, DequeueWaiters, At
  <2>2. Cardinality(Ready') = Cardinality(Ready) + 1
    BY <1>a, <2>1, FS_AddElement
  <2>3. Len(contents) \in Nat
    BY <1>0
  <2> QED
    BY <1>3, <1>a, <2>1, <2>2, <2>3
    DEF CallDequeue, IInv, ClosedEmpty, NoLostWakeup
<1>4. ASSUME NEW c \in Consumers, DequeuePop(c)
      PROVE  ClosedEmpty' /\ NoLostWakeup'
  <2>1. DequeueWaiters' = DequeueWaiters /\ Ready' = Ready \ {c} /\ c \in Ready
    BY <1>0, <1>4 DEF DequeuePop, DequeueWaiters, At
  <2>2. Cardinality(Ready') = Cardinality(Ready) - 1
    BY <1>a, <2>1, FS_RemoveElement
  <2>3. Len(contents) \in Nat /\ Len(contents') = Len(contents) - 1
    BY <1>0, <1>4 DEF DequeuePop
  <2> QED
    BY <1>4, <1>a, <2>1, <2>2, <2>3
    DEF DequeuePop, IInv, ClosedEmpty, NoLostWakeup
<1>5. ASSUME NEW c \in Consumers, DequeueWait(c) \/ DequeueNone(c)
      PROVE  ClosedEmpty' /\ NoLostWakeup'
  <2>1. contents' = <<>>
    BY <1>5 DEF DequeueWait, DequeueNone, IInv, ClosedEmpty
  <2>2. Ready' \subseteq Ready
    BY <1>0, <1>5 DEF DequeueWait, DequeueNone, At
  <2>3. IsFiniteSet(Ready') /\ Cardinality(Ready') \in Nat
    BY <1>a, <2>2, FS_Subset, FS_CardinalityType
  <2> QED
    BY <2>1, <2>3 DEF ClosedEmpty, NoLostWakeup
<1>6. ASSUME Close
      PROVE  ClosedEmpty' /\ NoLostWakeup'
  <2>1. DequeueWaiters' = {}
    BY <1>0, <1>6 DEF Close, NotifyAll, DequeueWaiters, At
  <2> QED
    BY <1>6, <2>1 DEF Close, ClosedEmpty, NoLostWakeup
<1>7. CASE UNCHANGED vars
  BY <1>7, <1>b DEF vars, At, DequeueWaiters
<1> QED
  BY <1>1, <1>2, <1>3, <1>4, <1>5, <1>6, <1>7 DEF Next, Enqueue, Dequeue

(* Every reachable state has the declared types, whatever the threads do.  *)
THEOREM TypeCorrect == Spec => []TypeOK
<1>1. IInv /\ [Next]_vars => IInv'
  BY TypeStep, WakeupStep DEF IInv
<1>2. IInv => TypeOK
  BY DEF IInv
<1> QED
  BY InitIInv, <1>1, <1>2, PTL DEF Spec

(* No consumer sleeps while more values are queued than threads are awake  *)
(* to take them: the notify_one of bounded_queue.rs:45 is enough, for any  *)
(* number of producers and consumers and any bound.                        *)
THEOREM WakeupsSuffice == Spec => []NoLostWakeup
<1>1. IInv /\ [Next]_vars => IInv'
  BY TypeStep, WakeupStep DEF IInv
<1>2. IInv => NoLostWakeup
  BY DEF IInv
<1> QED
  BY InitIInv, <1>1, <1>2, PTL DEF Spec

(* What is queued is what was put in and not yet taken, in order.          *)
Logged ==
  open => /\ Len(accepted) = Len(taken) + Len(contents)
          /\ \A i \in DOMAIN contents : contents[i] = accepted[Len(taken) + i]

(* A push appends to the queue and to the log alike.                       *)
LEMMA PushLogged ==
  ASSUME TypeOK, Holding, Logged, NEW p \in Producers, EnqueuePush(p)
  PROVE  Logged' /\ Contract!Put
<1>1. arg[p] \in Values /\ contents \in Seq(Values) /\ accepted \in Seq(Values)
      /\ taken \in Seq(Values) /\ open /\ Len(contents) < Bound /\ Bound \in Nat
  BY QueueAssumption DEF EnqueuePush, Full, Holding, TypeOK
<1>2. /\ contents' = Append(contents, arg[p]) /\ accepted' = Append(accepted, arg[p])
      /\ UNCHANGED <<open, taken>>
  BY DEF EnqueuePush
<1>3. Len(accepted) = Len(taken) + Len(contents)
  BY <1>1 DEF Logged
<1>4. Logged'
  <2> SUFFICES /\ Len(accepted') = Len(taken) + Len(contents')
               /\ \A i \in DOMAIN contents' : contents'[i] = accepted'[Len(taken) + i]
    BY <1>2 DEF Logged
  <2>1. Len(accepted') = Len(accepted) + 1 /\ Len(contents') = Len(contents) + 1
    BY <1>1, <1>2
  <2>2. ASSUME NEW i \in DOMAIN contents' PROVE contents'[i] = accepted'[Len(taken) + i]
    <3>1. CASE i = Len(contents) + 1
      <4>1. contents'[i] = arg[p]
        BY <1>1, <1>2, <3>1
      <4>2. Len(taken) + i = Len(accepted) + 1
        BY <1>1, <1>3, <3>1
      <4> QED BY <1>1, <1>2, <4>1, <4>2
    <3>2. CASE i \in DOMAIN contents
      <4>1. contents'[i] = contents[i] /\ contents[i] = accepted[Len(taken) + i]
        BY <1>1, <1>2, <3>2 DEF Logged
      <4>2. Len(taken) + i \in 1 .. Len(accepted)
        BY <1>1, <1>3, <3>2
      <4> QED BY <1>1, <1>2, <4>1, <4>2
    <3>3. i \in 1 .. Len(contents) + 1 /\ Len(contents) \in Nat /\ DOMAIN contents = 1 .. Len(contents)
      BY <1>1, <1>2
    <3> QED BY <3>1, <3>2, <3>3
  <2> QED BY <1>1, <1>3, <2>1, <2>2
<1>5. Contract!Pending < Bound
  BY <1>1, <1>3 DEF Contract!Pending
<1> QED BY <1>1, <1>2, <1>4, <1>5 DEF Contract!Put

(* A pop takes the next entry of the log.                                  *)
LEMMA PopLogged ==
  ASSUME TypeOK, Logged, NEW c \in Consumers, DequeuePop(c)
  PROVE  Logged' /\ Contract!Take
<1>1. contents \in Seq(Values) /\ accepted \in Seq(Values) /\ taken \in Seq(Values)
      /\ open /\ contents # <<>>
  BY DEF DequeuePop, TypeOK
<1>2. /\ contents' = Tail(contents) /\ taken' = Append(taken, contents[1])
      /\ UNCHANGED <<open, accepted>>
  BY <1>1 DEF DequeuePop
<1>3. /\ Len(contents) \in Nat /\ Len(contents) >= 1 /\ DOMAIN contents = 1 .. Len(contents)
      /\ Len(taken) \in Nat /\ Len(accepted) = Len(taken) + Len(contents)
  BY <1>1 DEF Logged
<1>4. contents[1] = accepted[Len(taken) + 1]
  BY <1>1, <1>3 DEF Logged
<1>5. /\ Len(taken') = Len(taken) + 1 /\ DOMAIN contents' = 1 .. Len(contents) - 1
      /\ Len(contents') = Len(contents) - 1
      /\ \A i \in DOMAIN contents' : contents'[i] = contents[i + 1]
  BY <1>1, <1>2, <1>3
<1>6. ASSUME NEW i \in DOMAIN contents' PROVE contents'[i] = accepted[Len(taken') + i]
  <2>1. i + 1 \in DOMAIN contents /\ Len(taken') + i = Len(taken) + (i + 1)
    BY <1>3, <1>5
  <2> QED BY <1>1, <1>5, <2>1 DEF Logged
<1>7. Logged'
  <2>1. Len(accepted') = Len(taken') + Len(contents')
    <3>1. accepted' = accepted
      BY <1>2
    <3> QED BY <1>3, <1>5, <3>1
  <2>2. \A i \in DOMAIN contents' : contents'[i] = accepted'[Len(taken') + i]
    BY <1>2, <1>6
  <2> QED BY <2>1, <2>2 DEF Logged
<1>8. Contract!Pending > 0
  BY <1>3 DEF Contract!Pending
<1> QED BY <1>1, <1>2, <1>4, <1>7, <1>8 DEF Contract!Take

(* To its callers the queue is two logs: whatever the threads, the mutex   *)
(* and the condition variables do, values leave in the order they entered, *)
(* each once, never more than Bound are pending, and after close nothing   *)
(* enters or leaves (bounded_queue.rs:31-75).                              *)
ContractSafety == Contract!Init /\ [][Contract!Next]_Contract!vars
THEOREM ImplementsContract == Spec => ContractSafety
<1>1. Init => Contract!Init /\ Logged
  BY DEF Init, Contract!Init, Logged
<1>2. IInv /\ Logged /\ [Next]_vars => Logged' /\ [Contract!Next]_Contract!vars
  <2> SUFFICES ASSUME IInv, Logged, [Next]_vars
               PROVE  Logged' /\ (Contract!Next \/ UNCHANGED Contract!vars)
    OBVIOUS
  <2>1. ASSUME NEW p \in Producers, EnqueuePush(p)
        PROVE  Logged' /\ Contract!Next
    BY <2>1, PushLogged DEF IInv, Contract!Next
  <2>2. ASSUME NEW c \in Consumers, DequeuePop(c)
        PROVE  Logged' /\ Contract!Next
    BY <2>2, PopLogged DEF IInv, Contract!Next
  <2>3. ASSUME Close
        PROVE  Logged' /\ Contract!Next
    BY <2>3 DEF Close, Logged, Contract!Next, Contract!Close
  <2>4. ASSUME UNCHANGED <<open, contents, accepted, taken>>
        PROVE  Logged' /\ UNCHANGED Contract!vars
    BY <2>4 DEF Logged, Contract!vars
  <2>5. \/ \E p \in Producers : EnqueuePush(p)
        \/ \E c \in Consumers : DequeuePop(c)
        \/ Close
        \/ UNCHANGED <<open, contents, accepted, taken>>
    BY DEF Next, Enqueue, Dequeue, vars, CallEnqueue, EnqueueWait, EnqueueRefused,
           CallDequeue, DequeueWait, DequeueNone
  <2> QED BY <2>1, <2>2, <2>3, <2>4, <2>5
<1>3. IInv /\ [Next]_vars => IInv'
  BY TypeStep, WakeupStep DEF IInv
<1> QED
  BY InitIInv, <1>1, <1>2, <1>3, PTL DEF Spec, ContractSafety
=============================================================================
