---------------------------- MODULE BoundedQueue ----------------------------
(***************************************************************************)
(* mac-n-cheese/runner/src/bounded_queue.rs: the queue the reactor uses    *)
(* for outgoing network data (bounded) and outgoing challenges (unbounded).*)
(*                                                                         *)
(* A step is what a thread does between acquiring the mutex and releasing  *)
(* it, by returning or by waiting on a condition variable.  A thread whose *)
(* pc is "ready" contends for the mutex; a notified thread is "ready"      *)
(* again.  notify_one wakes an arbitrary waiter; there are no spurious     *)
(* wakeups (parking_lot documents that it has none).                       *)
(***************************************************************************)
EXTENDS Naturals, Sequences, FiniteSets

CONSTANTS Producers,    \* threads that call enqueue (runner threads)
          Consumers,    \* threads that loop on dequeue (network threads)
          Bound,        \* Queue::bounded(Bound); unbounded if >= MaxCalls
          MaxCalls      \* model bound: calls of enqueue in one behaviour

ASSUME QueueAssumption ==
  /\ IsFiniteSet(Consumers)
  /\ Producers \cap Consumers = {}
  /\ Bound \in Nat
  /\ MaxCalls \in Nat

VARIABLES open,       \* contents is Some(..)
          contents,   \* the VecDeque
          pc,         \* where each thread is
          arg,        \* the value a producer is enqueueing
          calls,      \* enqueue calls made so far: names the next value
          accepted,   \* history: values pushed
          taken,      \* history: values popped
          dropped     \* history: values refused or discarded by close

vars == <<open, contents, pc, arg, calls, accepted, taken, dropped>>

Values == 1 .. MaxCalls

At(T, where) == {t \in T : pc[t] = where}

EnqueueWaiters == At(Producers, "waiting")
DequeueWaiters == At(Consumers, "waiting")

(* Mutant: the bound is tested with > instead of >=. *)
Full_OffByOne == Len(contents) > Bound
Full == Len(contents) >= Bound

(* Type invariant: in particular the bound is kept (bounded_queue.rs:37).  *)
TypeOK == /\ open \in BOOLEAN
          /\ contents \in Seq(Values) /\ Len(contents) <= Bound
          /\ pc \in [Producers \cup Consumers ->
                        {"idle", "ready", "waiting", "done"}]
          /\ arg \in [Producers -> 0 .. MaxCalls]
          /\ calls \in 0 .. MaxCalls
          /\ accepted \in Seq(Values)
          /\ taken \in Seq(Values)
          /\ dropped \subseteq Values

Init == /\ open = TRUE
        /\ contents = <<>>
        /\ pc = [t \in Producers \cup Consumers |-> "idle"]
        /\ arg = [p \in Producers |-> 0]
        /\ calls = 0
        /\ accepted = <<>>
        /\ taken = <<>>
        /\ dropped = {}

(* notify_one on dequeue_waiters: what pc may become, given what the       *)
(* caller has made of it.  Mutant: the notification is forgotten.          *)
NotifyOne_Forgotten(next) == {next}
NotifyOne(next) ==
  IF DequeueWaiters = {} THEN {next}
  ELSE {[next EXCEPT ![c] = "ready"] : c \in DequeueWaiters}

(* A runner thread calls enqueue(data). *)
CallEnqueue(p) ==
  /\ pc[p] = "idle"
  /\ calls < MaxCalls
  /\ calls' = calls + 1
  /\ arg' = [arg EXCEPT ![p] = calls + 1]
  /\ pc' = [pc EXCEPT ![p] = "ready"]
  /\ UNCHANGED <<open, contents, accepted, taken, dropped>>

(* wait_while(len >= bound): releases the mutex until notified. *)
EnqueueWait(p) ==
  /\ pc[p] = "ready"
  /\ open /\ Full
  /\ pc' = [pc EXCEPT ![p] = "waiting"]
  /\ UNCHANGED <<open, contents, arg, calls, accepted, taken, dropped>>

(* push_back, then dequeue_waiters.notify_one(). *)
EnqueuePush(p) ==
  /\ pc[p] = "ready"
  /\ open /\ ~Full
  /\ contents' = Append(contents, arg[p])
  /\ accepted' = Append(accepted, arg[p])
  /\ pc' \in NotifyOne([pc EXCEPT ![p] = "idle"])
  /\ UNCHANGED <<open, arg, calls, taken, dropped>>

(* The queue is closed: a warning is printed and the data is dropped. *)
EnqueueRefused(p) ==
  /\ pc[p] = "ready"
  /\ ~open
  /\ dropped' = dropped \cup {arg[p]}
  /\ pc' = [pc EXCEPT ![p] = "idle"]
  /\ UNCHANGED <<open, contents, arg, calls, accepted, taken>>

(* A network thread has dealt with its last value and calls dequeue(). *)
CallDequeue(c) ==
  /\ pc[c] = "idle"
  /\ pc' = [pc EXCEPT ![c] = "ready"]
  /\ UNCHANGED <<open, contents, arg, calls, accepted, taken, dropped>>

(* pop_front; no one waiting in enqueue is notified.                       *)
(* Mutant: pop_back.                                                       *)
DequeuePop_Back(c) ==
  /\ pc[c] = "ready"
  /\ open /\ contents # <<>>
  /\ taken' = Append(taken, contents[Len(contents)])
  /\ contents' = SubSeq(contents, 1, Len(contents) - 1)
  /\ pc' = [pc EXCEPT ![c] = "idle"]
  /\ UNCHANGED <<open, arg, calls, accepted, dropped>>
DequeuePop(c) ==
  /\ pc[c] = "ready"
  /\ open /\ contents # <<>>
  /\ taken' = Append(taken, Head(contents))
  /\ contents' = Tail(contents)
  /\ pc' = [pc EXCEPT ![c] = "idle"]
  /\ UNCHANGED <<open, arg, calls, accepted, dropped>>

DequeueWait(c) ==
  /\ pc[c] = "ready"
  /\ open /\ contents = <<>>
  /\ pc' = [pc EXCEPT ![c] = "waiting"]
  /\ UNCHANGED <<open, contents, arg, calls, accepted, taken, dropped>>

(* dequeue() returned None, so the thread's loop ends. *)
DequeueNone(c) ==
  /\ pc[c] = "ready"
  /\ ~open
  /\ pc' = [pc EXCEPT ![c] = "done"]
  /\ UNCHANGED <<open, contents, arg, calls, accepted, taken, dropped>>

(* notify_all on both condition variables.  Mutant: on dequeue_waiters     *)
(* only.                                                                   *)
NotifyAll_DequeuersOnly ==
  [t \in Producers \cup Consumers |->
     IF t \in DequeueWaiters THEN "ready" ELSE pc[t]]
NotifyAll ==
  [t \in Producers \cup Consumers |->
     IF pc[t] = "waiting" THEN "ready" ELSE pc[t]]

(* *guard = None drops the VecDeque with what it holds. *)
Close ==
  /\ open
  /\ open' = FALSE
  /\ contents' = <<>>
  /\ dropped' = dropped \cup {contents[i] : i \in DOMAIN contents}
  /\ pc' = NotifyAll
  /\ UNCHANGED <<arg, calls, accepted, taken>>

Enqueue(p) == CallEnqueue(p) \/ EnqueueWait(p) \/ EnqueuePush(p)
                \/ EnqueueRefused(p)
Dequeue(c) == CallDequeue(c) \/ DequeuePop(c) \/ DequeueWait(c)
                \/ DequeueNone(c)

Next == \/ \E p \in Producers : Enqueue(p)
        \/ \E c \in Consumers : Dequeue(c)
        \/ Close

(* Every thread is scheduled.  A producer finishes the call it has started *)
(* but need not start another, and nobody need ever close the queue.       *)
Fairness ==
  /\ \A p \in Producers :
        WF_vars(EnqueueWait(p) \/ EnqueuePush(p) \/ EnqueueRefused(p))
  /\ \A c \in Consumers : WF_vars(Dequeue(c))

Spec == Init /\ [][Next]_vars /\ Fairness

-----------------------------------------------------------------------------
(* The mutex and the condition variables implement the contract: FIFO,     *)
(* exactly once, bounded, and a pending value is eventually delivered      *)
(* unless the queue is closed (bounded_queue.rs:31-75).                    *)
Contract == INSTANCE QueueContract
ContractSpec == Contract!Spec

(* A consumer sleeps only while the threads already on their way to the    *)
(* mutex are enough for all that is queued, so notify_one in enqueue never *)
(* loses a wakeup (bounded_queue.rs:43-45 against the wait at line 63).    *)
NoLostWakeup ==
  DequeueWaiters # {} => Len(contents) <= Cardinality(At(Consumers, "ready"))

(* After close() every network thread leaves its loop and every blocked    *)
(* runner thread gets its enqueue() back (bounded_queue.rs:70-75).         *)
CloseReleasesAll ==
  ~open ~> /\ \A c \in Consumers : pc[c] = "done"
           /\ EnqueueWaiters = {}

(* A call of enqueue that waits for room returns once the consumers have   *)
(* made room.  The code waits "while" the queue is full                    *)
(* (bounded_queue.rs:35-41), so this is what its loop condition says; it   *)
(* does not hold, because dequeue never notifies enqueue_waiters.          *)
BlockedEnqueueReturns ==
  \A p \in Producers :
     (open /\ ~Full /\ pc[p] = "waiting") ~> (~open \/ Full \/ pc[p] # "waiting")
=============================================================================
