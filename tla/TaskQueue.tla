------------------------------ MODULE TaskQueue ------------------------------
(***************************************************************************)
(* mac-n-cheese/runner/src/task_queue.rs: the priority queue from which    *)
(* runner threads take task stages and disk threads take read requests.    *)
(*                                                                         *)
(* A step is what a thread does between acquiring the mutex and releasing  *)
(* it.  A thread whose pc is "ready" contends for the mutex, having called *)
(* blocking_dequeue or having been notified.  The heap is the set of the   *)
(* entries it holds; which of two equal entries pops first is open.        *)
(***************************************************************************)
EXTENDS Integers, FiniteSets

CONSTANTS Entries,   \* TaskQueueEntry values that get enqueued, each once:
                     \* records with fields task, priority and metadata
          Workers    \* threads that loop on blocking_dequeue

ASSUME TaskQueueAssumption ==
  /\ IsFiniteSet(Workers)
  /\ IsFiniteSet(Entries)
  /\ \A e \in Entries : e.task \in Nat /\ e.priority \in Int

VARIABLES open,      \* the Option is Some(..)
          queue,     \* the entries in the heap
          pc,        \* where each worker is
          taken,     \* history: the entries each worker was handed
          dropped    \* history: entries refused, or discarded by close

vars == <<open, queue, pc, taken, dropped>>

At(where) == {w \in Workers : pc[w] = where}

Taken == UNION {taken[w] : w \in Workers}

(* Type invariant; a closed queue (None, task_queue.rs:108) holds nothing. *)
TypeOK == /\ open \in BOOLEAN
          /\ queue \subseteq Entries
          /\ ~open => queue = {}
          /\ pc \in [Workers -> {"idle", "ready", "waiting", "done"}]
          /\ taken \in [Workers -> SUBSET Entries]
          /\ dropped \subseteq Entries

Init == /\ open = TRUE
        /\ queue = {}
        /\ pc = [w \in Workers |-> "idle"]
        /\ taken = [w \in Workers |-> {}]
        /\ dropped = {}

(* sort_key(e) < sort_key(f): lower priority, or the same priority and a   *)
(* higher task id.  Mutant: Reverse is missing.                            *)
Below_NoReverse(e, f) ==
  \/ e.priority < f.priority
  \/ e.priority = f.priority /\ e.task < f.task
Below(e, f) ==
  \/ e.priority < f.priority
  \/ e.priority = f.priority /\ e.task > f.task

(* notify_one on queue_changed: what pc may become.                        *)
(* Mutants: only the first entry of an empty queue is announced; none is.  *)
NotifyOne_WhenEmpty ==
  IF queue # {} \/ At("waiting") = {} THEN {pc}
  ELSE {[pc EXCEPT ![w] = "ready"] : w \in At("waiting")}
NotifyOne_Forgotten == {pc}
NotifyOne ==
  IF At("waiting") = {} THEN {pc}
  ELSE {[pc EXCEPT ![w] = "ready"] : w \in At("waiting")}

(* push, then notify_one.  The call does not block. *)
EnqueuePush(e) ==
  /\ open
  /\ e \notin queue \cup Taken \cup dropped
  /\ queue' = queue \cup {e}
  /\ pc' \in NotifyOne
  /\ UNCHANGED <<open, taken, dropped>>

(* "Dropping value attempted to enqueue on closed task queue" *)
EnqueueRefused(e) ==
  /\ ~open
  /\ e \notin Taken \cup dropped
  /\ dropped' = dropped \cup {e}
  /\ UNCHANGED <<open, queue, pc, taken>>

(* The worker is done with its last entry and calls blocking_dequeue. *)
CallDequeue(w) ==
  /\ pc[w] = "idle"
  /\ pc' = [pc EXCEPT ![w] = "ready"]
  /\ UNCHANGED <<open, queue, taken, dropped>>

(* BinaryHeap::pop.  Mutant: the entry is only peeked at. *)
DequeuePop_Peek(w) ==
  /\ pc[w] = "ready"
  /\ open
  /\ \E e \in queue :
        /\ \A f \in queue : ~Below(e, f)
        /\ taken' = [taken EXCEPT ![w] = @ \cup {e}]
  /\ pc' = [pc EXCEPT ![w] = "idle"]
  /\ UNCHANGED <<open, queue, dropped>>
DequeuePop(w) ==
  /\ pc[w] = "ready"
  /\ open
  /\ \E e \in queue :
        /\ \A f \in queue : ~Below(e, f)
        /\ queue' = queue \ {e}
        /\ taken' = [taken EXCEPT ![w] = @ \cup {e}]
  /\ pc' = [pc EXCEPT ![w] = "idle"]
  /\ UNCHANGED <<open, dropped>>

DequeueWait(w) ==
  /\ pc[w] = "ready"
  /\ open /\ queue = {}
  /\ pc' = [pc EXCEPT ![w] = "waiting"]
  /\ UNCHANGED <<open, queue, taken, dropped>>

(* None ends the worker's loop. *)
DequeueNone(w) ==
  /\ pc[w] = "ready"
  /\ ~open
  /\ pc' = [pc EXCEPT ![w] = "done"]
  /\ UNCHANGED <<open, queue, taken, dropped>>

(* take() leaves None behind; notify_all; a warning if entries remained.   *)
(* Mutant: notify_one.                                                     *)
Close_NotifyOne ==
  /\ open
  /\ open' = FALSE
  /\ queue' = {}
  /\ dropped' = dropped \cup queue
  /\ pc' \in NotifyOne
  /\ UNCHANGED taken
Close ==
  /\ open
  /\ open' = FALSE
  /\ queue' = {}
  /\ dropped' = dropped \cup queue
  /\ pc' = [w \in Workers |-> IF pc[w] = "waiting" THEN "ready" ELSE pc[w]]
  /\ UNCHANGED taken

Enqueue == \E e \in Entries : EnqueuePush(e) \/ EnqueueRefused(e)
Dequeue(w) == CallDequeue(w) \/ DequeuePop(w) \/ DequeueWait(w)
                \/ DequeueNone(w)

Next == Enqueue \/ (\E w \in Workers : Dequeue(w)) \/ Close

(* Workers are scheduled; nobody need enqueue or close. *)
Spec == Init /\ [][Next]_vars /\ \A w \in Workers : WF_vars(Dequeue(w))

-----------------------------------------------------------------------------
(* Workers sleep only while those on their way to the mutex are enough for *)
(* all queued entries (task_queue.rs:72-74 against the wait at line 92).   *)
NoLostWakeup == At("waiting") # {} => Cardinality(queue) <= Cardinality(At("ready"))

(* No entry is handed to two workers, and none is two of handed out, still *)
(* queued and reported dropped (task_queue.rs:86-100).                     *)
HandedOutOnce ==
  /\ \A v, w \in Workers : v # w => taken[v] \cap taken[w] = {}
  /\ Taken \cap (queue \cup dropped) = {}
  /\ queue \cap dropped = {}

(* "We want high priority, low task ID tasks to go first"                  *)
(* (task_queue.rs:26): nothing left in the queue beats what was taken.     *)
BestFirst ==
  [][\A w \in Workers : \A e \in taken'[w] \ taken[w] : \A f \in queue' :
        /\ e.priority >= f.priority
        /\ e.priority = f.priority => e.task <= f.task]_vars

(* A queued entry is handed out unless the queue is closed first, whatever *)
(* its priority: the queue starves no one that finitely many can overtake. *)
EveryEntryHandedOut ==
  \A e \in Entries : e \in queue ~> (e \in Taken \/ ~open)

(* close() ends every worker's loop (task_queue.rs:102-111, 93-95). *)
CloseEndsWorkers == ~open ~> At("done") = Workers
=============================================================================
