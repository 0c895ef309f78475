--------------------------- MODULE QueueContract ---------------------------
(***************************************************************************)
(* What mac-n-cheese/runner/src/bounded_queue.rs promises the threads of   *)
(* the reactor, stated on the log of what was put in and the log of what   *)
(* came out, with no lock, no condition variable and no waiting thread.    *)
(* Until close() is called values leave in the order they entered, each    *)
(* once, never more than Bound of them are pending, and a pending value    *)
(* does leave.  After close() nothing enters or leaves: values that are    *)
(* still pending are gone.                                                 *)
(***************************************************************************)
EXTENDS Naturals, Sequences

CONSTANTS Values,     \* what may be enqueued
          Bound       \* capacity

VARIABLES open,       \* the queue has not been closed
          accepted,   \* values enqueue() pushed, in order
          taken       \* values dequeue() returned, in order

vars == <<open, accepted, taken>>

Pending == Len(accepted) - Len(taken)

Init == /\ open = TRUE
        /\ accepted = <<>>
        /\ taken = <<>>

Put == /\ open
       /\ Pending < Bound
       /\ \E v \in Values : accepted' = Append(accepted, v)
       /\ UNCHANGED <<open, taken>>

Take == /\ open
        /\ Pending > 0
        /\ taken' = Append(taken, accepted[Len(taken) + 1])
        /\ UNCHANGED <<open, accepted>>

Close == /\ open' = FALSE
         /\ UNCHANGED <<accepted, taken>>

Next == Put \/ Take \/ Close

Spec == Init /\ [][Next]_vars /\ WF_vars(Take)
=============================================================================
