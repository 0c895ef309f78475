---------------------------- MODULE ThreadSpawner ----------------------------
(***************************************************************************)
(* mac-n-cheese/runner/src/thread_spawner.rs: the main thread spawns the   *)
(* threads of a process one after the other and then waits until all but   *)
(* the daemons have completed, or one thread, daemon or not, has failed.   *)
(*                                                                         *)
(* A thread's end is one step, under the mutex.  Panics do not come here:  *)
(* the panic hook of main.rs ends the process.                             *)
(***************************************************************************)
EXTENDS Integers, FiniteSets

CONSTANTS Threads,   \* threads given to spawn
          Daemons,   \* threads given to spawn_daemon
          Failed     \* the None of Mutex<Option<usize>>

ASSUME SpawnerAssumption ==
  /\ IsFiniteSet(Threads) /\ IsFiniteSet(Daemons)
  /\ Threads \cap Daemons = {}
  /\ Failed \notin Nat

VARIABLES state,    \* how many threads wait_on_threads waits for, or Failed
          thread,   \* what each thread is doing
          main      \* what the main thread is doing

vars == <<state, thread, main>>

In(S) == {t \in Threads \cup Daemons : thread[t] \in S}

Init == /\ state = 0
        /\ thread = [t \in Threads \cup Daemons |-> "unspawned"]
        /\ main = "spawning"

(* spawn counts the thread before it starts it.                            *)
Counted(s) == IF s = Failed THEN s ELSE s + 1

CountThread(t) ==
  /\ main = "spawning" /\ thread[t] = "unspawned"
  /\ In({"counted"}) = {}
  /\ state' = Counted(state)
  /\ thread' = [thread EXCEPT ![t] = "counted"]
  /\ UNCHANGED main

StartThread(t) ==
  /\ thread[t] = "counted"
  /\ thread' = [thread EXCEPT ![t] = "running"]
  /\ UNCHANGED <<state, main>>

SpawnDaemon(d) ==
  /\ main = "spawning" /\ thread[d] = "unspawned"
  /\ In({"counted"}) = {}
  /\ thread' = [thread EXCEPT ![d] = "running"]
  /\ UNCHANGED <<state, main>>

(* notify_all: of the main thread, if it waits on the condition variable.  *)
(* Mutant: nobody is notified.                                             *)
NotifyAll_Forgotten == UNCHANGED main
NotifyAll == main' = IF main = "waiting" THEN "checking" ELSE main

(* Mutant: the end of one thread covers the failure of another.            *)
Uncounted_Resets(s) == IF s = Failed THEN 0 ELSE s - 1
Uncounted(s) == IF s = Failed THEN s ELSE s - 1
Waited(t) == t \in Threads

Complete(t) ==
  /\ thread[t] = "running"
  /\ thread' = [thread EXCEPT ![t] = "completed"]
  /\ IF Waited(t)
     THEN /\ state' = Uncounted(state)
          /\ NotifyAll
     ELSE UNCHANGED <<state, main>>

Fail(t) ==
  /\ thread[t] = "running"
  /\ thread' = [thread EXCEPT ![t] = "failed"]
  /\ state' = Failed
  /\ NotifyAll

(* wait_on_threads, from acquiring the mutex to releasing it.              *)
WaitOnThreads ==
  /\ main = "spawning" /\ In({"unspawned", "counted"}) = {}
  /\ main' = "checking"
  /\ UNCHANGED <<state, thread>>

(* Mutant: a failure is taken for the end of the wait.                     *)
Verdict_IgnoresFailure(s) == IF s = Failed \/ s = 0 THEN "ok" ELSE "waiting"
Verdict(s) == IF s = Failed THEN "error" ELSE IF s = 0 THEN "ok" ELSE "waiting"

Check ==
  /\ main = "checking"
  /\ main' = Verdict(state)
  /\ UNCHANGED <<state, thread>>

Next ==
  \/ \E t \in Threads : CountThread(t) \/ StartThread(t)
  \/ \E d \in Daemons : SpawnDaemon(d)
  \/ \E t \in Threads \cup Daemons : Complete(t) \/ Fail(t)
  \/ WaitOnThreads \/ Check

(* The main thread runs whenever it can; a thread that was given work ends *)
(* in some way only if its work does, so nothing is assumed of it.         *)
MainStep == \/ \E t \in Threads : CountThread(t) \/ StartThread(t)
            \/ \E d \in Daemons : SpawnDaemon(d)
            \/ WaitOnThreads \/ Check
Spec == Init /\ [][Next]_vars /\ WF_vars(MainStep)

-----------------------------------------------------------------------------
(* Type invariant; the count of thread_spawner.rs:7 is never negative.     *)
TypeOK ==
  /\ state \in Nat \cup {Failed}
  /\ thread \in [Threads \cup Daemons ->
                   {"unspawned", "counted", "running", "completed", "failed"}]
  /\ main \in {"spawning", "checking", "waiting", "ok", "error"}

(* The threads wait_on_threads waits for.                                  *)
Live == {t \in Threads : thread[t] \in {"counted", "running"}}

(* The count is exact until something fails, and a failure is never        *)
(* forgotten: the end of a thread can neither underflow the count          *)
(* ("underflow on remaining thread count") nor hide an error.              *)
CountExact ==
  /\ state = Failed <=> In({"failed"}) # {}
  /\ state # Failed => state = Cardinality(Live)

(* wait_on_threads returns Ok only when every thread it waits for has      *)
(* completed, and an error only when some thread has failed.               *)
VerdictRight ==
  [][ main' # main =>
        /\ main' = "ok" => /\ \A t \in Threads : thread[t] = "completed"
                           /\ In({"failed"}) = {}
        /\ main' = "error" => In({"failed"}) # {} ]_vars

(* The wait ends once nothing it waits for runs, or something failed; the  *)
(* notification of the last end is not lost.                               *)
WaitEnds ==
  (\A t \in Threads : thread[t] = "completed") \/ In({"failed"}) # {}
    ~> main \in {"ok", "error"}
=============================================================================
