--------------------------- MODULE LimitedUseArcs ---------------------------
(***************************************************************************)
(* mac-n-cheese/runner/src/runner/limited_use_arcs.rs: the outputs of      *)
(* finished tasks, each freed by the last of a known number of uses,       *)
(* without a lock.  Every atomic operation is a step of its own.           *)
(*                                                                         *)
(* The callers are the runner's threads: a task's output is inserted once, *)
(* and take_one(t) is called as often as t has uses and only once          *)
(* insert(t) has returned (runner.rs:353 precedes the launches of 355-372).*)
(* The steps are sequentially consistent; README.md says why that is fair. *)
(***************************************************************************)
EXTENDS Naturals, FiniteSets

CONSTANTS Tasks,     \* task ids
          Uses,      \* dependent counts, [Tasks -> Nat]
          Threads    \* runner threads

ASSUME ArcsAssumption ==
  /\ Tasks # {}
  /\ IsFiniteSet(Threads)
  /\ Uses \in [Tasks -> Nat]

None == "none"      \* an empty ArcSwapOption
Some == "some"      \* one that holds the task's output

VARIABLES remaining_uses,   \* the atomic counters
          contents,         \* the ArcSwapOptions
          pc,               \* the next atomic operation of each thread
          task,             \* the task each thread's call is about
          out,              \* what take_one has loaded
          inserted,         \* tasks whose insert() has begun or returned
          begun             \* take_one calls begun, per task

vars == <<remaining_uses, contents, pc, task, out, inserted, begun>>

Busy(t) == {th \in Threads : pc[th] # "idle" /\ task[th] = t}
Inserting(t) == {th \in Busy(t) : pc[th] \in {"test", "swap"}}

(* Type invariant of the counters and slots of limited_use_arcs.rs:13-17;  *)
(* a thread carries an output only between its load and its return.        *)
TypeOK == /\ remaining_uses \in [Tasks -> Nat]
          /\ contents \in [Tasks -> {None, Some}]
          /\ pc \in [Threads -> {"idle", "test", "swap", "load", "sub",
                                  "free", "return", "panic"}]
          /\ task \in [Threads -> Tasks]
          /\ out \in [Threads -> {None, Some}]
          /\ inserted \subseteq Tasks
          /\ begun \in [Tasks -> Nat]
          /\ \A th \in Threads : pc[th] \in {"idle", "test", "swap", "load"} =>
                                    out[th] = None

Init == /\ remaining_uses = Uses
        /\ contents = [t \in Tasks |-> None]
        /\ pc = [th \in Threads |-> "idle"]
        /\ task = [th \in Threads |-> CHOOSE t \in Tasks : TRUE]
        /\ out = [th \in Threads |-> None]
        /\ inserted = {}
        /\ begun = [t \in Tasks |-> 0]

(* The operations of take_one in program order.  Mutant: the count is      *)
(* decremented before the Arc is loaded.                                   *)
Then_SubFirst(op) ==
  CASE op = "call" -> "sub" [] op = "sub" -> "load"
    [] op = "free" -> "load" [] op = "load" -> "return"
Then(op) ==
  CASE op = "call" -> "load" [] op = "load" -> "sub"
    [] op = "sub" -> "return" [] op = "free" -> "return"

(* A runner thread has finished task t and inserts its output. *)
CallInsert(th, t) ==
  /\ pc[th] = "idle" /\ t \notin inserted
  /\ inserted' = inserted \cup {t}
  /\ pc' = [pc EXCEPT ![th] = "test"]
  /\ task' = [task EXCEPT ![th] = t]
  /\ UNCHANGED <<remaining_uses, contents, out, begun>>

(* An output without uses is not kept.  Mutant: it is.                     *)
InsertTest_Always(th) ==
  /\ pc[th] = "test"
  /\ pc' = [pc EXCEPT ![th] = "swap"]
  /\ UNCHANGED <<remaining_uses, contents, task, out, inserted, begun>>
InsertTest(th) ==
  /\ pc[th] = "test"
  /\ pc' = [pc EXCEPT ![th] =
              IF remaining_uses[task[th]] = 0 THEN "idle" ELSE "swap"]
  /\ UNCHANGED <<remaining_uses, contents, task, out, inserted, begun>>

(* swap(Some(value)); assert!(old.is_none()) *)
InsertSwap(th) ==
  /\ pc[th] = "swap"
  /\ contents' = [contents EXCEPT ![task[th]] = Some]
  /\ pc' = [pc EXCEPT ![th] =
              IF contents[task[th]] = None THEN "idle" ELSE "panic"]
  /\ UNCHANGED <<remaining_uses, task, out, inserted, begun>>

(* A runner thread launches a task that has t among its inputs. *)
CallTake(th, t) ==
  /\ pc[th] = "idle"
  /\ t \in inserted /\ Inserting(t) = {}
  /\ begun[t] < Uses[t]
  /\ begun' = [begun EXCEPT ![t] = @ + 1]
  /\ pc' = [pc EXCEPT ![th] = Then("call")]
  /\ task' = [task EXCEPT ![th] = t]
  /\ UNCHANGED <<remaining_uses, contents, out, inserted>>

TakeLoad(th) ==
  /\ pc[th] = "load"
  /\ out' = [out EXCEPT ![th] = contents[task[th]]]
  /\ pc' = [pc EXCEPT ![th] = Then("load")]
  /\ UNCHANGED <<remaining_uses, contents, task, inserted, begun>>

(* fetch_sub: 0 panics, 1 is the last use.  Mutant: the last use is taken  *)
(* to be the one that leaves one.                                          *)
TakeSub_Early(th) ==
  LET old == remaining_uses[task[th]]
  IN  /\ pc[th] = "sub"
      /\ remaining_uses' = [remaining_uses EXCEPT ![task[th]] = old - 1]
      /\ pc' = [pc EXCEPT ![th] = IF old \in {1, 2} THEN "free" ELSE Then("sub")]
      /\ UNCHANGED <<contents, task, out, inserted, begun>>
TakeSub(th) ==
  LET old == remaining_uses[task[th]]
  IN  /\ pc[th] = "sub"
      /\ IF old = 0
         THEN /\ pc' = [pc EXCEPT ![th] = "panic"]
              /\ UNCHANGED remaining_uses
         ELSE /\ remaining_uses' = [remaining_uses EXCEPT ![task[th]] = old - 1]
              /\ pc' = [pc EXCEPT ![th] = IF old = 1 THEN "free" ELSE Then("sub")]
      /\ UNCHANGED <<contents, task, out, inserted, begun>>

(* content.store(None) *)
TakeFree(th) ==
  /\ pc[th] = "free"
  /\ contents' = [contents EXCEPT ![task[th]] = None]
  /\ pc' = [pc EXCEPT ![th] = Then("free")]
  /\ UNCHANGED <<remaining_uses, task, out, inserted, begun>>

(* "reference count mismatch" if nothing was loaded; otherwise the Arc     *)
(* moves to the caller.                                                    *)
TakeReturn(th) ==
  /\ pc[th] = "return"
  /\ pc' = [pc EXCEPT ![th] = IF out[th] = None THEN "panic" ELSE "idle"]
  /\ out' = [out EXCEPT ![th] = None]
  /\ UNCHANGED <<remaining_uses, contents, task, inserted, begun>>

Step(th) == \/ \E t \in Tasks : CallInsert(th, t) \/ CallTake(th, t)
            \/ InsertTest(th) \/ InsertSwap(th)
            \/ TakeLoad(th) \/ TakeSub(th) \/ TakeFree(th) \/ TakeReturn(th)

Next == \E th \in Threads : Step(th)

Spec == Init /\ [][Next]_vars

-----------------------------------------------------------------------------
(* None of the three panics can be reached: no output is inserted over     *)
(* another, no count underflows, and every taker finds the output          *)
(* (limited_use_arcs.rs:39, 49, 58).                                       *)
NoPanic == \A th \in Threads : pc[th] # "panic"

(* Memory: while nobody is at work on a task, its output is held exactly   *)
(* when it has been inserted and has uses left; so every output is freed   *)
(* by its last use and not before (limited_use_arcs.rs:35-37, 50-53).      *)
FreedByLastUse ==
  \A t \in Tasks : Busy(t) = {} =>
     (contents[t] = Some <=> t \in inserted /\ remaining_uses[t] > 0)

(* Seen from outside, insert and take_one are atomic: they take effect at  *)
(* the swap and at the fetch_sub.  An output counts as held until its last *)
(* use is claimed, whenever the Arc itself is dropped after that.          *)
Counted == INSTANCE CountedOutputs
             WITH left <- remaining_uses,
                  held <- {t \in Tasks : contents[t] = Some /\ remaining_uses[t] > 0}
CountedSpec == Counted!Spec
=============================================================================
