-------------------------- MODULE RunnerProperties --------------------------
(***************************************************************************)
(* What the two parties of Runner promise.                                 *)
(***************************************************************************)
EXTENDS Runner

(* Threads that hold a stage of a task: it runs, sends, or is on its way   *)
(* to the slot table.                                                      *)
Carries(p, x, t) ==
  LET r == thr[p][x]
  IN  /\ r.task = t
      /\ \/ r.pc \in {"launch", "send", "blocked", "result"}
         \/ r.pc \in {"getslot", "update"} /\ r.brings = "request"

(* The places where a stage of t can be.                                   *)
Places(p, t) ==
  {<<"thread", x>> : x \in {y \in Threads(p) : Carries(p, y, t)}}
    \cup {<<"queue", e>> : e \in {f \in runQueue[p] : f.task = t}}
    \cup (IF slot[p][t].req >= 0 THEN {<<"slot", t>>} ELSE {})

Unlaunched(p) == {t \in Tasks : deps[p][t] > 0} \cup ToSet(thr[p][Main].todo)
Alive(p) == {t \in Tasks : Places(p, t) # {}}
Finished(p) == Tasks \ (Unlaunched(p) \cup Alive(p))

(* A runner thread between the end of a task and TaskDone.                 *)
Notifying(p, x) ==
  /\ x[1] = "run"
  /\ \/ thr[p][x].pc \in {"todo", "launch"}
     \/ thr[p][x].pc \in {"getslot", "update"} /\ thr[p][x].step = 0

(* How many messages for task t p has submitted that no stage of the peer  *)
(* has taken up: queued, being written, on a connection, being read, or    *)
(* waiting in the slot.                                                    *)
Undelivered(p, t) ==
  LET q == Peer(p)
      hands(o, X, pcs) == {x \in X : thr[o][x].pc \in pcs /\ thr[o][x].task = t}
  IN  Cardinality({i \in DOMAIN outq[p] : outq[p][i].task = t})
        + Cardinality(hands(p, Outs, {"write"}))
        + Cardinality({c \in UNION {{d} \X DOMAIN net[p][d] : d \in 1 .. NumConns} :
                         net[p][c[1]][c[2]].task = t})
        + Cardinality(hands(q, Ins, {"getslot", "update"}))
        + (IF slot[q][t].inc >= 0 THEN 1 ELSE 0)

-----------------------------------------------------------------------------
Messages == [task : Tasks, round : Nat]
Stages == [task : Tasks, step : Nat, got : Nat \cup {-1}]

(* Type invariant of the shared state: counts stay in range, the queue of  *)
(* outgoing data keeps its bound, and only the prover reads private data   *)
(* ("The verifier shouldn't be reading private data",                      *)
(* thread_pool_backend.rs:268).                                            *)
TypeOK ==
  \A p \in Parties :
    /\ runQueue[p] \subseteq Stages
    /\ \A t \in Tasks : /\ deps[p][t] \in 0 .. Len(Inputs[t])
                        /\ left[p][t] \in 0 .. Len(DependentsOf[t])
                        /\ slot[p][t].req \in -1 .. ExpectedSteps(p, t) - 1
    /\ held[p] \subseteq {t \in Tasks : left[p][t] > 0}
    /\ remaining[p] \in 0 .. NumTasks
    /\ Len(outq[p]) <= OutCapacity
    /\ ToSet(outq[p]) \subseteq Messages
    /\ \A m \in reads[p] : m.kind = "private" => p = "prover"

(* Neither process panics or gives up: no slot is filled after its stage   *)
(* was launched or twice with the same thing, no response brings what was  *)
(* not asked for, data has the size the prototype says, no count           *)
(* underflows, every output is there when it is taken, and each task ends  *)
(* in the step its rounds predict (the asserts, expects and ensures of     *)
(* runner.rs and thread_pool_backend.rs).                                  *)
NoPanic == \A p \in Parties : ~panicked[p]

(* A task's continuation is in exactly one place from its launch to its    *)
(* end, and num_tasks_remaining counts the tasks that have not ended plus  *)
(* those whose dependents are still being notified: no stage is dropped or *)
(* duplicated on its way through slots, run queue and threads.             *)
StageConserved ==
  \A p \in Parties :
    /\ \A t \in Tasks : Cardinality(Places(p, t)) <= 1
    /\ Alive(p) \cap Unlaunched(p) = {}
    /\ remaining[p] = Cardinality(Tasks \ Finished(p))
                        + Cardinality({x \in Runners(p) : Notifying(p, x)})

(* A stage of a task exists only once every task it depends on, directly   *)
(* or not, has finished at the same party (remaining_dependencies).        *)
DependenciesFirst ==
  \A p \in Parties : \A t \in Alive(p) : Ancestors[t] \subseteq Finished(p)

(* The data a stage starts with is that of its own round: the answers of   *)
(* two steps of one task never meet in the same slot.                      *)
RightRound ==
  \A p \in Parties : \A e \in runQueue[p] :
    e.got = IF WantIncoming(p, e.task, e.step) THEN RoundFor(p, e.task, e.step) ELSE -1

(* The parties work on a task in lockstep: of each task at most one        *)
(* message in each direction is under way.                                 *)
Lockstep ==
  \A p \in Parties : \A t \in Tasks : Undelivered(p, t) <= 1

(* When the verifier has drawn a task's challenge, the prover's messages   *)
(* for every task it depends on have been received: the prover cannot      *)
(* choose them knowing the challenge (it "should be in topological order   *)
(* for the same reason that outgoing data should be",                      *)
(* thread_pool_backend.rs:102).                                            *)
Drawn == ToSet(chalq) \cup ToSet(chalNet)
           \cup {t \in Tasks : slot["prover"][t].chal}
CommittedBeforeChallenge ==
  \A t \in Drawn : \A u \in Ancestors[t] :
    u \in Finished("verifier") /\ Undelivered("prover", u) = 0

(* When no_tasks_remain is set, nothing that main is about to close or to  *)
(* write-lock is in use: no stage or read is queued, no slot waits, no     *)
(* runner thread is inside a task, no output is still in memory.           *)
QuietAtClose ==
  \A p \in Parties : noTasks[p] =>
    /\ runQueue[p] = {} /\ reads[p] = {} /\ held[p] = {}
    /\ \A t \in Tasks : ~slot[p][t].present
    /\ \A x \in Runners(p) : thr[p][x].pc \in {"idle", "done"}
    /\ \A x \in Disks \cup Ins : thr[p][x].pc \in {"idle", "done"}

(* What p has still to deliver by connection c, in the order it goes out:  *)
(* the data written, what the connection's thread is writing, the queue.   *)
Hand(p, x) ==
  IF thr[p][x].pc = "write"
  THEN <<[task |-> thr[p][x].task, round |-> thr[p][x].step]>> ELSE <<>>
Line(p, c) == net[p][c] \o Hand(p, <<"out", c>>) \o outq[p]

(* Whatever the number of runner threads and connections, in no such line  *)
(* does data stand behind that of a task which needs it: "any outgoing     *)
(* data" is submitted "_before_ launching any other tasks" (runner.rs:273),*)
(* and neither the queue nor a connection's thread reorders.               *)
SentInOrder ==
  \A p \in Parties : \A c \in 1 .. NumConns : \A i, j \in DOMAIN Line(p, c) :
    i < j => Line(p, c)[j].task \notin Ancestors[Line(p, c)[i].task]

(* A task's data is on the wire only when no data of a task it depends on  *)
(* still waits to be sent, in the queue or in another thread's hand: "That *)
(* way we can ensure that outgoing data is sent in topological order"      *)
(* (runner.rs:274).  With several connections it is not.                   *)
Unsent(p) == {m.task : m \in ToSet(outq[p])}
               \cup {thr[p][x].task : x \in {y \in Outs : thr[p][y].pc = "write"}}
TopologicalOnWire ==
  \A p \in Parties : \A c \in 1 .. NumConns : \A m \in ToSet(net[p][c]) :
    Ancestors[m.task] \cap Unsent(p) = {}

-----------------------------------------------------------------------------
(* Threads that wait_on_threads waits for: all but the incoming daemons.   *)
AllDone == \A p \in Parties : \A x \in Threads(p) \ Ins : thr[p][x].pc = "done"

(* Both processes come to an end, unless a close discarded something.      *)
TerminatesUnlessDiscarded == <>(AllDone \/ \E p \in Parties : lost[p] # {})

(* Both processes come to an end ("Wait until the tasks have finished      *)
(* running" before close, runner.rs:492): nobody waits for ever.           *)
Terminates == <>AllDone
=============================================================================
