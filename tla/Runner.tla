------------------------------- MODULE Runner -------------------------------
(***************************************************************************)
(* The prover and the verifier of mac-n-cheese executing one circuit:      *)
(* mac-n-cheese/runner/src/runner.rs on top of the thread-pool reactor,    *)
(* mac-n-cheese/runner/src/reactor/thread_pool_backend.rs.                 *)
(*                                                                         *)
(* Each party has runner threads, the runner main thread, disk threads,    *)
(* one outgoing and one incoming thread per connection and the challenge   *)
(* thread.  A step of a thread is one access to state it shares with       *)
(* others: a queue, the slot table, a slot under its lock, an atomic       *)
(* counter, a socket.  The queues and the output table are the ones        *)
(* TaskQueue, BoundedQueue and LimitedUseArcs model in detail; here each   *)
(* of their operations is one step, as those modules show they may be.     *)
(* What a task computes is left out; which messages it exchanges is not.   *)
(***************************************************************************)
EXTENDS Manifest, TLC

CONSTANTS NumRunners,   \* runner threads, per party
          NumConns,     \* connections that carry task data
          NumDisks,     \* disk reader threads of each party
          OutCapacity   \* OUTGOING_DATA_QUEUE_CAPACITY

ASSUME RunnerAssumption ==
  /\ NumRunners \in [Parties -> Nat \ {0}]
  /\ NumConns \in Nat \ {0}
  /\ NumDisks \in Nat \ {0}
  /\ OutCapacity \in Nat \ {0}

VARIABLES
  thr,         \* thr[p][x]: what thread x of party p is doing
  runQueue,    \* runQueue[p]: stages ready to run
  runOpen,
  slot,        \* slot[p][t]: the entry of incoming_slots for task t
  deps,        \* remaining_dependencies
  left,        \* task_outputs: uses left ..
  held,        \* .. and the tasks whose output is in memory
  remaining,   \* num_tasks_remaining
  noTasks,     \* no_tasks_remain
  reads,       \* file_read_requests
  readsOpen,
  cached,      \* disk_cache: chunks read so far
  outq,        \* outgoing_data
  outOpen,
  net,         \* net[p][c]: what p wrote to connection c and was not read
  chalq,       \* outgoing_challenges of the verifier
  chalOpen,
  chalNet,     \* challenges written and not read
  rootConn,    \* the prover's finalization messages are on root_conn
  panicked,    \* a panic or an error ended the process
  lost         \* history: what a close() discarded or a closed queue refused

runVars == <<runQueue, runOpen>>
graphVars == <<deps, left, held, remaining, noTasks>>
diskVars == <<reads, readsOpen, cached>>
outVars == <<outq, outOpen, net>>
chalVars == <<chalq, chalOpen, chalNet>>
endVars == <<rootConn, panicked, lost>>
vars == <<thr, runVars, slot, graphVars, diskVars, outVars, chalVars, endVars>>

-----------------------------------------------------------------------------
(* Threads *)

Runners(p) == {"run"} \X (1 .. NumRunners[p])
Main == <<"main", 0>>
Disks == {"disk"} \X (1 .. NumDisks)
Outs == {"out"} \X (1 .. NumConns)
Ins == {"in"} \X (1 .. NumConns)
Chal == <<"chal", 0>>
Threads(p) == Runners(p) \cup {Main, Chal} \cup Disks \cup Outs \cup Ins

(* The local state of a thread: pc; the task and step it works on; the     *)
(* tasks it has still to notify or launch; which slot object it holds;     *)
(* what it brings to that slot.                                            *)
Idle == [pc |-> "idle", task |-> 0, step |-> 0, todo |-> <<>>,
         ref |-> 0, brings |-> "nothing", hit |-> FALSE]

Do(p, x, r) == thr' = [thr EXCEPT ![p][x] = r]

(* A panic or an error ends the thread; thread_spawner then ends the       *)
(* process.                                                                *)
Panic(p, x) ==
  /\ panicked' = [panicked EXCEPT ![p] = TRUE]
  /\ Do(p, x, [Idle EXCEPT !.pc = "panicked"])
  /\ UNCHANGED <<runVars, slot, graphVars, diskVars, outVars, chalVars,
                 rootConn, lost>>

Lose(p, S) == lost' = [lost EXCEPT ![p] = @ \cup S]

-----------------------------------------------------------------------------
(* Slots: where the answers to a request meet.  no counts the slot objects *)
(* made for the task so far; an object that has launched its stage is gone *)
(* from the table and holds None.                                          *)
NoSlot(n) == [no |-> n, present |-> FALSE, req |-> -1, chal |-> FALSE,
              inc |-> -1, pub |-> FALSE, priv |-> FALSE]

Satisfies(p, t, s) ==
  /\ WantChallenge(t, s.req) => s.chal
  /\ WantIncoming(p, t, s.req) => s.inc >= 0
  /\ WantPublic(t, s.req) => s.pub
  /\ WantPrivate(p, t, s.req) => s.priv

(* The debug_assert_eqs of maybe_launch_incoming. *)
Exact(p, t, s) ==
  /\ WantChallenge(t, s.req) <=> s.chal
  /\ WantIncoming(p, t, s.req) <=> s.inc >= 0
  /\ WantPublic(t, s.req) <=> s.pub
  /\ WantPrivate(p, t, s.req) <=> s.priv

(* The verifier answers its own request for a challenge. *)
OwnChallenge(p, r) == p = "verifier" /\ WantChallenge(r.task, r.step)

(* What is there already, in the debug_asserts before each assignment. *)
Twice(p, s, r) ==
  CASE r.brings = "request" -> \/ s.req >= 0
                               \/ s.chal /\ OwnChallenge(p, r)
                               \/ s.pub /\ r.hit
    [] r.brings = "incoming" -> s.inc >= 0
    [] r.brings = "challenge" -> s.chal
    [] r.brings = "public" -> s.pub
    [] r.brings = "private" -> s.priv

(* The closures update_incoming_slot runs.  Mutant: an answer that comes   *)
(* before the request is dropped.                                          *)
Fill(p, s, r) ==
  CASE r.brings = "request" -> [s EXCEPT !.req = r.step,
                                         !.chal = @ \/ OwnChallenge(p, r),
                                         !.pub = @ \/ r.hit]
    [] r.brings = "incoming" -> [s EXCEPT !.inc = r.step]
    [] r.brings = "challenge" -> [s EXCEPT !.chal = TRUE]
    [] r.brings = "public" -> [s EXCEPT !.pub = TRUE]
    [] r.brings = "private" -> [s EXCEPT !.priv = TRUE]
Filled_NeedsRequest(p, s, r) ==
  IF r.brings = "incoming" /\ s.req < 0 THEN s ELSE Fill(p, s, r)
Filled(p, s, r) == Fill(p, s, r)

(* get_incoming_slot: under the table's lock. *)
GetSlot(p, x) ==
  LET r == thr[p][x]
      s == slot[p][r.task]
      n == IF s.present THEN s.no ELSE s.no + 1
  IN  /\ r.pc = "getslot"
      /\ slot' = [slot EXCEPT ![p][r.task].no = n, ![p][r.task].present = TRUE]
      /\ Do(p, x, [r EXCEPT !.pc = "update", !.ref = n])
      /\ UNCHANGED <<runVars, graphVars, diskVars, outVars, chalVars, endVars>>

(* Where a thread goes on after it has filled a slot. *)
AfterUpdate(x, r) ==
  IF x = Main \/ (x[1] = "run" /\ r.step = 0)
  THEN [Idle EXCEPT !.pc = "todo", !.todo = r.todo]
  ELSE Idle

(* mem::take and the removal from the table.  Mutant: the received data   *)
(* stays for the next request.                                             *)
Taken_KeepsResponse(s) == [NoSlot(s.no) EXCEPT !.inc = s.inc]
Taken(s) == NoSlot(s.no)

(* update_incoming_slot from the moment it has the slot's lock:            *)
(* "task was not already launched", the closure, maybe_launch_incoming.    *)
UpdateSlot(p, x) ==
  LET r == thr[p][x]
      s == slot[p][r.task]
      f == Filled(p, s, r)
      entry == [task |-> r.task, step |-> f.req, got |-> f.inc]
  IN  /\ r.pc = "update"
      /\ IF r.ref # s.no \/ ~s.present \/ Twice(p, s, r)
         THEN Panic(p, x)
         ELSE IF f.req >= 0 /\ Satisfies(p, r.task, f)
         THEN IF ~Exact(p, r.task, f) THEN Panic(p, x)
              ELSE /\ slot' = [slot EXCEPT ![p][r.task] = Taken(f)]
                   /\ IF runOpen[p]
                      THEN /\ runQueue' = [runQueue EXCEPT ![p] = @ \cup {entry}]
                           /\ UNCHANGED lost
                      ELSE Lose(p, {<<"stage", r.task, f.req>>}) /\ UNCHANGED runQueue
                   /\ Do(p, x, AfterUpdate(x, r))
                   /\ UNCHANGED <<runOpen, graphVars, diskVars, outVars,
                                  chalVars, rootConn, panicked>>
         ELSE /\ slot' = [slot EXCEPT ![p][r.task] = f]
              /\ Do(p, x, AfterUpdate(x, r))
              /\ UNCHANGED <<runVars, graphVars, diskVars, outVars, chalVars, endVars>>
-----------------------------------------------------------------------------
(* Runner threads *)

Below(e, f) ==      \* TaskQueue's order on (priority, task id)
  LET pe == Priority[e.task] + e.step
      pf == Priority[f.task] + f.step
  IN  pe < pf \/ (pe = pf /\ e.task > f.task)
Best(S) == {e \in S : \A f \in S : ~Below(e, f)}

(* A task's code asks for more communication while its peer has more to    *)
(* say.                                                                    *)
Finishes(p, t, step) == ~Incoming(p, t, step + 1)

(* run: take a stage; step_task up to the task's code.  Data of the wrong  *)
(* size is an error, which ends the process.                               *)
TakeStage(p, x) ==
  /\ thr[p][x].pc = "idle" /\ runOpen[p]
  /\ \E e \in Best(runQueue[p]) :
        IF (e.got >= 0) # Incoming(p, e.task, e.step)
        THEN Panic(p, x)
        ELSE /\ runQueue' = [runQueue EXCEPT ![p] = @ \ {e}]
             /\ Do(p, x, [Idle EXCEPT
                           !.pc = IF Outgoing(p, e.task, e.step)
                                  THEN "send" ELSE "result",
                           !.task = e.task, !.step = e.step])
             /\ UNCHANGED <<runOpen, slot, graphVars, diskVars, outVars,
                            chalVars, endVars>>

Message(r) == [task |-> r.task, round |-> r.step]

(* The queue of outgoing data is first in, first out.                      *)
Queued(q, m) == Append(q, m)

(* send_outgoing.  A sender that finds the queue full sleeps until close:  *)
(* dequeue does not notify enqueue_waiters (see BoundedQueue).             *)
SendOutgoing(p, x) ==
  LET r == thr[p][x]
  IN  /\ r.pc \in IF outOpen[p] THEN {"send"} ELSE {"send", "blocked"}
      /\ IF ~outOpen[p]
         THEN /\ Lose(p, {<<"data", r.task, r.step>>})
              /\ Do(p, x, [r EXCEPT !.pc = "result"])
              /\ UNCHANGED outq
         ELSE /\ IF Len(outq[p]) >= OutCapacity
                 THEN Do(p, x, [r EXCEPT !.pc = "blocked"]) /\ UNCHANGED outq
                 ELSE /\ outq' = [outq EXCEPT ![p] = Queued(@, Message(r))]
                      /\ Do(p, x, [r EXCEPT !.pc = "result"])
              /\ UNCHANGED lost
      /\ UNCHANGED <<runVars, slot, graphVars, diskVars, outOpen, net,
                     chalVars, rootConn, panicked>>

(* NeedsCommunication: request the next step's data.                       *)
NextStage(p, x) ==
  LET r == thr[p][x]
  IN  /\ r.pc = "result" /\ ~Finishes(p, r.task, r.step)
      /\ IF r.step >= ExpectedSteps(p, r.task) - 1
         THEN Panic(p, x)
         ELSE /\ Do(p, x, [r EXCEPT !.pc = "getslot", !.step = @ + 1,
                                     !.brings = "request"])
              /\ UNCHANGED <<runVars, slot, graphVars, diskVars, outVars,
                             chalVars, endVars>>

(* Finished: insert the output, then turn to the dependents.  Mutant: an   *)
(* output nobody will take is kept.                                        *)
Kept_Always(p, t) == held[p] \cup {t}
Kept(p, t) == IF left[p][t] = 0 THEN held[p] ELSE held[p] \cup {t}
Finish(p, x) ==
  LET r == thr[p][x]
  IN  /\ r.pc = "result" /\ Finishes(p, r.task, r.step)
      /\ IF r.step # ExpectedSteps(p, r.task) - 1 \/ r.task \in held[p]
         THEN Panic(p, x)
         ELSE /\ held' = [held EXCEPT ![p] = Kept(p, r.task)]
              /\ Do(p, x, [Idle EXCEPT !.pc = "todo", !.todo = DependentsOf[r.task]])
              /\ UNCHANGED <<runVars, slot, deps, left, remaining, noTasks,
                             diskVars, outVars, chalVars, endVars>>

(* One dependent: its dependency count goes down, and at zero it is        *)
(* launched.  Mutant: a dependent is launched by its first dependency.     *)
LaunchAt_First(old) == old > 0
LaunchAt(old) == old = 1

(* Mutant: the verifier draws a challenge ahead, when the first of the     *)
(* inputs has ended.                                                       *)
NotifyDependent_DrawsAhead(p, x) ==
  LET r == thr[p][x]
      d == Head(r.todo)
  IN  /\ x[1] = "run" /\ r.pc = "todo" /\ r.todo # <<>>
      /\ deps' = [deps EXCEPT ![p][d] = @ - 1]
      /\ Do(p, x, IF LaunchAt(deps[p][d])
                  THEN [r EXCEPT !.pc = "launch", !.task = d, !.todo = Tail(@)]
                  ELSE [r EXCEPT !.todo = Tail(@)])
      /\ chalq' = IF p = "verifier" /\ WantChallenge(d, 0) /\ deps[p][d] = Len(Inputs[d])
                  THEN Append(chalq, d) ELSE chalq
      /\ UNCHANGED <<runVars, slot, left, held, remaining, noTasks, diskVars,
                     outVars, chalOpen, chalNet, endVars>>
NotifyDependent(p, x) ==
  LET r == thr[p][x]
      d == Head(r.todo)
  IN  /\ x[1] = "run" /\ r.pc = "todo" /\ r.todo # <<>>
      /\ IF deps[p][d] = 0
         THEN Panic(p, x)
         ELSE /\ deps' = [deps EXCEPT ![p][d] = @ - 1]
              /\ Do(p, x, IF LaunchAt(deps[p][d])
                          THEN [r EXCEPT !.pc = "launch", !.task = d, !.todo = Tail(@)]
                          ELSE [r EXCEPT !.todo = Tail(@)])
              /\ UNCHANGED <<runVars, slot, left, held, remaining, noTasks,
                             diskVars, outVars, chalVars, endVars>>

(* All dependents dealt with: one task less; the last one wakes main.      *)
(* Mutant: main wakes one task early.                                      *)
LastTask_Early(old) == old <= 2
LastTask(old) == old = 1
TaskDone(p, x) ==
  LET r == thr[p][x]
  IN  /\ x[1] = "run" /\ r.pc = "todo" /\ r.todo = <<>>
      /\ IF remaining[p] = 0
         THEN Panic(p, x)
         ELSE /\ remaining' = [remaining EXCEPT ![p] = @ - 1]
              /\ noTasks' = [noTasks EXCEPT ![p] = @ \/ LastTask(remaining[p])]
              /\ Do(p, x, Idle)
              /\ UNCHANGED <<runVars, slot, deps, left, held, diskVars,
                             outVars, chalVars, endVars>>

(* The reads a launch asks for: of no chunk that the cache holds.          *)
Reads(p, t, hit) ==
  [task : {t}, step : {0},
   kind : (IF WantPublic(t, 0) /\ ~hit THEN {"public"} ELSE {})
            \cup (IF WantPrivate(p, t, 0) THEN {"private"} ELSE {})]

(* launch_task and the first half of request: take the inputs' outputs,    *)
(* ask for a read unless the chunk is in the cache (an entry may also have *)
(* expired), and at the verifier draw and queue the challenge.  These are  *)
(* one step: each enqueue only enables a thread that goes through the      *)
(* slot.                                                                   *)
Uses(t, u) == Mult(t, u)
Launch(p, x) ==
  LET r == thr[p][x]
      t == r.task
      after == [u \in Tasks |-> left[p][u] - Uses(t, u)]
  IN  /\ r.pc = "launch"
      /\ IF \E u \in Tasks : Uses(t, u) > 0 /\ (u \notin held[p] \/ after[u] < 0)
         THEN Panic(p, x)
         ELSE /\ left' = [left EXCEPT ![p] = after]
              /\ held' = [held EXCEPT ![p] = {u \in @ : after[u] > 0 \/ Uses(t, u) = 0}]
              /\ \E hit \in {FALSE} \cup {Chunk[t] \in cached[p]} :
                    /\ reads' = [reads EXCEPT ![p] = @ \cup Reads(p, t, hit)]
                    /\ Do(p, x, [r EXCEPT !.pc = "getslot", !.step = 0, !.hit = hit,
                                          !.brings = "request"])
              /\ chalq' = IF p = "verifier" /\ WantChallenge(t, 0)
                          THEN Append(chalq, t) ELSE chalq
              /\ UNCHANGED <<runVars, slot, deps, remaining, noTasks, readsOpen,
                             cached, outVars, chalOpen, chalNet, endVars>>

Stop(p, x, open) ==      \* a queue that was closed ends its readers
  /\ thr[p][x].pc = "idle" /\ ~open
  /\ Do(p, x, [Idle EXCEPT !.pc = "done"])
  /\ UNCHANGED <<runVars, slot, graphVars, diskVars, outVars, chalVars, endVars>>

(* Mutant: the data of a task's last stage is submitted after its          *)
(* dependents were launched; an entry below zero of todo stands for it.    *)
Owes(t) == -1 - t
EndsUnsent(p, x) ==
  LET r == thr[p][x]
  IN  /\ r.pc = "send" /\ Finishes(p, r.task, r.step)
      /\ held' = [held EXCEPT ![p] = Kept(p, r.task)]
      /\ Do(p, x, [Idle EXCEPT !.pc = "todo", !.todo = DependentsOf[r.task] \o <<Owes(r.task)>>])
      /\ UNCHANGED <<runVars, slot, deps, left, remaining, noTasks, diskVars,
                     outVars, chalVars, endVars>>
SendsLast(p, x) ==
  LET r == thr[p][x]
  IN  /\ r.pc = "todo" /\ r.todo # <<>> /\ Head(r.todo) < 0 /\ Len(outq[p]) < OutCapacity
      /\ outq' = [outq EXCEPT ![p] = Queued(@, [task |-> Owes(Head(r.todo)), round |-> 0])]
      /\ Do(p, x, [r EXCEPT !.todo = Tail(@)])
      /\ UNCHANGED <<runVars, slot, graphVars, diskVars, outOpen, net, chalVars, endVars>>
RunnerStep_SendsLast(p, x) ==
  LET r == thr[p][x]
      owing == r.pc = "todo" /\ r.todo # <<>> /\ Head(r.todo) < 0
  IN  \/ TakeStage(p, x) \/ NextStage(p, x) \/ Finish(p, x) \/ EndsUnsent(p, x)
      \/ ~Finishes(p, r.task, r.step) /\ SendOutgoing(p, x)
      \/ SendsLast(p, x)
      \/ ~owing /\ NotifyDependent(p, x)
      \/ TaskDone(p, x) \/ Launch(p, x) \/ GetSlot(p, x) \/ UpdateSlot(p, x)
      \/ Stop(p, x, runOpen[p])

RunnerStep(p, x) ==
  \/ TakeStage(p, x) \/ SendOutgoing(p, x) \/ NextStage(p, x)
  \/ Finish(p, x) \/ NotifyDependent(p, x) \/ TaskDone(p, x)
  \/ Launch(p, x) \/ GetSlot(p, x) \/ UpdateSlot(p, x)
  \/ Stop(p, x, runOpen[p])

-----------------------------------------------------------------------------
(* The runner main thread *)

At(p, x, pc) == thr[p][x].pc = pc
Goto(p, x, pc) == Do(p, x, [Idle EXCEPT !.pc = pc])

MainNext(p) ==      \* launch the tasks that are ready initially
  LET r == thr[p][Main]
  IN  /\ r.pc = "todo" /\ r.todo # <<>>
      /\ Do(p, Main, [r EXCEPT !.pc = "launch", !.task = Head(r.todo),
                               !.todo = Tail(@)])
      /\ UNCHANGED <<runVars, slot, graphVars, diskVars, outVars, chalVars, endVars>>

MainWait(p) ==
  /\ At(p, Main, "todo") /\ thr[p][Main].todo = <<>> /\ noTasks[p]
  /\ Goto(p, Main, "closereads")
  /\ UNCHANGED <<runVars, slot, graphVars, diskVars, outVars, chalVars, endVars>>

(* close: each queue is closed under its own lock and loses its contents.  *)
CloseReads(p) ==
  /\ At(p, Main, "closereads")
  /\ Goto(p, Main, "closeout")
  /\ Lose(p, {<<"read", m.task, m.step>> : m \in reads[p]})
  /\ reads' = [reads EXCEPT ![p] = {}]
  /\ readsOpen' = [readsOpen EXCEPT ![p] = FALSE]
  /\ UNCHANGED <<runVars, slot, graphVars, cached, outVars, chalVars,
                 rootConn, panicked>>

CloseOutgoing(p) ==
  /\ At(p, Main, "closeout")
  /\ Goto(p, Main, IF p = "verifier" THEN "closechal" ELSE "closerun")
  /\ Lose(p, {<<"data", m.task, m.round>> : m \in ToSet(outq[p])})
  /\ outq' = [outq EXCEPT ![p] = <<>>]
  /\ outOpen' = [outOpen EXCEPT ![p] = FALSE]
  /\ UNCHANGED <<runVars, slot, graphVars, diskVars, net, chalVars,
                 rootConn, panicked>>

CloseChallenges ==
  /\ At("verifier", Main, "closechal")
  /\ Goto("verifier", Main, "closerun")
  /\ Lose("verifier", {<<"challenge", t, 0>> : t \in ToSet(chalq)})
  /\ chalq' = <<>>
  /\ chalOpen' = FALSE
  /\ UNCHANGED <<runVars, slot, graphVars, diskVars, outVars, chalNet,
                 rootConn, panicked>>

CloseRunQueue(p) ==
  /\ At(p, Main, "closerun")
  /\ Goto(p, Main, "finalize")
  /\ Lose(p, {<<"stage", e.task, e.step>> : e \in runQueue[p]})
  /\ runQueue' = [runQueue EXCEPT ![p] = {}]
  /\ runOpen' = [runOpen EXCEPT ![p] = FALSE]
  /\ UNCHANGED <<slot, graphVars, diskVars, outVars, chalVars, rootConn, panicked>>

(* finalize: the prover sends the last messages, the verifier checks them. *)
Finalize(p) ==
  /\ At(p, Main, "finalize")
  /\ p = "verifier" => rootConn
  /\ Goto(p, Main, "done")
  /\ rootConn' = TRUE
  /\ UNCHANGED <<runVars, slot, graphVars, diskVars, outVars, chalVars,
                 panicked, lost>>

MainStep(p) ==
  \/ MainNext(p) \/ Launch(p, Main) \/ GetSlot(p, Main) \/ UpdateSlot(p, Main)
  \/ MainWait(p) \/ CloseReads(p) \/ CloseOutgoing(p)
  \/ p = "verifier" /\ CloseChallenges
  \/ CloseRunQueue(p) \/ Finalize(p)

-----------------------------------------------------------------------------
(* Disk threads *)

TakeRead(p, x) ==
  /\ At(p, x, "idle")
  /\ \E m \in Best(reads[p]) :
        /\ reads' = [reads EXCEPT ![p] = @ \ {m}]
        /\ Do(p, x, [Idle EXCEPT !.pc = "read", !.task = m.task, !.brings = m.kind])
  /\ UNCHANGED <<runVars, slot, graphVars, readsOpen, cached, outVars,
                 chalVars, endVars>>

(* Public data goes through the cache.                                     *)
ReadChunk(p, x) ==
  LET r == thr[p][x]
  IN  /\ r.pc = "read"
      /\ cached' = IF r.brings = "public"
                   THEN [cached EXCEPT ![p] = @ \cup {Chunk[r.task]}] ELSE cached
      /\ Do(p, x, [r EXCEPT !.pc = "getslot"])
      /\ UNCHANGED <<runVars, slot, graphVars, reads, readsOpen, outVars,
                     chalVars, endVars>>

DiskStep(p, x) ==
  \/ TakeRead(p, x) \/ ReadChunk(p, x) \/ GetSlot(p, x) \/ UpdateSlot(p, x)
  \/ Stop(p, x, readsOpen[p])

-----------------------------------------------------------------------------
(* Network threads.  In their records, step is the message's round.        *)

(* Mutant: the entry is read but not removed.                              *)
Dequeued_Peek(q) == q
Dequeued(q) == Tail(q)
TakeOutgoing(p, x) ==
  /\ At(p, x, "idle") /\ outq[p] # <<>>
  /\ outq' = [outq EXCEPT ![p] = Dequeued(@)]
  /\ Do(p, x, [Idle EXCEPT !.pc = "write", !.task = Head(outq[p]).task,
                           !.step = Head(outq[p]).round])
  /\ UNCHANGED <<runVars, slot, graphVars, diskVars, outOpen, net, chalVars, endVars>>

WriteOutgoing(p, x) ==
  /\ At(p, x, "write")
  /\ net' = [net EXCEPT ![p][x[2]] = Append(@, [task |-> thr[p][x].task,
                                               round |-> thr[p][x].step])]
  /\ Do(p, x, Idle)
  /\ UNCHANGED <<runVars, slot, graphVars, diskVars, outq, outOpen, chalVars, endVars>>

OutStep(p, x) ==
  TakeOutgoing(p, x) \/ WriteOutgoing(p, x) \/ Stop(p, x, outOpen[p])

(* Incoming threads are daemons: nobody waits for them to end.             *)
ReadIncoming(p, x) ==
  LET from == net[Peer(p)][x[2]]
  IN  /\ At(p, x, "idle") /\ from # <<>>
      /\ net' = [net EXCEPT ![Peer(p)][x[2]] = Tail(from)]
      /\ Do(p, x, [Idle EXCEPT !.pc = "getslot", !.task = Head(from).task,
                               !.step = Head(from).round, !.brings = "incoming"])
      /\ UNCHANGED <<runVars, slot, graphVars, diskVars, outq, outOpen,
                     chalVars, endVars>>

InStep(p, x) == ReadIncoming(p, x) \/ GetSlot(p, x) \/ UpdateSlot(p, x)

(* The challenge threads: the verifier's writes, the prover's reads until  *)
(* the verifier's has dropped the connection.                              *)
SendChallenge ==
  /\ At("verifier", Chal, "idle") /\ chalq # <<>>
  /\ chalq' = Tail(chalq)
  /\ chalNet' = Append(chalNet, Head(chalq))
  /\ UNCHANGED <<thr, runVars, slot, graphVars, diskVars, outVars, chalOpen, endVars>>

ReadChallenge ==
  /\ At("prover", Chal, "idle") /\ chalNet # <<>>
  /\ chalNet' = Tail(chalNet)
  /\ Do("prover", Chal, [Idle EXCEPT !.pc = "getslot", !.task = Head(chalNet),
                                     !.brings = "challenge"])
  /\ UNCHANGED <<runVars, slot, graphVars, diskVars, outVars, chalq, chalOpen, endVars>>

ChalStep(p) ==
  \/ p = "verifier" /\ SendChallenge
  \/ p = "prover" /\ ReadChallenge
  \/ GetSlot(p, Chal) \/ UpdateSlot(p, Chal)
  \/ Stop(p, Chal, IF p = "verifier" THEN chalOpen
                   ELSE ~At("verifier", Chal, "done") \/ chalNet # <<>>)

-----------------------------------------------------------------------------
Init ==
  /\ thr = [p \in Parties |-> [x \in Threads(p) |->
              IF x = Main
              THEN [Idle EXCEPT !.pc = "todo", !.todo = LaunchOrder]
              ELSE Idle]]
  /\ runQueue = [p \in Parties |-> {}]
  /\ runOpen = [p \in Parties |-> TRUE]
  /\ slot = [p \in Parties |-> [t \in Tasks |-> NoSlot(0)]]
  /\ deps = [p \in Parties |-> [t \in Tasks |-> Len(Inputs[t])]]
  /\ left = [p \in Parties |-> [t \in Tasks |-> Len(DependentsOf[t])]]
  /\ held = [p \in Parties |-> {}]
  /\ remaining = [p \in Parties |-> NumTasks]
  /\ noTasks = [p \in Parties |-> FALSE]
  /\ reads = [p \in Parties |-> {}]
  /\ readsOpen = [p \in Parties |-> TRUE]
  /\ cached = [p \in Parties |-> {}]
  /\ outq = [p \in Parties |-> <<>>]
  /\ outOpen = [p \in Parties |-> TRUE]
  /\ net = [p \in Parties |-> [c \in 1 .. NumConns |-> <<>>]]
  /\ chalq = <<>> /\ chalOpen = TRUE /\ chalNet = <<>>
  /\ rootConn = FALSE
  /\ panicked = [p \in Parties |-> FALSE]
  /\ lost = [p \in Parties |-> {}]

ThreadStep(p, x) ==
  \/ x \in Runners(p) /\ RunnerStep(p, x)
  \/ x = Main /\ MainStep(p)
  \/ x \in Disks /\ DiskStep(p, x)
  \/ x \in Outs /\ OutStep(p, x)
  \/ x \in Ins /\ InStep(p, x)
  \/ x = Chal /\ ChalStep(p)

Next ==
  \E p \in Parties :
     \/ \E x \in Runners(p) : RunnerStep(p, x)
     \/ MainStep(p)
     \/ \E x \in Disks : DiskStep(p, x)
     \/ \E x \in Outs : OutStep(p, x)
     \/ \E x \in Ins : InStep(p, x)
     \/ ChalStep(p)

(* The operating system runs every thread that can run, and TCP delivers.  *)
Fairness == \A p \in Parties : \A x \in Threads(p) : WF_vars(ThreadStep(p, x))

Spec == Init /\ [][Next]_vars /\ Fairness
=============================================================================
