--------------------------- MODULE RunnerInvariant ---------------------------
(***************************************************************************)
(* The inductive invariant of Runner.  It speaks of six auxiliary          *)
(* functions that say where things are: how far each party has come with   *)
(* each task and where the task's stage is, and where its message, its     *)
(* challenge and the data it reads from disk are.  They are no variables:  *)
(* the invariant says that such functions exist, and every step shows the  *)
(* next ones.                                                              *)
(***************************************************************************)
EXTENDS RunnerProperties

(* prog[p][t]: 0 before t is launched, 1 while its inputs are taken; then  *)
(* 3s + 2 while stage s waits for its data, 3s + 3 until it has sent,      *)
(* 3s + 4 until its code has returned; Done(p, t) after its last stage.    *)
Done(p, t) == 3 * ExpectedSteps(p, t) + 2

(* Where a stage, a message or a read can be. *)
OnThread(x) == <<"thread", x>>
InRunQueue(e) == <<"stage", e>>
InSlot == <<"slot", 0>>
InQueue == <<"queue", 0>>
OnNet(c) == <<"net", c>>
FromCache == <<"cache", 0>>

Requests(p, x) == thr[p][x].pc \in {"getslot", "update"} /\ thr[p][x].brings = "request"
Brings(p, x, what) == thr[p][x].pc \in {"read", "getslot", "update"} /\ thr[p][x].brings = what

-----------------------------------------------------------------------------
(* Types *)

Working == {"read", "write", "launch", "getslot", "update", "send", "blocked", "result"}
Resting == {"idle", "todo", "closereads", "closeout", "closechal", "closerun", "finalize", "done"}
Cargo == {"nothing", "request", "incoming", "challenge", "public", "private"}
Records == [pc : Working \cup Resting, task : Nat, step : Nat, todo : Seq(Tasks),
            ref : Nat, brings : Cargo, hit : BOOLEAN]
Slots == [no : Nat, present : BOOLEAN, req : Nat \cup {-1}, chal : BOOLEAN,
          inc : Nat \cup {-1}, pub : BOOLEAN, priv : BOOLEAN]
ReadRequests == [task : Tasks, step : {0}, kind : {"public", "private"}]

ThreadTypes ==
  /\ DOMAIN thr = Parties
  /\ \A p \in Parties :
       /\ DOMAIN thr[p] = Threads(p)
       /\ \A x \in Threads(p) :
            /\ thr[p][x] \in Records
            /\ thr[p][x].pc \in Working => thr[p][x].task \in Tasks

SharedTypes ==
  /\ runQueue \in [Parties -> SUBSET Stages]
  /\ runOpen \in [Parties -> BOOLEAN]
  /\ slot \in [Parties -> [Tasks -> Slots]]
  /\ deps \in [Parties -> [Tasks -> Nat]]
  /\ left \in [Parties -> [Tasks -> Int]]
  /\ held \in [Parties -> SUBSET Tasks]
  /\ remaining \in [Parties -> Nat]
  /\ noTasks \in [Parties -> BOOLEAN]
  /\ reads \in [Parties -> SUBSET ReadRequests]
  /\ readsOpen \in [Parties -> BOOLEAN]
  /\ DOMAIN cached = Parties
  /\ outq \in [Parties -> Seq(Messages)]
  /\ \A p \in Parties : Len(outq[p]) <= OutCapacity
  /\ outOpen \in [Parties -> BOOLEAN]
  /\ net \in [Parties -> [1 .. NumConns -> Seq(Messages)]]
  /\ chalq \in Seq(Tasks)
  /\ chalNet \in Seq(Tasks)
  /\ panicked \in [Parties -> BOOLEAN]

(* What each kind of thread does. *)
RunShape(r) ==
  /\ r.pc \in {"idle", "send", "blocked", "result", "getslot", "update", "todo", "launch", "done"}
  /\ r.pc \in {"getslot", "update"} => r.brings = "request"
  /\ \/ r.pc \in {"idle", "send", "blocked", "result", "done"}
     \/ r.pc \in {"getslot", "update"} /\ r.step > 0
     => r.todo = <<>> /\ ~r.hit
MainShape(r) ==
  /\ r.pc \in {"todo", "launch", "getslot", "update", "closereads", "closeout",
               "closechal", "closerun", "finalize", "done"}
  /\ r.pc \in {"getslot", "update"} => r.brings = "request" /\ r.step = 0
  /\ r.pc \notin {"todo", "launch", "getslot", "update"} => r.todo = <<>>
DiskShape(r) ==
  /\ r.pc \in {"idle", "read", "getslot", "update", "done"}
  /\ r.pc \in {"read", "getslot", "update"} => r.brings \in {"public", "private"}
OutShape(r) == r.pc \in {"idle", "write", "done"}
InShape(r) == /\ r.pc \in {"idle", "getslot", "update"}
              /\ r.pc \in {"getslot", "update"} => r.brings = "incoming"
ChalShape(p, r) ==
  /\ r.pc \in {"idle", "getslot", "update", "done"}
  /\ r.pc \in {"getslot", "update"} => r.brings = "challenge" /\ p = "prover"

Shape(p, x, r) ==
  /\ x[1] = "run" => RunShape(r)
  /\ x[1] = "main" => MainShape(r)
  /\ x[1] = "disk" => DiskShape(r)
  /\ x[1] = "out" => OutShape(r)
  /\ x[1] = "in" => InShape(r)
  /\ x[1] = "chal" => ChalShape(p, r)
Shapes == \A p \in Parties : \A x \in Threads(p) : Shape(p, x, thr[p][x])

-----------------------------------------------------------------------------
(* Stages *)

(* A stage is in one place, which says how far its task has come.          *)
Stands(prog, place, p, t, v, where) ==
  prog[p][t] = v /\ v < Done(p, t) /\ place[p][t] = where

(* What the record r of thread x says of the stage it holds.               *)
StageAt(prog, place, p, x, r) ==
  LET Has(v) == Stands(prog, place, p, r.task, v, OnThread(x))
  IN  /\ r.pc = "launch" => Has(1)
      /\ r.pc \in {"getslot", "update"} /\ r.brings = "request" => Has(3 * r.step + 2)
      /\ r.pc \in {"send", "blocked"} =>
           Has(3 * r.step + 3) /\ Outgoing(p, r.task, r.step)
      /\ r.pc = "result" => Has(3 * r.step + 4)

Launched(prog, place) ==
  \A p \in Parties :
    /\ \A x \in Threads(p) : StageAt(prog, place, p, x, thr[p][x])
    /\ \A e \in runQueue[p] :
         /\ Stands(prog, place, p, e.task, 3 * e.step + 3, InRunQueue(e))
         /\ e.got = IF WantIncoming(p, e.task, e.step) THEN RoundFor(p, e.task, e.step) ELSE -1
    /\ \A t \in Tasks : slot[p][t].req >= 0 =>
         Stands(prog, place, p, t, 3 * slot[p][t].req + 2, InSlot)

(* And a task that was launched and has not ended has a stage somewhere.   *)
InTodo(p, t) == \E i \in DOMAIN thr[p][Main].todo : thr[p][Main].todo[i] = t
Conserved(prog) ==
  \A p \in Parties : \A t \in Tasks :
    /\ prog[p][t] \in 0 .. Done(p, t)
    /\ prog[p][t] # 0 /\ prog[p][t] < Done(p, t) =>
         \/ \E x \in Threads(p) : Carries(p, x, t)
         \/ \E e \in runQueue[p] : e.task = t
         \/ slot[p][t].req >= 0
    /\ prog[p][t] = 0 <=> deps[p][t] > 0 \/ InTodo(p, t)

-----------------------------------------------------------------------------
(* Counts *)

Waiting(prog, p, t) ==      \* inputs of t that are not finished
  {i \in DOMAIN Inputs[t] : prog[p][Inputs[t][i]] < Done(p, Inputs[t][i])}

(* Where t stands in a list of dependents, counted from its end.           *)
Occurs(s, t) == {j \in 1 .. Len(s) : s[Len(s) + 1 - j] = t}
Pending(p, t) ==            \* finished inputs of t still to be told
  {xj \in Runners(p) \X Nat : xj[2] \in Occurs(thr[p][xj[1]].todo, t)}

Untaken(prog, p, u) ==      \* uses of u by tasks that have not taken their inputs
  {ti \in UsesOf(u) : prog[p][ti[1]] <= 1}

Counts(prog) ==
  \A p \in Parties :
    /\ \A t \in Tasks :
         /\ IsFiniteSet(Pending(p, t))
         /\ deps[p][t] = Cardinality(Waiting(prog, p, t)) + Cardinality(Pending(p, t))
         /\ deps[p][t] <= Len(Inputs[t])
         /\ left[p][t] = Cardinality(Untaken(prog, p, t))
         /\ t \in held[p] <=> prog[p][t] = Done(p, t) /\ left[p][t] > 0
    /\ remaining[p] = Cardinality({t \in Tasks : prog[p][t] < Done(p, t)})
                        + Cardinality({x \in Runners(p) : Notifying(p, x)})
    /\ \A i \in DOMAIN thr[p][Main].todo :
         /\ Inputs[thr[p][Main].todo[i]] = <<>>
         /\ \A j \in DOMAIN thr[p][Main].todo :
              thr[p][Main].todo[i] = thr[p][Main].todo[j] => i = j

Closing ==
  \A p \in Parties :
    /\ noTasks[p] => remaining[p] = 0
    /\ thr[p][Main].pc \in {"closereads", "closeout", "closechal", "closerun",
                            "finalize", "done"} => noTasks[p]
    /\ ~runOpen[p] => noTasks[p]

-----------------------------------------------------------------------------
(* Slots *)

Blank(s) == s.req = -1 /\ ~s.chal /\ s.inc = -1 /\ ~s.pub /\ ~s.priv

SlotTable ==
  \A p \in Parties :
    /\ \A x \in Threads(p) : thr[p][x].pc = "update" =>
         /\ slot[p][thr[p][x].task].present
         /\ thr[p][x].ref = slot[p][thr[p][x].task].no
    /\ \A t \in Tasks :
         /\ ~slot[p][t].present => Blank(slot[p][t])
         /\ slot[p][t].present /\ Blank(slot[p][t]) =>
              \E x \in Threads(p) : thr[p][x].pc = "update" /\ thr[p][x].task = t

(* Public data: asked for, being read, delivered or found in the cache.    *)
PublicAt(prog, pub, p, t, where) ==
  Chunk[t] # NoChunk /\ prog[p][t] = 2 /\ pub[p][t] = where

PublicData(prog, pub) ==
  \A p \in Parties :
    /\ NoChunk \notin cached[p]
    /\ \A m \in reads[p] : m.kind = "public" => PublicAt(prog, pub, p, m.task, InQueue)
    /\ \A x \in Threads(p) :
         /\ Brings(p, x, "public") => PublicAt(prog, pub, p, thr[p][x].task, OnThread(x))
         /\ Requests(p, x) /\ thr[p][x].hit =>
              PublicAt(prog, pub, p, thr[p][x].task, FromCache)
    /\ \A t \in Tasks : slot[p][t].pub => PublicAt(prog, pub, p, t, InSlot)

PrivateAt(prog, priv, p, t, where) ==
  p = "prover" /\ t \in Private /\ prog[p][t] = 2 /\ priv[p][t] = where

PrivateData(prog, priv) ==
  \A p \in Parties :
    /\ \A m \in reads[p] : m.kind = "private" => PrivateAt(prog, priv, p, m.task, InQueue)
    /\ \A x \in Threads(p) :
         Brings(p, x, "private") => PrivateAt(prog, priv, p, thr[p][x].task, OnThread(x))
    /\ \A t \in Tasks : slot[p][t].priv => PrivateAt(prog, priv, p, t, InSlot)

NoTwice(s) == \A i, j \in DOMAIN s : s[i] = s[j] => i = j

(* A challenge: drawn by the verifier's launch of the task and due at the  *)
(* prover's request of its first stage.                                    *)
ChallengeAt(prog, chal, t, where) ==
  /\ t \in Challenge /\ chal[t] = where
  /\ prog["prover"][t] <= 2 /\ prog["verifier"][t] >= 2

Challenges(prog, chal) ==
  /\ NoTwice(chalq) /\ NoTwice(chalNet)
  /\ \A i \in DOMAIN chalq : ChallengeAt(prog, chal, chalq[i], InQueue)
  /\ \A i \in DOMAIN chalNet : ChallengeAt(prog, chal, chalNet[i], OnNet(0))
  /\ Brings("prover", Chal, "challenge") =>
       ChallengeAt(prog, chal, thr["prover"][Chal].task, OnThread(Chal))
  /\ \A t \in Tasks :
       /\ slot["prover"][t].chal => ChallengeAt(prog, chal, t, InSlot)
       /\ slot["verifier"][t].chal => t \in Challenge /\ slot["verifier"][t].req = 0
       /\ t \in Challenge /\ prog["prover"][t] >= 3 => prog["verifier"][t] >= 2

-----------------------------------------------------------------------------
(* Messages *)

(* The stage of the receiver that a message of round k is for.             *)
StageFor(q, t, k) == IF IsA(q, t) THEN k + 1 ELSE k

(* A message under way has been sent, and the stage it is for has not      *)
(* started.                                                                *)
UnderWay(prog, msg, p, t, k, where) ==
  /\ Outgoing(p, t, k) /\ msg[p][t] = where
  /\ prog[p][t] >= 3 * k + 4
  /\ prog[Peer(p)][t] < 3 * StageFor(Peer(p), t, k) + 3

Flights(prog, msg) ==
  \A p \in Parties :
    /\ \A i \in DOMAIN outq[p] :
         /\ UnderWay(prog, msg, p, outq[p][i].task, outq[p][i].round, InQueue)
         /\ \A j \in DOMAIN outq[p] : outq[p][i].task = outq[p][j].task => i = j
    /\ \A x \in Outs : thr[p][x].pc = "write" =>
         UnderWay(prog, msg, p, thr[p][x].task, thr[p][x].step, OnThread(x))
    /\ \A c \in 1 .. NumConns : \A i \in DOMAIN net[p][c] :
         /\ UnderWay(prog, msg, p, net[p][c][i].task, net[p][c][i].round, OnNet(c))
         /\ \A j \in DOMAIN net[p][c] : net[p][c][i].task = net[p][c][j].task => i = j
    /\ \A x \in Ins : thr[Peer(p)][x].pc \in {"getslot", "update"} =>
         UnderWay(prog, msg, p, thr[Peer(p)][x].task, thr[Peer(p)][x].step, OnThread(x))
    /\ \A t \in Tasks : slot[Peer(p)][t].inc >= 0 =>
         UnderWay(prog, msg, p, t, slot[Peer(p)][t].inc, InSlot)

(* A stage that needed a message has started only after the peer sent it.  *)
Causal(prog) ==
  \A p \in Parties : \A t \in Tasks : \A s \in 0 .. ExpectedSteps(p, t) - 1 :
    Incoming(p, t, s) /\ prog[p][t] >= 3 * s + 3 =>
      prog[Peer(p)][t] >= 3 * RoundFor(p, t, s) + 4

-----------------------------------------------------------------------------
Types == ThreadTypes /\ SharedTypes /\ Shapes
Graph(prog, place) == Launched(prog, place) /\ Conserved(prog) /\ Counts(prog) /\ Closing
Data(prog, msg, pub, priv, chal) ==
  /\ SlotTable /\ PublicData(prog, pub) /\ PrivateData(prog, priv)
  /\ Challenges(prog, chal) /\ Flights(prog, msg) /\ Causal(prog)

Inv(prog, place, msg, pub, priv, chal) ==
  Types /\ NoPanic /\ Graph(prog, place) /\ Data(prog, msg, pub, priv, chal)
=============================================================================
