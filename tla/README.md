# TLA+ development for swanky / mac-n-cheese / diet Mac'n'Cheese

## 1. The system

The repository is the swanky workspace of secure-computation crates plus the additions of the
edaBit paper.  Most of its lines are arithmetic (finite fields, SIMD, garbling, OT, VOLE).  The
parts whose correctness is a matter of *order* (threads, queues, reference counts, two parties
exchanging messages, allocation of wires) are these.

### mac-n-cheese: a two-party multi-threaded task-graph executor (`src/mac-n-cheese/`)

| component | state | operations | hard part |
|---|---|---|---|
| `runner/src/bounded_queue.rs` `Queue` | `contents: Mutex<Option<VecDeque>>`, two condition variables, a bound | `enqueue`, `dequeue`, `close` | wakeups, close while others wait, the bound |
| `runner/src/task_queue.rs` `TaskQueue` | `queue: Mutex<Option<BinaryHeap>>`, one condition variable | `enqueue`, `blocking_dequeue`, `close` | wakeups, priority order, close |
| `runner/src/runner/limited_use_arcs.rs` | per task: an atomic use count and a swappable `Arc` | `insert`, `take_one` | lock-free: a last user frees while another loads |
| `runner/src/runner.rs` | run queue, remaining dependencies, remaining tasks, outputs, per-entry step number | `launch_task`, `step_task`, `run`, `run_proof_background` | tasks migrate between threads; a stage per round; shutdown |
| `runner/src/reactor/thread_pool_backend.rs` | incoming slots, read requests, outgoing data, outgoing challenges, disk cache | `request`, `send_outgoing`, `update_incoming_slot`, the four kinds of thread, `close` | answers that arrive before the question, two steps of one task in one slot table, closing queues that still hold data |
| `runner/src/thread_spawner.rs` | `Option<usize>` and a condition variable | `spawn`, `spawn_daemon`, `wait_on_threads` | a failing thread among finishing ones |
| `runner/src/{keys,tls,alloc,event_log,main,base_vole}.rs`, `task_definitions/` | keys, buffers, pools, MACs | encryption, handshake, allocation, the work of each task kind | mostly arithmetic and I/O |
| `ir/src/circuit_builder.rs` | the tasks so far: dependencies, dependents, priorities, rounds | `prover_sends`, `verifier_sends`, `instantiate`, `finish` | priorities and counts the runner relies on |
| `wire-map`, `compiler`, `sieve-parser`, `event-log`, `inspector`, `vole`, `party` | wire allocations, compiler graphs, log chunks | compilation of SIEVE circuits to task graphs | reuse of wires, splitting of ranges |

### diet Mac'n'Cheese (`src/diet-mac-and-cheese/`)

VOLE-ZK backends in which both parties keep pools of correlations that must be consumed in
lockstep: `homcom.rs`, `mac.rs`, `svole_*`, `edabits.rs` (cut-and-choose of edaBits),
`mpc_*.rs` (bidirectional edaBits: both roles interleaved on one channel),
`backend*.rs` (QuickSilver state, batched conversion checks), `memory.rs`, `plaintext.rs`,
`circuit_ir.rs`, `sieveir_reader_*` (evaluation of SIEVE relations).

| component | state | operations | hard part |
|---|---|---|---|
| `homcom.rs` | per party and field: a pool of correlations, refilled by an extension that itself talks to the peer | `input`, `open`, `check_zero`, `quicksilver_*`, `random` | prover and verifier must draw equally often, and at the same place between messages |
| `mpc_edabits.rs`, `mpc_edabits_common.rs` | two commitments per direction on one buffered channel | `random_edabits`, `combine_private_into_global_edabits`, `open_shared_*_batch` | both peers are prover and verifier at once; a read before the own flush deadlocks |
| `memory.rs` `Memory` | a stack of frames, each a vector or a pool with a one-entry cache; raw pointers into callers | `get`, `set`, `allocation_*`, `push_frame`, `allocate_slice`, `pop_frame` | a stale cache or pointer; a frame reused after a tick |
| `wire-map` `WireMap` (mac-n-cheese) | an ordered table of allocations and a small cache of them with ages | `get`, `set`, `alloc`, `free`, `borrow_child` | an allocation lives in the table or in the cache; lent parts alias |
| `ocelot/cbits/transpose.c`, `fancy-garbling` `wire.rs`, `util.rs`, `base_conversion` | none | bit transposition, blocks as base-q digits | remainders of a blocked loop, carries over short rows, widths |

### The rest of swanky

`keyed_arena` (a checked arena), `scuttlebutt` (channels, commitments, fields), `ocelot` (OT,
OPRF, svole), `popsicle` (PSI, cuckoo hashing), `fancy-garbling`, `humidor`, `inferno`,
`simple-arith-circuit`, `vectoreyes`, `zkv`, `swanky-flatbuffer-build`, `etc`, `scripts`.

## 2. How the parts interact

A compiler calls `CircuitBuilder` and gets a manifest: tasks in topological order, prototypes with
the rounds of messages they exchange, dependency and dependent counts, priorities.  Prover and
verifier each load it and start one process.  In a process

- *runner threads* take task stages from the run queue (`TaskQueue`), run the task's code for one
  step, hand its message to the reactor (`send_outgoing`, a `bounded_queue::Queue`), and either ask
  for the data of the next step or insert the output (`LimitedUseArcs`), count down the dependents'
  dependencies and launch those that reach zero;
- the *reactor* collects what a stage waits for (the peer's message, a chunk from disk, private
  data, a challenge) in the slot of its task; whoever brings the last piece, the request included,
  moves the stage to the run queue;
- *outgoing* and *incoming* threads, one of each per connection, *disk* threads and the *challenge*
  thread feed the slots;
- the *main thread* launches the tasks without inputs, waits until no task remains, closes the
  queues and finalizes; `ThreadSpawner` waits for all of them.

The hard part is that one task migrates between threads and parties, that answers may precede the
questions, and that each party decides alone when it is done.

## 3. Modules

| module | models | composed of |
|---|---|---|
| `QueueContract` | what `bounded_queue::Queue` promises: FIFO, exactly once, delivery unless closed | |
| `BoundedQueue` | `bounded_queue.rs`, one step per critical section, condition variables included | implements `QueueContract` |
| `TaskQueue` | `task_queue.rs`, the same, with the order of the heap | |
| `CountedOutputs` | what the runner expects of `LimitedUseArcs`: atomic insert and take | |
| `LimitedUseArcs` | `limited_use_arcs.rs`, one step per atomic operation | implements `CountedOutputs` |
| `ThreadSpawner` | `thread_spawner.rs` | |
| `CircuitBuilder` | `circuit_builder.rs`: prototypes, rounds, dependents, priorities | checked against `Manifest` |
| `Manifest` | a compiled circuit as constants, and what the runner derives from it (`CommunicatonSizes::of`, the expected number of steps, what a request wants) | |
| `Runner` | both parties: `runner.rs`, `reactor.rs`, `thread_pool_backend.rs`, and the sockets | `Manifest`, and the queues and the output table at the level of their contracts |
| `RunnerProperties` | properties of `Runner` | |
| `RunnerInvariant` | the inductive invariant of `Runner`, over six functions that say where a task, a message, a chunk, a piece of private data and a challenge is | `RunnerProperties` |
| `RunnerLemmas` | facts about manifests, uses, stages and places, and that each action but `UpdateSlot` keeps the invariant | `RunnerInvariant` |
| `RunnerProofs` | that `UpdateSlot` keeps it, and the theorems about `Runner` | `RunnerLemmas` |
| `EdabitPrograms` | `mpc_edabits*.rs`, `edabits.rs`, `homcom.rs` and the sVOLE extension: the sequence of draws, writes, reads and flushes of each peer | |
| `PeerExchange` | two peers executing these sequences over buffered writers and sockets, with pools | `EdabitPrograms` |
| `EdabitCombine` | the values of `combine_private_into_global_edabits`: the adder over shared bits, the dabit, the correction | |
| `WireMapContract` | what a wire map promises: no cache, no table | |
| `WireMap` | `wire-map/src/lib.rs`: table, cache with ages, free, `borrow_child` | implements `WireMapContract` |
| `FrameMemory` | `memory.rs` and `evaluate_call_gate` | |
| `BitTranspose` | `transpose.c` as the bytes it writes | |
| `BaseDigits` | the lookup tables, `base_q_add_eq`, `_from_block_lookup`, `_unrank`, powers of two | |
| `SequentialProofs` | theorems about `EdabitCombine`, `CircuitBuilder` and `FrameMemory` | all three |
| other `…Proofs` | theorems about the module of that name | |
| `MCSequential` | the sequential parts side by side: a behaviour picks one | `EdabitCombine`, `WireMap`, `FrameMemory`, `CircuitBuilder`, `BitTranspose`, `BaseDigits` |
| other `MC…` | instances for TLC | |

State and actions follow the code's names.  `pc` and the `pc` field of `thr` say where a thread is;
fields marked *history* do not exist in the code.  In `Runner` a thread's record also carries the
task and step it works on, the dependents it has still to notify (`todo`) and the slot object it
holds (`ref`).

Decisions a reader should know.  The runner:

- **Granularity.** A step is one access to shared state.  The detailed queue modules justify taking
  `enqueue` and `dequeue` as single steps in `Runner`; `SendOutgoing` keeps the one visible
  difference, a sender that finds the queue full sleeps until close.
- **`Launch` is one step** up to the slot: taking the inputs, asking the cache, enqueueing reads and
  the challenge.  Each enqueue only enables another thread, whose first effect on anything the
  launching thread still looks at is in the task's slot, and that is a separate step (`GetSlot`,
  `UpdateSlot`).
- **`UpdateSlot` is one step** because the code holds the slot's lock from the check "task was not
  already launched" to the enqueue on the run queue.  Looking the slot up is a step before it, so
  that a thread may hold an object that has been launched in between.
- **Debug assertions** of the reactor are modelled as panics, although a release build omits them:
  `NoPanic` shows they hold.
- **A panic ends the process** (`main.rs` installs the hook), so threads that would have to go on
  after one are not modelled; `Fail` in `ThreadSpawner` is an `Err` return.
- **Memory order.** All steps are sequentially consistent.  The relaxed and release operations of
  `limited_use_arcs.rs` and `runner.rs` are ordered by the mutexes on the way from an insertion to a
  launch; weaker orders are outside the model.
- **The disk cache** may forget an entry (it expires after 2.5 s), so a launch may miss a chunk that
  was read; it never finds one that was not.
- **Data** of messages, challenges and outputs is left out; which message of which round meets which
  stage is not.
- The size check of `step_task` is an equality of lengths; here it is whether there is data at all.
- `NeedsCommunication` is returned exactly while the peer has something more to say.  The task kinds
  do this; a kind that did not would hit the assertions of lines 307 and 326 of `runner.rs`, which
  are in the model.

The edaBits:

- **Programs.** Apart from the pools, what a peer does on its channel does not depend on what it
  reads, so each function is the sequence its body executes and a peer is a list of operations.  A
  message is a triple: the commitment it is about (its prover and its field), what it carries, how
  many items; reading one for another is `NoMisread`'s failure.  The check that fails is the caller's
  end and is not modelled: honest peers never fail one.
- **Pools.** A draw on an empty pool runs the extension of `svole.rs` before it is tried again; how
  much the pools hold at the start is chosen per commitment, so the extension falls between any two
  messages.  The extension's own base correlations (`voles_reserve`, `PeerFieldMacs::init`) come
  before the program.
- **Buffers.** A `BufWriter` of one message flushes at every write that follows another, one of
  twenty never before a `flush`; real sizes are between.
- **Constants.** `FDABIT_SECURITY_PARAMETER` (38) is `Security`, the degree of the extension field
  with 40 bits is `Degree.f2`.
- **`EdabitCombine`** takes triples, dabits and private edaBits as consistent, which is what the
  checks before it establish, and the field as the integers: only ring operations occur.

The rest:

- **`WireMap`** ages are saturated at `AgeLimit` as in the code and numbers wrap at `Top + 1` as in a
  release build.  The four lanes of SIMD are as many lanes as the constant says.  Callers use wires
  up to `LastUsed`, below the greatest, where `free` is exact.
- **`FrameMemory`** treats a raw pointer as a place in the stack of frames; reading a place whose frame
  is gone, or was never written, yields `Undefined`.  The model calls only with inputs that are
  assigned, with outputs the caller has allocated where it wants to pass them on, and with no wire
  as an output twice (`FrameAssumption`), as circuits assign a wire once.
- **`BitTranspose`** is the map from output bytes to the bits gathered in them, the order of the
  writes kept: a later one wins.
- **`BaseDigits`** states a table by what its rows are (`Digit` is `as_mixed_radix` of `util.rs` in one
  base).  Every one of the 1,744 tables of
  `lookup_tables.c`, all 256 rows of each, was compared with this statement outside TLC; the only
  thing to note is that for q = 11 the top row is one digit shorter than the whole sum needs, which
  the truncation to `digits_per_u128` hides.

## 4. What is checked

States are distinct states of the passing runs.

| run | instance | states | shows |
|---|---|---|---|
| `bounded_queue` | 2 producers, 2 consumers, bound 2, 4 calls | 10,830 | `ContractSpec`: the code implements `QueueContract`; `TypeOK`, `NoLostWakeup`, `CloseReleasesAll` |
| `task_queue` | 2 workers, 4 entries with ties | 3,949 | `HandedOutOnce`, `NoLostWakeup`, `BestFirst`, `EveryEntryHandedOut`, `CloseEndsWorkers` |
| `limited_use_arcs` | 3 threads; 3, 1 and 0 uses | 1,393 | `NoPanic`, `FreedByLastUse`, and `CountedSpec`: implements `CountedOutputs` |
| `thread_spawner` | 3 threads, 2 daemons | 2,283 | `CountExact`, `VerdictRight`, `WaitEnds` |
| `runner_chain` | 3 tasks in a chain, 3 + 2 + 0 messages; in the first a request wants a challenge, a message, a chunk and private data; 2 disk threads, 1 connection | 74,557 | `TypeOK`, `RightRound`, `Lockstep`, and `TerminatesUnlessDiscarded` with every order of the answers |
| `runner_fork` | 2 ready tasks, one that needs both, one of them twice, and one that needs two of them and a challenge; 2 prover runner threads, 2 connections; bound 1 | 292,559 | `NoPanic` and `StageConserved` with concurrent finishers, `DependenciesFirst`, `SentInOrder`, `CommittedBeforeChallenge`, `QuietAtClose` |
| `peer_exchange` | one edaBit of two bits, two buckets, one opened; both policies; buffers of 1 or 20 messages; every start of the pools | 289,432 | `NoMisread`, `SameCorrelations`, `CommittedBeforeChallenge`, `Terminates` |
| `sequential` | see below | 516,743 | `CarryExact`, `Consistent`; `WiresKeepContract`; `ReadsLastWrite`, `CallsSucceed`; `CountsMatch`, `RoundsMatch`, `WritesManifest`, `RanksBelowDependents`; `TransposesExactly`; `DigitsExact` |

`sequential` is one run over parts that have nothing to do with each other, to be read as six:
edaBits of two bits with every sharing and triple and three masks; a wire map of four wires and two
lanes with one child; three frames of three wires; circuits of up to 3 tasks over 2 prototypes with
up to 3 messages; matrices of 16, 24, 32 and 40 rows by 8 to 40 columns; blocks of two
nibbles in eleven moduli.  Its `VIEW` leaves out the outcome of the last operation of the wire map,
which no step reads; the contract is checked on every step, outcome included.

Each property of these runs has a mutant of the model, a plausible bug of the code, that breaks it
under the same configuration; the mutants stand before the definitions they replace.

Bounds and why they are enough:

- *Queues.* Two threads on each side are the least for a wakeup to reach the wrong thread; with four
  calls and a bound of two the queue is filled, drained and refilled.  The theorems remove the bounds.
- *Outputs.* Three threads cover a last user, another user and an inserter; an output without uses
  is the special case of `insert`.  The theorems remove the bounds.
- *Circuit builder.* With three tasks a task can have a dependent twice, two dependents of different
  priority, and a dependent of a dependent; three messages give an open and a completed round.  The
  theorems remove these bounds, for the manifest too.  (The specification is called `BuilderSpec`
  because `MCSequential` extends this module beside `EdabitCombine`.)
- *Runner.* The fork begins with the smallest graph in which two threads finish inputs of one task together;
  the chain has a transitive and a repeated input; two and three messages give every shape of round:
  opened and not completed, completed, followed by another.  In the fork data could also overtake in
  the queue: the end of a task that has just sent launches, on another thread, one that sends at once; the
  challenge is wanted by a fourth task, since one for the third would make it wait for that very data.  A second runner thread matters only
  when two stages are ready at once, a second disk thread only when two reads are.  Each instance
  keeps one of these dimensions large: all of them at once are beyond the time of a run.  The theorems
  remove the bounds for every invariant.
- *Peers.* One edaBit of two bits has a first and a last carry; two buckets with one opened have an
  opened and a combined edaBit.  More of either repeats sequences that occur.  A fetch of six is less
  than a program draws, so each pool runs dry several times, at places that shift with the start.
  One message in a socket is the least that lets two peers block each other; more room only
  removes waiting.  For the three invariants the theorems remove all of these bounds.
- *Wire map.* Two lanes evict as soon as a third allocation is touched; three used wires hold
  allocations that adjoin, contain a range, and are spanned by one; the ages saturate at one.
- *Frames.* Three frames are a callee of a callee; a limit of three ticks throws a frame away while
  its callers live; two pools and a single wire give cache hits, misses and evictions.  For both
  invariants the theorems remove all of these bounds.
- *Transposition, digits.* The shapes have every remainder modulo 16 of both sides and one or more
  whole blocks; two bytes of four bits give a first row and one that is added, with carries that
  run past it in every modulus chosen.
- *Widths.* Counters (`num_tasks_remaining`, `GraphDegreeCount`, use counts) are unbounded naturals:
  the builder converts with checks that panic, and none of them is incremented at run time.

**Fairness.** In the queue modules workers and network threads are scheduled (weak fairness of their
own steps), and nobody is assumed to enqueue or close.  A producer's progress in `BoundedQueue` is
its own step too.  In `ThreadSpawner` only the main thread is fair: no thread need end.  In `Runner`
every thread of both parties is weakly fair, the incoming ones included: the operating system
runs what can run, the task's code returns, and TCP delivers what was written.  The mutexes
are held for a bounded number of instructions, so weak fairness per thread is what a scheduler
that starves no runnable thread gives.  In `PeerExchange` each peer, a sequential program, is weakly
fair; its `Terminates` says that neither peer waits for bytes the other holds back in its buffer.
(A peer does not flush after every exchange; the receive of the second peer in `RandomAdditive`, for
one, relies on a later flush.)  The other modules have no liveness properties and no fairness.
Deadlock checking is off because every
system here may stop: queues nobody uses, processes that have ended, inputs that are only looked at.

## 5. Disagreements found

With a run:

1. `bounded_queue_blocked`: `dequeue` never notifies `enqueue_waiters`, so a runner thread that meets
   a full queue of outgoing data sleeps until close; its task never finishes.  The capacity is 512.
   A violation of a liveness property by a fair behaviour.
2. `runner_hang`: the verifier answers its own request for a challenge and may finish its last task
   before its challenge thread has taken the challenge from the queue; `close` then drops it and the
   prover waits for ever.  `assert_multiplication` is such a task: it wants a challenge and exchanges no message.
   `TerminatesUnlessDiscarded` shows that discarding by a close is the only way
   not to terminate in the instances checked.
3. `wire_digits`: `WireModQ::from_block` gives each digit of a block `128 / digits_per_u128(q)` bits,
   which for q = 8192 and q = 32768 is one more than the modulus has, so a wire made from a hash may
   have a colour that is not below its modulus.  All other powers of two are exact.
4. `runner_wire`: data is not on the wire in topological order, as `reactor.rs:42`, `runner.rs:273-274` and
   `thread_pool_backend.rs:95-96` have it, once there are several connections (the default is 16):
   each has its own outgoing thread, which takes data in order and writes it when it gets to it.  What the code
   keeps is `SentInOrder`: in what is to go out by a connection (written, in its thread's hand, in
   the queue) no data stands behind that of a task which needs it.  Nothing goes wrong by it: the receiver
   sorts by task, and `CommittedBeforeChallenge` rests on the data dependencies, not on the wire.

By a property that holds of the code and fails with the comment's formula as its mutant: `circuit_builder.rs:431-432`
gives a task the weight max(1, rounds), the code (line 409) rounds + 1.  They agree only for tasks without
messages.  The code's weight is the one the runner needs: `step_task` adds one to the priority per step (`runner.rs:309`)
and a task may take one step more than it has rounds, so with the comment's weight a task in its last step would
tie with what it unlocks (`RanksBelowDependents`).

Seen while modelling, without a run:

- A manifest without tasks makes both main threads wait for ever, because only the end of
  a task sets `no_tasks_remain` (`runner.rs:374-380`).
- `wire-map/src/lib.rs:345-349`: in `free` the next start of an allocation that ends at `u64::MAX` wraps,
  although the comment at line 191 admits that wire; a build with overflow checks panics there.
- `wire-map/src/lib.rs:421-423`: `borrow_child` panics when a range starts at no allocation although it
  returns a `Result`; `WireMapContract` allows it.
- `memory.rs:552-568`: every hundredth push forgets that a frame was a vector.  Wires set one by one in
  such a frame are then looked for in pools, and passing them as an input range panics.
- `memory.rs`: `allocation_delete` of a range that was never allocated is ignored by a frame that is a
  vector and panics in one with pools.
- `backend_multifield.rs:1320-1339`: `evaluate_call_gate` numbers the wires of a callee with one index
  `prev` over all types, although each type has its own memory.
- `mpc_edabits_common.rs:101-116`: `estimate_combine_voles` is documented as what to reserve
  (`mpc_edabits.rs:676`), but triples draw nine correlations per bit instead of six, dabits more than
  two, and the initial `random_edabits` are not counted.  Nothing calls it, and pools refill.
- `transpose.c:73`: with eight columns and an odd multiple of eight rows the unsigned `ncols - 16` wraps,
  although line 67 says of the remainder "8x(16n+8) bits (n may be 0)".  `BitTranspose` leaves that
  shape out.

## 6. What is proved

For every value of the constants that satisfies the named assumption of the module:

- **`BoundedQueueProofs`** from `QueueAssumption` (finite sets of threads, a bound of at least one).
  `NoLostWakeup` is not inductive alone: the invariant adds that types hold, that only a thread in
  `enqueue` holds a value (`Holding`), and that a closed queue is empty.  `TypeCorrect`,
  `WakeupsSuffice`.  `ImplementsContract`: the initial state and every step map to `QueueContract`; what it
  needs is `Logged`, that an open queue holds the values accepted and not yet taken, in that order.
- **`TaskQueueProofs`** from `TaskQueueAssumption`.  `TypeOK /\ HandedOutOnce /\ NoLostWakeup` is
  inductive: the second part says a popped entry leaves the heap, so that the cardinalities
  compared in the third go down together.  `TypeCorrect`, `WakeupsSuffice`, `OneWorkerPerEntry`,
  `PopsBest`.
- **`LimitedUseArcsProofs`** from `ArcsAssumption`.  The key part of the invariant is `Count`: a
  counter equals the calls still to come plus those that have begun and not yet decremented.  With
  it a thread between its load and its decrement keeps the counter positive, hence the output in
  place (`Held`); `Alone` and `Takers` separate the insertion from the takers.  `TypeCorrect`,
  `NeverPanics`, `FreedInTime`, and `Implements`: the initial state and every step of the lock-free
  algorithm map to `CountedOutputs`, where an output counts as held until its last use is claimed.
- **`ThreadSpawnerProofs`** from `SpawnerAssumption`.  `CountExact` with the fact that no thread is
  unspawned once the main thread waits is inductive.  `CountIsExact`, `TypeCorrect`, `VerdictIsRight`.
- **`SequentialProofs`**, about `EdabitCombine`, from `CombineAssumption` (any number of bits, any
  integers as masks).  The lemmas say what opening does to sums, constants and products of shares; with
  them a step of the adder keeps `CarryExact`, that the opened bits so far and the carry, weighted, are the
  sum of the private values' bits so far.  At the last bit this is the equation by which subtracting the
  converted carry makes the value what the bits amount to (`Consistent`).  `AdderExact`,
  `CombinesToEdabit`.
- **`SequentialProofs`**, about `CircuitBuilder`, from `BuilderAssumption` (the bounds are numbers).  Three
  invariants, each inductive with the ones before it.
  - `UseInv`: tasks are a sequence of records, inputs are earlier tasks, dependents existing ones, and
    `CountsMatch`: so a new task is counted nowhere before `instantiate` counts it, and one lemma says
    what appending n copies does to a count.  `CountsAgree`, `Topological`.
  - `RoundInv`: how many rounds there are and which are complete after so many messages (`Fits`), and that
    the first sender sent last exactly after an odd number (`TurnRight`); `RoundsDerived` then counts the
    steps in which each party sends and waits.  `RoundsAgree`.
  - `PlanInv`, for the manifest.  `Listed`: a task's dependents are its uses in order, said by an
    increasing enumeration of them, to which `instantiate` adds the uses of the newest task; hence sorting
    changes nothing, and the list is the one `Manifest` derives.  `Priced`: `finish` has added what a task's
    dependents cost to every task above `next` and to none below.  The recursive equation of `Priority` has one
    solution, because a greatest task on which two solutions differed would have only dependents on which
    they agree.  `Readied`: the initially ready tasks above `next` are listed, the latest first.
    `ManifestWritten`, `PrioritiesSolved`.  That a priority is a number at all, and that finish adds the
    priority of one dependent, is by the same argument on the greatest task; with the number of steps of
    a task it gives `PrioritiesRank`.
- **`SequentialProofs`**, about `FrameMemory`, from `FrameAssumption` (numbers of any size, argument lists
  and ranges within a frame, no wire an output of a call twice).  `ReadsLastWrite` is about the top frame and says
  nothing of how its addresses came to be, so the invariant, `FramesRight`, is about every frame in use.
  - *Homes.* A wire that a circuit calls its own has one home in its frame: a cell of the vector, a cell
    of the range that holds it, or a place of its own (`Home`).  Homes of different wires differ
    (`HomesDiffer`), so a store changes what one wire reads.
  - *The invariant.*  `Pools`: ranges do not meet, and pool and cache hold just those that the circuit has allocated.
    `ArgsRight`: arguments are the homes of the wires given, which belong to frames below.  `GivenRight`:
    the addresses of a given range are consecutive.  `ValuesRight`: what was set is found at its home.
  - *Steps.* A lookup changes only the cache (`Finds`, `RecachedRight`).  A range may be allocated
    without moving anybody's home because nobody was given its wires (`Fresh`, `RangeRight`); one that is given up
    takes its values with it (`DeleteRight`).  A frame on top is empty however old it is (`PushedParts`).
  - *Calls.* By induction over the slices: each looks at the caller, may allocate there, is not refused, and hands the
    callee the homes of the wires meant (`LookRight`, `SliceRight`); it leaves later slices allowed, since
    outputs do not overlap and are not yet set (`NextMaySlice`).  After the last slice the frames are right
    for the circuits of the model (`LastState`).  `FrameReadsLastWrite`, `FrameCallsSucceed`.
- **`PeerExchangeProofs`** from `ExchangeAssumption` and `ProgramsAssumption` (numbers of any size, any
  degree of the fields, any buffers and sockets).  That a read meets the message it expects is not
  inductive: it depends on what both peers still have to do.
  - *One script.*  A program is a composition of sequences that both peers execute, one as sender and the
    other as receiver.  `Follows` says that a sequence of operations is a peer's view of a script of
    events, flushes left out; `Paired`, that two sequences are the two views of one script.  One lemma
    per command of `EdabitPrograms` shows its two sides paired, the sequences over edaBits, bits and
    buckets by induction on their length.
  - *One run.*  A script determines a run, however the peers interleave: a draw on an empty pool puts an
    extension before itself and that depends on the pool alone.  `Run` is that sequence of states, `Placed`
    says how far each peer is on it, with that state's script to go and its pools, and that
    buffers and connection hold the messages between the reader's and the writer's place, each with
    the stamp of the state it was written in (`Mirrors`, `Channel`).
  - A reader is never ahead of what it reads, so it finds the message of its own place with the stamp of
    its own state.  From that: `NeverMisreads`, `CorrelationsInStep`, `ChallengesAfterCommitments`, and
    `NothingUnread` (when both programs have ended, buffers and sockets are empty).

- **`RunnerLemmas`** and **`RunnerProofs`** from `ManifestAssumption` (inputs are earlier tasks, any number of
  messages, chunks, challenges and private data) and `RunnerAssumption` (at least one thread of each kind,
  one connection and room for one outgoing message).  Nine theorems, one for each invariant of `Runner`
  that the runs check, all drawn from one inductive invariant (`Inductive`), whose parts follow.

The invariant of `Runner` is the largest argument here.  `NoPanic` is not inductive: that a thread
does not find a slot already launched, or a message of a round that is over, depends on where
everything else is.  `IInv` therefore says that there are six functions: how far each task has come
at each party (`prog`, from not launched over three points of each stage to ended), where its stage is
(`place`: on which thread, in the run queue or in the slot), and where its message under way (`msg`: queue,
thread, connection or slot), its chunk (`pub`), its private data (`priv`) and its challenge (`chal`)
are.  `Inv` ties the state to them in named parts:

- `Types`, and `NoPanic` itself;
- `Graph`: whatever holds a stage (thread, run queue or slot) agrees with `prog` and `place`, so no two do
  (`Launched`); every task launched and not ended has its stage somewhere (`Conserved`); `deps` is the inputs not
  ended plus the notifications still to come, `left` the uses not taken, `remaining` the tasks not ended plus
  the threads still notifying (`Counts`); queues close after the last task has ended (`Closing`);
- `Data`: a thread about to fill a slot holds the slot's present object, and a slot that is present and empty has
  such a thread (`SlotTable`); a chunk, a piece of private data, a challenge or a message is in one place, and the
  stage it is for has not started (`PublicData`, `PrivateData`, `Challenges`, `Flights`); a stage that
  needed a message started only after the peer had sent it (`Causal`).

The functions are not variables: the proof of a step takes those of the state before and gives those of the
state after, most often equal or changed at one argument.  There is one lemma for each action, and in
it one step for each part the action disturbs; `UpdateSlot` is the hardest, because whoever brings the
last piece moves the stage while other threads look at the same slot.  From the invariant:

- `NoPanicTheorem` is a part of it, `RightRoundTheorem`, `DependenciesFirstTheorem` and
  `StageConservedTheorem` follow from `Launched`, `Conserved` and `Counts`.
- `TypeOKTheorem` adds that `remaining` never exceeds the number of tasks, since only the end of a
  task changes it and lowers it.
- `LockstepTheorem` counts the messages that are not delivered: a message is in one place, so the sums
  over queues, threads and the wire are zero or one for each.
- `CommittedBeforeChallengeTheorem`: a challenge that was drawn is for a task launched by the verifier,
  whose inputs, and with them all that they need, have ended there; of an ended task no message is under way to it.
- `QuietAtCloseTheorem`: with `remaining` at zero every task has ended, so whatever a queue, a slot or
  a thread works for would contradict its place.
- `SentInOrderTheorem` needs a second invariant, `Ordered`, the same order by positions in the queue, in the
  hand of a connection's thread and on that connection.  A step that only moves data along keeps it,
  because nothing changes places within a line; a task sends only when those it needs have ended, hence when
  all they send is queued before.  The number of connections does not matter, since lines of
  different connections are not compared.

Induction.  The library's induction theorems take an operator as an argument and cannot be used here.
Where the arguments above need induction over numbers (the programs of `PeerExchange`, the lists and
priorities of `CircuitBuilder`, the slices of `FrameMemory`), they form the set of counterexamples, take its least element, and contradict it.

Only model-checked: all liveness (out of reach of the prover), that of `Runner`
(`TerminatesUnlessDiscarded`) and of `PeerExchange` (`Terminates`) included; the fairness of
`ContractSpec` (its steps are proved); the refinement of `WireMap`; and the operators of `BitTranspose`
and `BaseDigits`.

## 7. What is not modelled

`PROJECT.json` lists every component.  Crash recovery does not occur: a process that loses its peer
ends, and nothing is persisted.

- The arithmetic of fields, MACs, garbling, OT and VOLE, and cryptography: out of TLC's reach.
- Parsers, generated code, SIMD wrappers, memory layout, I/O, argument parsing.
- `fancy-garbling/base_conversion/cbits/lookup_tables.c` has 145,638 lines of which all but about 350
  are numbers.  The file is generated data and is not mapped: `NumDigits` and `LookupDigits` stand
  for the functions of `base_conversion/src/lib.rs` that read it, and `Digit` for `as_mixed_radix` of
  `util.rs`, which says what its rows are.
- In diet Mac'n'Cheese: setting up a channel and the base OTs, `PeerFieldMacs::init`, `voles_reserve`,
  `quicksilver_push` and `quicksilver_finalize` of `homcom.rs`; the values of the cut-and-choose; the
  single-prover conversions (`conv.rs`, `trunc.rs`, `chedda*`), which exchange the same kinds of messages
  in one direction; batches of conversion checks in `backend_multifield.rs`; the stores of
  `circuit_ir.rs`, which are tables.
- In mac-n-cheese: encryption and connection set-up; the event log, where what is lost in a close is
  diagnostic output; the compiler, a sequential translation whose wires are `WireMap`'s and whose
  output goes through `CircuitBuilder`; shapes and sizes in `circuit_builder.rs`.
- `keyed_arena` and popsicle's cuckoo table: sequential, the one a question of memory layout, the other
  a random walk whose failure is an error return.

What would come next: the refinement of `WireMap` as a theorem; `BitTranspose` for every shape; the single-prover
conversions in `EdabitPrograms`.
