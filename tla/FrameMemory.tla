----------------------------- MODULE FrameMemory -----------------------------
(***************************************************************************)
(* The wires of a circuit that is evaluated function by function           *)
(* (diet-mac-and-cheese/src/memory.rs).  A call pushes a frame whose first *)
(* wires are the arguments, raw addresses into the frames below; its other *)
(* wires are in one vector, or in a pool of allocated ranges with a map of *)
(* single wires beside it.  The pool has a cache of one range, used by     *)
(* every lookup.  Frames are reused and not always cleared.                *)
(*                                                                         *)
(* The list and the vector that hold the addresses of arguments give the   *)
(* same address for the same wire and are one sequence here.               *)
(***************************************************************************)
EXTENDS Integers, FiniteSets, SequencesExt

CONSTANTS MaxWire,      \* bound: wires of a frame are 0 .. MaxWire
          MaxTop,       \* bound: frames above the first
          TickLimit,    \* pushes after which a frame is thrown away: 100
          Values,
          Default,      \* X::default()
          Undefined,    \* what a lookup that panics or reads freed memory gives
          Calls,        \* bound: the argument lists of calls
          NewRanges     \* bound: the ranges that are allocated

(* No wire is an output of a call twice, as a circuit assigns it once.     *)
ASSUME FrameAssumption ==
  /\ MaxWire \in Nat /\ MaxTop \in Nat /\ TickLimit \in Nat
  /\ NewRanges \subseteq {r \in (0 .. MaxWire) \X (0 .. MaxWire) : r[1] <= r[2]}
  /\ Calls \subseteq Seq({s \in [src : 0 .. MaxWire, end : 0 .. MaxWire, output : BOOLEAN] :
                           s.src <= s.end})
  /\ \A slices \in Calls : \A i, j \in DOMAIN slices :
        i # j /\ slices[i].output /\ slices[j].output =>
          slices[i].end < slices[j].src \/ slices[j].end < slices[i].src

Wires == 0 .. MaxWire

VARIABLES stack,      \* frames in use and, above top, frames to be used again
          top,        \* index of the current frame
          panicked,   \* a call has panicked
          circuit     \* what the circuit did: for each frame in use its
                      \* arguments, the values it gave its own wires and the
                      \* ranges it has allocated or been given

frameVars == <<stack, top, panicked, circuit>>

NewFrame == [args |-> <<>>,
             pool |-> [w \in Wires |-> <<>>],
             cache |-> <<>>,
             unallocated |-> [w \in Wires |-> Undefined],
             vector |-> [w \in Wires |-> Default],
             is_vector |-> FALSE,
             counter |-> 0]

NewCircuit(args, given) == [args |-> args,
                            values |-> [w \in Wires |-> Undefined],
                            declared |-> given]

FrameInit == /\ stack = <<NewFrame>>
             /\ top = 1
             /\ panicked = FALSE
             /\ circuit = <<NewCircuit(<<>>, {})>>
-----------------------------------------------------------------------------
(* The pool: a range by its first wire, <<>> where none starts.            *)
Covers(f, first, id) == first <= id /\ id < first + Len(f.pool[first])
Firsts(f, id) == {w \in 0 .. id : f.pool[w] # <<>>}

InCache(f, id) == f.cache # <<>> /\ f.cache[1] <= id /\ id <= f.cache[2]

Present(f, id) ==
  InCache(f, id) \/ (Firsts(f, id) # {} /\ Covers(f, Max(Firsts(f, id)), id))

(* present and move_to_cache_if_necessary.                                 *)
Cached(f, id) ==
  IF InCache(f, id) \/ ~Present(f, id) THEN f
  ELSE LET first == Max(Firsts(f, id))
       IN  [f EXCEPT !.cache = <<first, first + Len(f.pool[first]) - 1>>]

(* insert.                                                                 *)
Inserted(f, first, last) ==
  [f EXCEPT !.pool[first] = [i \in 1 .. last - first + 1 |-> Default], !.cache = <<>>]

(* remove, of the ranges that start at these wires.  Mutant: without       *)
(* invalidate.                                                             *)
KeepsCache(f, firsts) == [f EXCEPT !.pool = [w \in Wires |-> IF w \in firsts THEN <<>> ELSE @[w]]]

Removed(f, firsts) ==
  [f EXCEPT !.pool = [w \in Wires |-> IF w \in firsts THEN <<>> ELSE @[w]], !.cache = <<>>]
-----------------------------------------------------------------------------
(* Addresses: a cell of a range of a pool, of a vector, or a single wire   *)
(* named by its frame.                                                     *)
InPool(level, first, index) == [kind |-> "pool", level |-> level, first |-> first, index |-> index]
InVector(level, index) == [kind |-> "vector", level |-> level, first |-> 0, index |-> index]
Single(level, id) == [kind |-> "single", level |-> level, first |-> 0, index |-> id]

Valid(st, a) == a.kind = "pool" => a.index < Len(st[a.level].pool[a.first])

Load(st, a) ==
  CASE a.kind = "pool" -> IF Valid(st, a) THEN st[a.level].pool[a.first][a.index + 1] ELSE Undefined
    [] a.kind = "vector" -> st[a.level].vector[a.index]
    [] a.kind = "single" -> st[a.level].unallocated[a.index]

Store(st, a, x) ==
  CASE a.kind = "pool" -> IF Valid(st, a) THEN [st EXCEPT ![a.level].pool[a.first][a.index + 1] = x] ELSE st
    [] a.kind = "vector" -> [st EXCEPT ![a.level].vector[a.index] = x]
    [] a.kind = "single" -> [st EXCEPT ![a.level].unallocated[a.index] = x]

(* Where get and set find a wire of the current frame, after the lookup.   *)
Address(f, id) ==
  IF id < Len(f.args) THEN f.args[id + 1]
  ELSE IF f.is_vector THEN InVector(top, id - Len(f.args))
  ELSE IF Present(f, id) THEN LET first == Cached(f, id).cache[1] IN InPool(top, first, id - first)
  ELSE Single(top, id)

LookedUp(f, id) == IF id < Len(f.args) \/ f.is_vector THEN f ELSE Cached(f, id)

Frame == stack[top]

Get(id) == /\ stack' = [stack EXCEPT ![top] = LookedUp(Frame, id)]
           /\ UNCHANGED <<top, panicked, circuit>>

(* The wire a circuit means: its own, or one that it was given.            *)
Meant(id) == LET c == circuit[top]
             IN  IF id < Len(c.args) THEN c.args[id + 1] ELSE <<top, id>>
Given(w) == circuit[w[1]].values[w[2]]

Set(id, x) ==
  /\ stack' = Store([stack EXCEPT ![top] = LookedUp(Frame, id)], Address(Frame, id), x)
  /\ circuit' = [circuit EXCEPT ![Meant(id)[1]].values[Meant(id)[2]] = x]
  /\ UNCHANGED <<top, panicked>>
-----------------------------------------------------------------------------
Undeclared(w) == \A r \in circuit[top].declared : w < r[1] \/ r[2] < w

(* A circuit allocates wires that it has neither allocated nor set.        *)
AllocationNew(first, last) ==
  /\ \A w \in first .. last : /\ w >= Len(circuit[top].args)
                              /\ Undeclared(w)
                              /\ circuit[top].values[w] = Undefined
  /\ stack' = IF Frame.is_vector THEN stack
              ELSE [stack EXCEPT ![top] = Inserted(Frame, first, last)]
  /\ circuit' = [circuit EXCEPT ![top].declared = @ \cup {<<first, last>>}]
  /\ UNCHANGED <<top, panicked>>

(* It deletes ranges that it has allocated, several at a time.             *)
Tiles(first, last) ==
  LET Inside == {r \in circuit[top].declared : first <= r[1] /\ r[2] <= last /\ r[1] >= Len(circuit[top].args)}
  IN  IF UNION {r[1] .. r[2] : r \in Inside} = first .. last THEN Inside ELSE {}

AllocationDelete(first, last) ==
  /\ first <= last
  /\ Tiles(first, last) # {}
  /\ stack' = IF Frame.is_vector THEN stack
              ELSE [stack EXCEPT ![top] = Removed(Frame, {r[1] : r \in Tiles(first, last)})]
  /\ circuit' = [circuit EXCEPT ![top].declared = @ \ Tiles(first, last),
                                ![top].values = [w \in Wires |->
                                   IF w \in first .. last THEN Undefined ELSE @[w]]]
  /\ UNCHANGED <<top, panicked>>
-----------------------------------------------------------------------------
(* tick: every TickLimit-th push of a level starts afresh, with a pool     *)
(* even if a vector was asked for.                                         *)
Ticked(f) ==
  IF f.counter + 1 < TickLimit THEN [f EXCEPT !.counter = @ + 1] ELSE NewFrame

(* Mutant: clears before top is raised, and so the frame of the caller.    *)
ClearsCaller(is_vector) ==
  LET old == IF Len(stack) = top THEN NewFrame ELSE stack[top + 1]
      caller == IF is_vector THEN stack[top]
                ELSE [stack[top] EXCEPT !.pool = NewFrame.pool, !.cache = <<>>]
  IN  SubSeq(stack, 1, top - 1)
      \o <<caller, Ticked([old EXCEPT !.args = <<>>, !.is_vector = is_vector])>>
      \o SubSeq(stack, top + 2, Len(stack))

(* push_frame: pool and single wires are cleared unless a vector is used.  *)
Pushed(is_vector) ==
  LET old == IF Len(stack) = top THEN NewFrame ELSE stack[top + 1]
      cleared == [old EXCEPT !.args = <<>>,
                             !.is_vector = is_vector,
                             !.pool = IF is_vector THEN @ ELSE NewFrame.pool,
                             !.cache = IF is_vector THEN @ ELSE <<>>,
                             !.unallocated = IF is_vector THEN @ ELSE NewFrame.unallocated]
  IN  SubSeq(stack, 1, top) \o <<Ticked(cleared)>> \o SubSeq(stack, top + 2, Len(stack))

Shift(a, i) == IF a.kind = "single" THEN a ELSE [a EXCEPT !.index = @ + i]

Count(s) == s.end - s.src + 1

(* allocate_slice: s.src .. s.end of the caller become the next arguments. *)
Found(caller, s) ==
  IF s.src < Len(caller.args) THEN caller.args[s.src + 1]
  ELSE IF caller.is_vector THEN InVector(top, s.src - Len(caller.args))
  ELSE IF Present(caller, s.src)
       THEN LET first == Cached(caller, s.src).cache[1] IN InPool(top, first, s.src - first)
  ELSE IF s.src # s.end THEN InPool(top, s.src, 0)
  ELSE Single(top, s.src)

Looked(caller, s) ==
  IF s.src < Len(caller.args) \/ caller.is_vector THEN caller
  ELSE IF Present(caller, s.src) \/ s.src = s.end THEN Cached(caller, s.src)
  ELSE Cached(Inserted(caller, s.src, s.end), s.src)

(* Not allowed to allocate, or an unallocated address for several wires.   *)
Refused(caller, s) ==
  IF s.src < Len(caller.args) THEN s.src # s.end /\ caller.args[s.src + 1].kind = "single"
  ELSE ~caller.is_vector /\ ~Present(caller, s.src) /\ s.src # s.end /\ ~s.output

Slice(acc, s) ==
  LET caller == acc.stack[top]
      addresses == [i \in 1 .. Count(s) |-> Shift(Found(caller, s), i - 1)]
  IN  [stack |-> [acc.stack EXCEPT ![top] = Looked(caller, s), ![top + 1].args = @ \o addresses],
       panicked |-> acc.panicked \/ Refused(caller, s)]

(* What a circuit may pass: outputs that are not set yet, inputs that are, *)
(* several wires at a time only from one range that it allocated or was    *)
(* given, or, to an output, wires that it has not allocated at all.        *)
MayPass(s) ==
  /\ \A w \in s.src .. s.end : s.output <=> Given(Meant(w)) = Undefined
  /\ \/ s.src = s.end
     \/ \E r \in circuit[top].declared : r[1] <= s.src /\ s.end <= r[2]
     \/ /\ s.output
        /\ \A w \in s.src .. s.end : w >= Len(circuit[top].args) /\ Undeclared(w)

(* An output range that was not allocated is from here on.                 *)
Declares(slices) ==
  {<<s.src, s.end>> : s \in {t \in Range(slices) : t.src # t.end /\ Undeclared(t.src)}}

(* How many arguments come from the first slices.                          *)
Offset(slices) ==
  LET offset[k \in 0 .. Len(slices)] ==
        IF k = 0 THEN 0 ELSE offset[k - 1] + Count(slices[k])
  IN  offset

(* The slice that an argument comes from.                                  *)
From(slices, n) == CHOOSE k \in DOMAIN slices : Offset(slices)[k - 1] < n /\ n <= Offset(slices)[k]

Passed(slices) ==
  [n \in 1 .. Offset(slices)[Len(slices)] |->
     Meant(slices[From(slices, n)].src + n - Offset(slices)[From(slices, n) - 1] - 1)]

GivenTo(slices) == {<<Offset(slices)[k - 1], Offset(slices)[k] - 1>> : k \in DOMAIN slices}

(* The frames after the push and after each slice.                         *)
Sliced(slices, is_vector) ==
  LET after[k \in 0 .. Len(slices)] ==
        IF k = 0 THEN [stack |-> Pushed(is_vector), panicked |-> FALSE]
        ELSE Slice(after[k - 1], slices[k])
  IN  after

Call(slices, is_vector) ==
  /\ top <= MaxTop
  /\ ~panicked
  /\ \A s \in Range(slices) : MayPass(s)
  /\ LET acc == Sliced(slices, is_vector)[Len(slices)]
     IN  stack' = acc.stack /\ panicked' = acc.panicked
  /\ top' = top + 1
  /\ circuit' = Append([circuit EXCEPT ![top].declared = @ \cup Declares(slices)],
                       NewCircuit(Passed(slices), GivenTo(slices)))

(* pop_frame: the frame stays on the stack.  So do the values in its       *)
(* vector, which the next circuit overwrites before it reads: left out.    *)
Return == /\ top > 1
          /\ stack' = [stack EXCEPT ![top].vector = NewFrame.vector]
          /\ top' = top - 1
          /\ circuit' = Front(circuit)
          /\ UNCHANGED panicked

FrameNext ==
  \/ \E id \in Wires : Get(id) \/ \E x \in Values : Set(id, x)
  \/ \E r \in NewRanges : AllocationNew(r[1], r[2])
  \/ \E first, last \in Wires : AllocationDelete(first, last)
  \/ \E slices \in Calls, is_vector \in BOOLEAN : Call(slices, is_vector)
  \/ Return

FrameSpec == FrameInit /\ [][FrameNext]_frameVars
-----------------------------------------------------------------------------
(* In whatever way a wire reached the current frame, get gives what was    *)
(* last stored in it (get, 773-810, and all that hand out addresses).      *)
ReadsLastWrite ==
  \A id \in Wires : Given(Meant(id)) # Undefined => Load(stack, Address(Frame, id)) = Given(Meant(id))

(* A circuit that allocates what it passes never makes a call panic        *)
(* (allocate_slice, 1002-1007).                                            *)
CallsSucceed == ~panicked
=============================================================================
