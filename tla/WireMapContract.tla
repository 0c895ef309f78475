--------------------------- MODULE WireMapContract ---------------------------
(***************************************************************************)
(* What a wire map promises (mac-n-cheese/wire-map): each wire belongs to  *)
(* at most one allocation, a cell holds what was last stored in it, and a  *)
(* child map sees the cells its parent lent it under other wires.  There   *)
(* is no cache here and no table: a map is the set of slots of each wire.  *)
(***************************************************************************)
EXTENDS Naturals, SequencesExt

CONSTANTS Top,        \* the greatest wire
          LastUsed,   \* the greatest wire that callers use, for each depth
          Bases,      \* pieces of memory that an allocation can own
          Values,     \* values of a cell
          Unset,      \* a cell that holds none
          Lists,      \* the lists of ranges that are lent to a child
          MaxDepth    \* maps alive at a time: a map and its children

Wire == 0 .. Top
Blank == [i \in Wire |-> Unset]

VARIABLES wires,     \* for every map alive, innermost last: the slots of wires
          cells,     \* the contents of each piece of memory
          outcome    \* of the last operation

vars == <<wires, cells, outcome>>

Depth == Len(wires)
At(w) == wires[Depth][w]
SlotAt(w) == CHOOSE s \in At(w) : TRUE
Allocated(w) == At(w) # {}
Holds(w) == cells[SlotAt(w).base][SlotAt(w).index]
Owned(ws) == {s.base : s \in {t \in UNION {ws[d][w] : d \in DOMAIN ws, w \in Wire} :
                                t.kind = "Owned"}}

(* Memory that nobody owns any more is as good as blank.                   *)
Drop(ws) == cells' = [b \in Bases |-> IF b \in Owned(ws) THEN cells[b] ELSE Blank]

Init == /\ wires = <<[w \in Wire |-> {}]>>
        /\ cells = [b \in Bases |-> Blank]
        /\ outcome = "Ok"

Refuse == outcome' = "Refused" /\ UNCHANGED <<cells, wires>>

Fill(start, end) ==
  /\ outcome' = "Ok"
  /\ \E b \in Owned(wires') \ Owned(wires) :
        /\ cells' = [cells EXCEPT ![b] = Blank]
        /\ wires' = [wires EXCEPT ![Depth] = [w \in Wire |->
                       IF w \in start .. end
                       THEN {[start |-> start, base |-> b, index |-> w - start, kind |-> "Owned"]}
                       ELSE @[w]]]

Alloc(start, end) ==
  IF \E w \in start .. end : Allocated(w) THEN Refuse ELSE Fill(start, end)

OneAllocation(start, end) ==
  \A w \in start .. end : Allocated(w) /\ SlotAt(w).start = SlotAt(start).start

AllocRangeIfUnallocated(start, end) ==
  IF Allocated(start) /\ OneAllocation(start, end)
  THEN outcome' = "Ok" /\ UNCHANGED <<cells, wires>>
  ELSE Alloc(start, end)

(* Whole allocations cover start .. next - 1 and nothing else.             *)
Tiled(start, next) ==
  /\ \A w \in start .. next - 1 : Allocated(w) /\ SlotAt(w).start >= start
  /\ \A w \in Wire : w >= next /\ Allocated(w) => SlotAt(w).start >= next

Free(start, end) ==
  LET next == Max({n \in start .. end + 1 : n = start \/ Tiled(start, n)})
  IN  /\ outcome' = IF next = end + 1 THEN "Ok" ELSE "Refused"
      /\ wires' = [wires EXCEPT ![Depth] =
                    [w \in Wire |-> IF w \in start .. next - 1 THEN {} ELSE @[w]]]
      /\ Drop(wires')

Get(w) == /\ outcome' = IF Allocated(w) THEN Holds(w) ELSE "NotAllocated"
          /\ UNCHANGED <<cells, wires>>

Store(w, v) == cells' = [cells EXCEPT ![SlotAt(w).base][SlotAt(w).index] = v]

(* get_mut, and a value assigned through it.  Callers keep away from what  *)
(* was lent immutably.                                                     *)
Change(w, v) ==
  /\ IF Allocated(w) /\ SlotAt(w).kind # "Immutable" /\ Holds(w) # Unset
     THEN outcome' = Holds(w) /\ Store(w, v)
     ELSE /\ outcome' = IF ~Allocated(w) THEN "NotAllocated"
                       ELSE IF SlotAt(w).kind = "Immutable" THEN "Panic" ELSE Unset
          /\ UNCHANGED cells
  /\ UNCHANGED wires

Insert(w, v) ==
  /\ IF Allocated(w) /\ SlotAt(w).kind # "Immutable"
     THEN /\ outcome' = IF Holds(w) = Unset THEN "PreviouslyUnset" ELSE "PreviouslySet"
          /\ Store(w, v)
     ELSE /\ outcome' = IF Allocated(w) THEN "AllocationNotMutable" ELSE "NotAllocated"
          /\ UNCHANGED cells
  /\ UNCHANGED wires

(* A range: src .. end, seen by the child from dst on, mutable or not.     *)
(* One that starts at no allocation may panic (lib.rs:421-423).            *)
Lendable(ranges) ==
  /\ \A r \in ranges : /\ OneAllocation(r.src, r.end)
                       /\ r.mutable => SlotAt(r.src).kind # "Immutable"
  /\ \A r, q \in ranges : r # q =>
        /\ r.mutable => r.src .. r.end \cap q.src .. q.end = {}
        /\ r.dst .. r.dst + r.end - r.src \cap q.dst .. q.dst + q.end - q.src = {}

Lent(r, w) == [start |-> r.dst,
               base |-> SlotAt(r.src + w - r.dst).base,
               index |-> SlotAt(r.src + w - r.dst).index,
               kind |-> IF r.mutable THEN "Mutable" ELSE "Immutable"]

BorrowChild(ranges) ==
  /\ Depth < MaxDepth
  /\ IF Lendable(ranges)
     THEN /\ outcome' = "Ok"
          /\ UNCHANGED cells
          /\ wires' = Append(wires, [w \in Wire |->
                 {Lent(r, w) : r \in {q \in ranges : w \in q.dst .. q.dst + q.end - q.src}}])
     ELSE /\ \/ outcome' = "Refused"
             \/ outcome' = "Panic" /\ \E r \in ranges : ~Allocated(r.src)
          /\ UNCHANGED <<cells, wires>>

DropChild == /\ Depth > 1
             /\ outcome' = "Ok"
             /\ wires' = SubSeq(wires, 1, Depth - 1)
             /\ Drop(wires')

Used == 0 .. LastUsed[Depth]

Next ==
  \/ \E start \in Used : \E end \in Used \ 0 .. start - 1 :
        \/ Alloc(start, end)
        \/ AllocRangeIfUnallocated(start, end)
        \/ Free(start, end)
  \/ \E w \in Used : Get(w) \/ \E v \in Values : Change(w, v) \/ Insert(w, v)
  \/ \E ranges \in Lists : BorrowChild(ToSet(ranges))
  \/ DropChild

Spec == Init /\ [][Next]_vars
=============================================================================
