------------------------------- MODULE WireMap -------------------------------
(***************************************************************************)
(* The wire map of the circuit compiler (mac-n-cheese/wire-map): cells in  *)
(* allocations of consecutive wires, kept in an ordered table and in a     *)
(* small cache.  An allocation that is used moves from the table to the    *)
(* cache and leaves its length behind; a new one lives in the cache alone  *)
(* until it is evicted.  A child map borrows parts of allocations.         *)
(*                                                                         *)
(* The cache's packed lengths always equal those of the allocations beside *)
(* them (167-174, 313-316), so a lane holds one length; the start that an  *)
(* emptied lane keeps is never read (194-197, 270) and left out.  Numbers  *)
(* wrap at Top + 1, as in a release build.                                 *)
(***************************************************************************)
EXTENDS Naturals, SequencesExt

CONSTANTS Top,        \* u64::MAX, the greatest wire
          LastUsed,   \* bound: the greatest wire that callers use, per depth
          Lanes,      \* lanes of the cache: 4
          AgeLimit,   \* u16::MAX, at which ages saturate
          Bases,      \* bound: pieces of memory
          Values, Unset,
          Lists,      \* bound: the lists of ranges lent to a child
          MaxDepth,   \* bound: maps alive at a time
          MaxLending  \* bound: allocations of a map that lends to a child

Wire == 0 .. Top
Blank == [i \in Wire |-> Unset]

NoAllocation == [base |-> 0, offset |-> 0, len |-> 0, kind |-> "Owned"]
NoCell == [len |-> 0, alloc |-> NoAllocation]
Uncached(alloc) == [len |-> alloc.len, alloc |-> alloc]
InCache(len) == [len |-> len, alloc |-> NoAllocation]

EmptyLane == [start |-> 0, age |-> AgeLimit, alloc |-> NoAllocation]
EmptyMap == [storage |-> [w \in Wire |-> NoCell],
             lanes |-> [i \in 1 .. Lanes |-> EmptyLane]]

VARIABLES maps,      \* the maps alive, innermost last
          cells,     \* the contents of each piece of memory
          outcome    \* of the last operation

vars == <<maps, cells, outcome>>

Init == /\ maps = <<EmptyMap>>
        /\ cells = [b \in Bases |-> Blank]
        /\ outcome = "Ok"

Map == Last(maps)
Become(m) == maps' = [maps EXCEPT ![Len(maps)] = m]

Allocations(m) == {<<m.lanes[i].start, m.lanes[i].alloc>> : i \in 1 .. Lanes}
                  \cup {<<w, m.storage[w].alloc>> : w \in Wire}
Owned(ms) == {p[2].base : p \in {q \in UNION {Allocations(ms[d]) : d \in DOMAIN ms} :
                                   q[2].kind = "Owned"}}

(* Which free memory it is does not matter: by depth and start if possible. *)
Fresh(start) == LET Unowned == Bases \ Owned(maps)
                    Own == Unowned \cap {(Len(maps) - 1) * (Top + 1) + start + 1}
                IN  Min(IF Own = {} THEN Unowned ELSE Own)

(* Allocation::drop.  Memory that nobody owns any more is kept blank.      *)
Drop(ms) == cells' = [b \in Bases |-> IF b \in Owned(ms) THEN cells[b] ELSE Blank]
-----------------------------------------------------------------------------
(* check_cache_for_wire: the lane where a wire lives, 0 for none.          *)
Lane(m, w) ==
  Min({Lanes + 1} \cup {i \in 1 .. Lanes :
         m.lanes[i].start <= w /\ w - m.lanes[i].start < m.lanes[i].alloc.len})
    % (Lanes + 1)

(* storage.range(..=w).next_back()                                         *)
Entries(m, w) == {s \in 0 .. w : m.storage[s].len > 0}

(* The lane of greatest age, the last of several.                          *)
Victim(m) == Max({i \in 1 .. Lanes : \A j \in 1 .. Lanes : m.lanes[j].age <= m.lanes[i].age})

(* Mutant: an allocation that only the cache holds is lost.                *)
EvictedIfKnown(m, lane) ==
  IF m.storage[lane.start].len > 0 THEN [m.storage EXCEPT ![lane.start] = Uncached(lane.alloc)]
  ELSE m.storage

(* An evicted allocation goes back to the table, known there or not.       *)
Evicted(m, lane) ==
  IF lane.alloc.len > 0 THEN [m.storage EXCEPT ![lane.start] = Uncached(lane.alloc)]
  ELSE m.storage

InsertIntoCache(m, start, alloc) ==
  LET v == Victim(m)
  IN  [storage |-> Evicted(m, m.lanes[v]),
       lanes |-> [m.lanes EXCEPT ![v] = [start |-> start, age |-> 0, alloc |-> alloc]]]

Aged(m, hit) ==
  [m EXCEPT !.lanes = [i \in 1 .. Lanes |->
     IF i = hit THEN @[i] ELSE [@[i] EXCEPT !.age = Min({@ + 1, AgeLimit})]]]

(* borrow_allocation: the map with the wire's allocation in the cache, if  *)
(* there is one.  Panics if the table says it already is.                  *)
Slow(m, w) ==
  LET s == Max(Entries(m, w))
  IN  IF Entries(m, w) = {} \/ w - s >= m.storage[s].len THEN m
      ELSE InsertIntoCache([m EXCEPT !.storage[s] = InCache(@.len)], s, m.storage[s].alloc)

Borrowed(m, w) == IF Lane(m, w) > 0 THEN Aged(m, Lane(m, w)) ELSE Slow(m, w)

Panics(m, w) == /\ Lane(m, w) = 0
                /\ Slow(m, w) # m
                /\ m.storage[Max(Entries(m, w))].alloc = NoAllocation

Overlaps(m, start, end) ==
  LET Existing == {<<m.lanes[i].start, m.lanes[i].alloc.len>> : i \in 1 .. Lanes}
                  \cup {<<s, m.storage[s].len>> : s \in {Max({0} \cup Entries(m, end))}}
  IN  \E p \in Existing : p[2] > 0 /\ p[1] <= end /\ p[1] + p[2] > start
-----------------------------------------------------------------------------
Refuse == outcome' = "Refused" /\ UNCHANGED cells

Allocate(m, start, end) ==
  IF Overlaps(m, start, end) THEN Refuse /\ Become(m)
  ELSE LET b == Fresh(start)
       IN  /\ Become(InsertIntoCache(m, start,
                [base |-> b, offset |-> 0, len |-> end - start + 1, kind |-> "Owned"]))
           /\ cells' = [cells EXCEPT ![b] = Blank]
           /\ outcome' = "Ok"

Alloc(start, end) == ~(Bases \subseteq Owned(maps)) /\ Allocate(Map, start, end)

AllocRangeIfUnallocated(start, end) ==
  /\ ~(Bases \subseteq Owned(maps))
  /\ LET m == Borrowed(Map, start)
         lane == m.lanes[Lane(m, start)]
     IN  IF Panics(Map, start) THEN outcome' = "Panic" /\ UNCHANGED <<maps, cells>>
         ELSE IF Lane(m, start) = 0 THEN Allocate(m, start, end)
         ELSE /\ Become(m)
              /\ IF lane.alloc.len - (start - lane.start) >= end - start + 1
                 THEN outcome' = "Ok" /\ UNCHANGED cells
                 ELSE Refuse

(* One allocation of free: what the cache and the table hold of it.        *)
Without(m, start) ==
  [storage |-> [m.storage EXCEPT ![start] = NoCell],
   lanes |-> [i \in 1 .. Lanes |-> IF i = Lane(m, start) THEN EmptyLane ELSE m.lanes[i]]]

RECURSIVE Freed(_, _, _)
Freed(m, start, end) ==
  IF start > end THEN [map |-> m, ok |-> start = (end + 1) % (Top + 1)]
  ELSE LET lane == m.lanes[Lane(m, start)]
           found == Lane(m, start) > 0
           len == IF m.storage[start].len > 0 THEN m.storage[start].len ELSE lane.alloc.len
       IN  IF \/ found /\ (lane.start # start \/ start + lane.alloc.len - 1 > end)
              \/ m.storage[start].len > 0 /\ start + len - 1 > end
              \/ m.storage[start].len = 0 /\ ~found
           THEN [map |-> m, ok |-> FALSE]
           ELSE Freed(Without(m, start), (start + len) % (Top + 1), end)

Free(start, end) ==
  LET f == Freed(Map, start, end)
  IN  /\ Become(f.map)
      /\ outcome' = IF f.ok THEN "Ok" ELSE "Refused"
      /\ Drop(maps')

(* get, get_mut and insert find the wire's allocation by way of the cache. *)
Moved(w) == ~Panics(Map, w) /\ Become(Borrowed(Map, w))
LaneOf(w) == LET m == Borrowed(Map, w) IN m.lanes[Lane(m, w)]
Within(w) == Lane(Borrowed(Map, w), w) > 0
Index(w) == LaneOf(w).alloc.offset + w - LaneOf(w).start
Contents(w) == cells[LaneOf(w).alloc.base][Index(w)]
Immutable(w) == LaneOf(w).alloc.kind = "Immutable"
Store(w, v) == cells' = [cells EXCEPT ![LaneOf(w).alloc.base][Index(w)] = v]

Missing(w) ==
  /\ UNCHANGED cells
  /\ \/ Panics(Map, w) /\ outcome' = "Panic" /\ UNCHANGED maps
     \/ Moved(w) /\ ~Within(w) /\ outcome' = "NotAllocated"

Get(w) == \/ Missing(w)
          \/ Moved(w) /\ Within(w) /\ outcome' = Contents(w) /\ UNCHANGED cells

(* get_mut, which asserts that the allocation is mutable; a cell that is   *)
(* set is then changed through the reference it returns.                   *)
Change(w, v) ==
  \/ Missing(w)
  \/ /\ Moved(w) /\ Within(w) /\ Immutable(w)
     /\ outcome' = "Panic" /\ UNCHANGED cells
  \/ /\ Moved(w) /\ Within(w) /\ ~Immutable(w)
     /\ outcome' = Contents(w)
     /\ IF Contents(w) = Unset THEN UNCHANGED cells ELSE Store(w, v)

Insert(w, v) ==
  \/ Missing(w)
  \/ /\ Moved(w) /\ Within(w) /\ Immutable(w)
     /\ outcome' = "AllocationNotMutable" /\ UNCHANGED cells
  \/ /\ Moved(w) /\ Within(w) /\ ~Immutable(w)
     /\ outcome' = IF Contents(w) = Unset THEN "PreviouslyUnset" ELSE "PreviouslySet"
     /\ Store(w, v)
-----------------------------------------------------------------------------
(* immutably_borrow_allocation: the allocation that holds a whole range,   *)
(* found without touching the cache; <<>> for none.                        *)
Holding(m, r) ==
  LET i == Lane(m, r.src)
      s == Max({0} \cup Entries(m, r.src))
      p == IF i > 0 THEN <<m.lanes[i].start, m.lanes[i].alloc>> ELSE <<s, m.storage[s].alloc>>
  IN  IF r.end < p[1] + p[2].len THEN p ELSE <<>>

(* It panics if an earlier allocation, not the wire's, is in the cache.    *)
HoldingPanics(m, r) ==
  /\ Lane(m, r.src) = 0
  /\ Entries(m, r.src) # {}
  /\ m.storage[Max(Entries(m, r.src))].alloc = NoAllocation

Conflicts(done, r) ==
  LET Before == {q \in done : q.mutable /\ q.src <= r.end}
  IN  Before # {} /\ Max({q.end : q \in {b \in Before : \A a \in Before : a.src <= b.src}}) >= r.src

(* A range of the parent as an allocation of the child.                    *)
NewBorrow(p, r) == [base |-> p[2].base,
                    offset |-> p[2].offset + r.src - p[1],
                    len |-> r.end - r.src + 1,
                    kind |-> IF r.mutable THEN "Mutable" ELSE "Immutable"]

(* One more range of a list: the child so far, the ranges lent to it, and  *)
(* how it goes; nothing more happens once a range was refused.             *)
Lend(acc, r) ==
  LET p == Holding(Map, r)
      ends == CASE Conflicts(acc.lent, r) -> "Refused"
                [] HoldingPanics(Map, r) -> "Panic"
                [] OTHER -> IF \/ p = <<>>
                               \/ r.mutable /\ p[2].kind = "Immutable"
                               \/ Overlaps(acc.child, r.dst, r.dst + r.end - r.src)
                            THEN "Refused" ELSE "Ok"
  IN  IF acc.goes # "Ok" THEN acc
      ELSE IF ends # "Ok" THEN [acc EXCEPT !.goes = ends]
      ELSE [child |-> InsertIntoCache(acc.child, r.dst, NewBorrow(p, r)),
            lent |-> acc.lent \cup {r},
            goes |-> "Ok"]

BorrowChild(ranges) ==
  /\ Len(maps) < MaxDepth
  /\ Cardinality({p \in Allocations(Map) : p[2].len > 0}) <= MaxLending
  /\ LET acc == FoldLeft(Lend, [child |-> EmptyMap, lent |-> {}, goes |-> "Ok"], ranges)
     IN  /\ outcome' = acc.goes
         /\ maps' = IF acc.goes = "Ok" THEN Append(maps, acc.child) ELSE maps
  /\ UNCHANGED cells

(* The end of a child's life: its own allocations are dropped with it.     *)
DropChild == /\ Len(maps) > 1
             /\ maps' = Front(maps)
             /\ outcome' = "Ok"
             /\ Drop(maps')

Used == 0 .. LastUsed[Len(maps)]

Next ==
  \/ \E start \in Used : \E end \in Used \ 0 .. start - 1 :
        \/ Alloc(start, end)
        \/ AllocRangeIfUnallocated(start, end)
        \/ Free(start, end)
  \/ \E w \in Used : Get(w) \/ \E v \in Values : Change(w, v) \/ Insert(w, v)
  \/ \E ranges \in Lists : BorrowChild(ranges)
  \/ DropChild

Spec == Init /\ [][Next]_vars
-----------------------------------------------------------------------------
(* Cache, table and borrowing keep the promise of a map without them:      *)
(* every operation answers and stores as it would there (all of lib.rs).   *)
(* What a lookup finds of a wire: the allocations that span it.            *)
Slots(m, w) ==
  {[start |-> p[1], base |-> p[2].base, index |-> p[2].offset + w - p[1], kind |-> p[2].kind] :
     p \in {q \in Allocations(m) : q[1] <= w /\ w < q[1] + q[2].len}}

C == INSTANCE WireMapContract
       WITH wires <- [d \in DOMAIN maps |-> [w \in Wire |-> Slots(maps[d], w)]]

Contract == C!Spec
ContractInit == C!Init
ContractStep == C!Next
=============================================================================
