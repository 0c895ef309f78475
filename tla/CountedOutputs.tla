--------------------------- MODULE CountedOutputs ---------------------------
(***************************************************************************)
(* What the runner relies on in LimitedUseArcs: an output is held from the *)
(* moment it is inserted until it has been taken once for each use, each   *)
(* taker gets it, and an output nobody uses is never held.  insert and     *)
(* take_one are single steps here.                                         *)
(***************************************************************************)
EXTENDS Naturals

CONSTANTS Tasks, Uses

VARIABLES left,    \* uses still to come
          held     \* tasks whose output is in memory

vars == <<left, held>>

Init == left = Uses /\ held = {}

Insert(t) == /\ t \notin held
             /\ left[t] = Uses[t] /\ left[t] > 0
             /\ held' = held \cup {t}
             /\ UNCHANGED left

TakeOne(t) == /\ t \in held
              /\ left' = [left EXCEPT ![t] = @ - 1]
              /\ held' = IF left[t] = 1 THEN held \ {t} ELSE held

Next == \E t \in Tasks : Insert(t) \/ TakeOne(t)

Spec == Init /\ [][Next]_vars
=============================================================================
