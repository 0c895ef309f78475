------------------------ MODULE LimitedUseArcsProofs ------------------------
(***************************************************************************)
(* Proofs about LimitedUseArcs for every set of tasks, every number of     *)
(* uses and every finite set of threads.                                   *)
(***************************************************************************)
EXTENDS LimitedUseArcs, FiniteSetTheorems, TLAPS

(* Threads that have called take_one(t) and not yet counted their use.     *)
Active(t) == {th \in Threads : pc[th] \in {"load", "sub"} /\ task[th] = t}

(* A count is what is still to be claimed: calls to come, calls under way. *)
Count == \A t \in Tasks :
           /\ begun[t] <= Uses[t]
           /\ remaining_uses[t] = (Uses[t] - begun[t]) + Cardinality(Active(t))

(* Nobody is at work on a task before its insertion.                       *)
Fresh == \A t \in Tasks \ inserted :
           contents[t] = None /\ begun[t] = 0 /\ Busy(t) = {}

(* An insertion is alone with its task, and swaps only if there are uses.  *)
Alone == \A th \in Threads : pc[th] \in {"test", "swap"} =>
           /\ task[th] \in inserted
           /\ contents[task[th]] = None /\ begun[task[th]] = 0
           /\ \A oth \in Threads \ {th} :
                 pc[oth] # "idle" => task[oth] # task[th]
           /\ pc[th] = "swap" => remaining_uses[task[th]] > 0

(* Takers come after the insertion, and have the Arc once they loaded it.  *)
Takers == \A th \in Threads :
            /\ pc[th] \in {"load", "sub", "free", "return"} =>
                 /\ task[th] \in inserted
                 /\ \A oth \in Threads :
                       pc[oth] \in {"test", "swap"} => task[oth] # task[th]
            /\ pc[th] \in {"sub", "free", "return"} => out[th] = Some
            /\ pc[th] = "free" => remaining_uses[task[th]] = 0

(* The output is there while it has uses; afterwards someone is about to   *)
(* free it, or it is gone.                                                 *)
Held == \A t \in Tasks :
          /\ (t \in inserted /\ Inserting(t) = {} /\ remaining_uses[t] > 0) =>
               contents[t] = Some
          /\ (contents[t] = Some /\ remaining_uses[t] = 0) =>
               \E th \in Threads : pc[th] = "free" /\ task[th] = t

IInv == TypeOK /\ Count /\ Fresh /\ Alone /\ Takers /\ Held /\ NoPanic

(* Calls of take_one under way can be counted.                             *)
LEMMA ActiveFinite ==
  ASSUME NEW t
  PROVE  IsFiniteSet(Active(t)) /\ Cardinality(Active(t)) \in Nat
  BY ArcsAssumption, FS_Subset, FS_CardinalityType DEF Active

(* A call under way keeps the count above zero, and then the output is     *)
(* there: the load before the decrement is what this rests on.             *)
LEMMA ActiveHeld ==
  ASSUME IInv, NEW th \in Threads, pc[th] \in {"load", "sub"}
  PROVE  /\ remaining_uses[task[th]] > 0
         /\ contents[task[th]] = Some
<1> DEFINE t == task[th]
<1>1. t \in Tasks /\ th \in Active(t)
  BY DEF IInv, TypeOK, Active
<1>2. Cardinality(Active(t)) > 0
  BY <1>1, ActiveFinite, FS_EmptySet
<1>3. remaining_uses[t] > 0
  BY <1>1, <1>2, ActiveFinite, ArcsAssumption DEF IInv, TypeOK, Count
<1>4. t \in inserted /\ Inserting(t) = {}
  BY <1>1 DEF IInv, Takers, Inserting, Busy
<1> QED
  BY <1>1, <1>3, <1>4 DEF IInv, Held

(* The inductive invariant holds initially.                                *)
LEMMA InitIInv == Init => IInv
<1> SUFFICES ASSUME Init PROVE IInv
  OBVIOUS
<1>1. \A t \in Tasks : Active(t) = {}
  BY DEF Init, Active
<1>2. Count
  BY <1>1, FS_EmptySet, ArcsAssumption DEF Init, Count
<1>3. TypeOK
  BY ArcsAssumption DEF Init, TypeOK, None, Some
<1> QED
  BY <1>2, <1>3 DEF Init, IInv, Fresh, Alone, Takers, Held, NoPanic, Busy,
                    Inserting, None, Some

(* insert begins: first and only work on its task.                         *)
LEMMA CallInsertStep ==
  ASSUME IInv, NEW th \in Threads, NEW t \in Tasks, CallInsert(th, t)
  PROVE  IInv'
<1> USE DEF IInv, None, Some
<1>1. TypeOK'
  BY DEF TypeOK, CallInsert
<1>2. \A u \in Tasks : Active(u)' = Active(u)
  BY DEF Active, CallInsert, TypeOK
<1>3. Count'
  BY <1>2 DEF Count, CallInsert
<1>4. Fresh'
  BY DEF Fresh, Busy, CallInsert, TypeOK
<1>5. Alone'
  BY DEF Alone, Fresh, Busy, CallInsert, TypeOK
<1>6. Takers'
  BY DEF Takers, Fresh, Busy, CallInsert, TypeOK
<1>7. Held'
  <2>1. \A u \in Tasks : u # t => Inserting(u)' = Inserting(u)
    BY DEF Inserting, Busy, CallInsert, TypeOK, Fresh
  <2>2. th \in Inserting(t)'
    BY DEF Inserting, Busy, CallInsert, TypeOK
  <2> QED
    BY <2>1, <2>2 DEF Held, Fresh, CallInsert, TypeOK
<1>8. NoPanic'
  BY DEF NoPanic, CallInsert, TypeOK
<1> QED
  BY <1>1, <1>3, <1>4, <1>5, <1>6, <1>7, <1>8

(* The relaxed load of insert: no use can have been claimed yet.           *)
LEMMA InsertTestStep ==
  ASSUME IInv, NEW th \in Threads, InsertTest(th)
  PROVE  IInv'
<1> DEFINE t == task[th]
<1> USE DEF IInv, None, Some
<1>1. TypeOK'
  BY DEF TypeOK, InsertTest
<1>2. \A u \in Tasks : Active(u)' = Active(u)
  BY DEF Active, InsertTest, TypeOK
<1>3. Count'
  BY <1>2 DEF Count, InsertTest
<1>4. Fresh'
  BY DEF Fresh, Busy, InsertTest, TypeOK
<1>5. Alone'
  BY DEF Alone, InsertTest, TypeOK
<1>6. Takers'
  BY DEF Takers, InsertTest, TypeOK
<1>7. Held'
  <2>1. \A u \in Tasks : u # t => Inserting(u)' = Inserting(u)
    BY DEF Inserting, Busy, InsertTest, TypeOK
  <2>2. CASE remaining_uses[t] = 0
    BY <2>1, <2>2 DEF Held, Alone, InsertTest, TypeOK
  <2>3. CASE remaining_uses[t] # 0
    <3>1. th \in Inserting(t)'
      BY <2>3 DEF Inserting, Busy, InsertTest, TypeOK
    <3> QED
      BY <2>1, <2>3, <3>1 DEF Held, Alone, InsertTest, TypeOK
  <2> QED
    BY <2>2, <2>3
<1>8. NoPanic'
  BY DEF NoPanic, InsertTest, TypeOK
<1> QED
  BY <1>1, <1>3, <1>4, <1>5, <1>6, <1>7, <1>8

(* The swap of insert finds nothing there.                                 *)
LEMMA InsertSwapStep ==
  ASSUME IInv, NEW th \in Threads, InsertSwap(th)
  PROVE  IInv'
<1> DEFINE t == task[th]
<1> USE DEF IInv, None, Some
<1>0. contents[t] = None /\ remaining_uses[t] > 0 /\ t \in Tasks /\ t \in inserted
  BY DEF Alone, InsertSwap, TypeOK
<1>1. TypeOK'
  BY <1>0 DEF TypeOK, InsertSwap
<1>2. \A u \in Tasks : Active(u)' = Active(u)
  BY DEF Active, InsertSwap, TypeOK
<1>3. Count'
  BY <1>2 DEF Count, InsertSwap
<1>4. Fresh'
  BY <1>0 DEF Fresh, Busy, InsertSwap, TypeOK
<1>5. Alone'
  BY DEF Alone, InsertSwap, TypeOK
<1>6. Takers'
  BY DEF Takers, InsertSwap, TypeOK
<1>7. Held'
  <2>1. \A u \in Tasks : u # t => Inserting(u)' = Inserting(u)
    BY DEF Inserting, Busy, InsertSwap, TypeOK
  <2> QED
    BY <1>0, <2>1 DEF Held, InsertSwap, TypeOK
<1>8. NoPanic'
  BY <1>0 DEF NoPanic, InsertSwap, TypeOK
<1> QED
  BY <1>1, <1>3, <1>4, <1>5, <1>6, <1>7, <1>8

(* take_one begins: one call to come becomes one under way.                *)
LEMMA CallTakeStep ==
  ASSUME IInv, NEW th \in Threads, NEW t \in Tasks, CallTake(th, t)
  PROVE  IInv'
<1> USE DEF IInv, None, Some
<1>0. pc' = [pc EXCEPT ![th] = "load"]
  BY DEF CallTake, Then
<1>1. TypeOK'
  BY <1>0, ArcsAssumption DEF TypeOK, CallTake
<1>2. \A u \in Tasks : Active(u)' = IF u = t THEN Active(t) \cup {th} ELSE Active(u)
  BY <1>0 DEF Active, CallTake, TypeOK
<1>3. Count'
  <2>1. th \notin Active(t)
    BY DEF Active, CallTake
  <2>2. Cardinality(Active(t)') = Cardinality(Active(t)) + 1
    BY <1>2, <2>1, ActiveFinite, FS_AddElement
  <2>3. \A u \in Tasks : u # t => Cardinality(Active(u)') = Cardinality(Active(u))
    BY <1>2
  <2>4. Cardinality(Active(t)) \in Nat
    BY ActiveFinite
  <2>5. /\ begun' = [begun EXCEPT ![t] = @ + 1] /\ begun[t] < Uses[t]
        /\ begun \in [Tasks -> Nat] /\ remaining_uses' = remaining_uses
    BY DEF CallTake, TypeOK
  <2>6. ASSUME NEW u \in Tasks
        PROVE  /\ begun'[u] <= Uses[u]
               /\ remaining_uses'[u] = (Uses[u] - begun'[u]) + Cardinality(Active(u)')
    <3>1. /\ begun[u] <= Uses[u]
          /\ remaining_uses[u] = (Uses[u] - begun[u]) + Cardinality(Active(u))
      BY DEF Count
    <3>2. CASE u = t
      <4>1. begun[t] \in Nat /\ Uses[t] \in Nat /\ begun'[t] = begun[t] + 1
        BY <2>5, ArcsAssumption
      <4> QED
        BY <2>2, <2>4, <2>5, <3>1, <3>2, <4>1
    <3>3. CASE u # t
      BY <2>3, <2>5, <3>1, <3>3
    <3> QED
      BY <3>2, <3>3
  <2> QED
    BY <2>6 DEF Count
<1>4. Fresh'
  BY <1>0 DEF Fresh, Busy, CallTake, TypeOK
<1>5. Alone'
  BY <1>0 DEF Alone, Inserting, Busy, CallTake, TypeOK
<1>6. Takers'
  BY <1>0 DEF Takers, Inserting, Busy, CallTake, TypeOK
<1>7. Held'
  <2>1. \A u \in Tasks : Inserting(u)' = Inserting(u)
    BY <1>0 DEF Inserting, Busy, CallTake, TypeOK
  <2> QED
    BY <1>0, <2>1 DEF Held, CallTake, TypeOK
<1>8. NoPanic'
  BY <1>0 DEF NoPanic, CallTake, TypeOK
<1> QED
  BY <1>1, <1>3, <1>4, <1>5, <1>6, <1>7, <1>8

(* The load of take_one finds the output.                                  *)
LEMMA TakeLoadStep ==
  ASSUME IInv, NEW th \in Threads, TakeLoad(th)
  PROVE  IInv'
<1> USE DEF IInv, None, Some
<1>0. pc' = [pc EXCEPT ![th] = "sub"] /\ out' = [out EXCEPT ![th] = Some]
  BY ActiveHeld DEF TakeLoad, Then
<1>1. TypeOK'
  BY <1>0 DEF TypeOK, TakeLoad
<1>2. \A u \in Tasks : Active(u)' = Active(u)
  BY <1>0 DEF Active, TakeLoad, TypeOK
<1>3. Count'
  BY <1>2 DEF Count, TakeLoad
<1>4. Fresh'
  BY <1>0 DEF Fresh, Busy, TakeLoad, TypeOK
<1>5. Alone'
  BY <1>0 DEF Alone, TakeLoad, TypeOK
<1>6. Takers'
  BY <1>0 DEF Takers, TakeLoad, TypeOK
<1>7. Held'
  <2>1. \A u \in Tasks : Inserting(u)' = Inserting(u)
    BY <1>0 DEF Inserting, Busy, TakeLoad, TypeOK
  <2> QED
    BY <1>0, <2>1 DEF Held, TakeLoad, TypeOK
<1>8. NoPanic'
  BY <1>0 DEF NoPanic, TakeLoad, TypeOK
<1> QED
  BY <1>1, <1>3, <1>4, <1>5, <1>6, <1>7, <1>8

(* The fetch_sub of take_one finds its own use still counted.              *)
LEMMA TakeSubStep ==
  ASSUME IInv, NEW th \in Threads, TakeSub(th)
  PROVE  IInv'
<1> DEFINE t == task[th]
           old == remaining_uses[t]
<1> USE DEF IInv, None, Some
<1>0. /\ t \in Tasks /\ pc[th] = "sub"
      /\ old > 0 /\ old \in Nat /\ contents[t] = Some
      /\ remaining_uses' = [remaining_uses EXCEPT ![t] = old - 1]
      /\ pc' = [pc EXCEPT ![th] = IF old = 1 THEN "free" ELSE "return"]
  BY ActiveHeld DEF TakeSub, Then, TypeOK
<1>1. TypeOK'
  BY <1>0 DEF TypeOK, TakeSub
<1>2. \A u \in Tasks : Active(u)' = IF u = t THEN Active(t) \ {th} ELSE Active(u)
  BY <1>0 DEF Active, TakeSub, TypeOK
<1>3. Count'
  <2>1. begun' = begun /\ remaining_uses \in [Tasks -> Nat]
    BY DEF TakeSub, TypeOK
  <2>2. ASSUME NEW u \in Tasks
        PROVE  /\ begun'[u] <= Uses[u]
               /\ remaining_uses'[u] = (Uses[u] - begun'[u]) + Cardinality(Active(u)')
    <3>1. /\ begun[u] <= Uses[u]
          /\ remaining_uses[u] = (Uses[u] - begun[u]) + Cardinality(Active(u))
      BY DEF Count
    <3>2. CASE u = t
      <4>1. th \in Active(u) /\ Active(u)' = Active(u) \ {th}
        BY <1>0, <1>2, <3>2 DEF Active
      <4>2. Cardinality(Active(u)') = Cardinality(Active(u)) - 1
        BY <4>1, ActiveFinite, FS_RemoveElement
      <4>3. Cardinality(Active(u)) \in Nat
        BY ActiveFinite
      <4>4. begun[u] \in Nat /\ Uses[u] \in Nat
        BY ArcsAssumption DEF TypeOK
      <4> QED
        BY <1>0, <2>1, <3>1, <3>2, <4>2, <4>3, <4>4
    <3>3. CASE u # t
      BY <1>0, <1>2, <2>1, <3>1, <3>3
    <3> QED
      BY <3>2, <3>3
  <2> QED
    BY <2>2 DEF Count
<1>4. Fresh'
  BY <1>0 DEF Fresh, Busy, TakeSub, TypeOK
<1>5. Alone'
  BY <1>0 DEF Alone, TakeSub, TypeOK
<1>6. Takers'
  BY <1>0 DEF Takers, TakeSub, TypeOK
<1>7. Held'
  <2>1. \A u \in Tasks : Inserting(u)' = Inserting(u)
    BY <1>0 DEF Inserting, Busy, TakeSub, TypeOK
  <2> QED
    BY <1>0, <2>1 DEF Held, TakeSub, TypeOK
<1>8. NoPanic'
  BY <1>0 DEF NoPanic, TakeSub, TypeOK
<1> QED
  BY <1>1, <1>3, <1>4, <1>5, <1>6, <1>7, <1>8

(* The last user frees; nobody can load any more.                          *)
LEMMA TakeFreeStep ==
  ASSUME IInv, NEW th \in Threads, TakeFree(th)
  PROVE  IInv'
<1> DEFINE t == task[th]
<1> USE DEF IInv, None, Some
<1>0. /\ t \in Tasks /\ t \in inserted /\ remaining_uses[t] = 0
      /\ pc' = [pc EXCEPT ![th] = "return"]
  BY DEF TakeFree, Then, TypeOK, Takers
<1>1. TypeOK'
  BY <1>0 DEF TypeOK, TakeFree
<1>2. \A u \in Tasks : Active(u)' = Active(u)
  BY <1>0 DEF Active, TakeFree, TypeOK
<1>3. Count'
  BY <1>2 DEF Count, TakeFree
<1>4. Fresh'
  BY <1>0 DEF Fresh, Busy, TakeFree, TypeOK
<1>5. Alone'
  BY <1>0 DEF Alone, TakeFree, TypeOK
<1>6. Takers'
  BY <1>0 DEF Takers, TakeFree, TypeOK
<1>7. Held'
  <2>1. \A u \in Tasks : Inserting(u)' = Inserting(u)
    BY <1>0 DEF Inserting, Busy, TakeFree, TypeOK
  <2> QED
    BY <1>0, <2>1 DEF Held, TakeFree, TypeOK
<1>8. NoPanic'
  BY <1>0 DEF NoPanic, TakeFree, TypeOK
<1> QED
  BY <1>1, <1>3, <1>4, <1>5, <1>6, <1>7, <1>8

(* take_one returns what it loaded.                                        *)
LEMMA TakeReturnStep ==
  ASSUME IInv, NEW th \in Threads, TakeReturn(th)
  PROVE  IInv'
<1> USE DEF IInv, None, Some
<1>0. pc[th] = "return" /\ out[th] = Some /\ pc' = [pc EXCEPT ![th] = "idle"]
  BY DEF TakeReturn, Takers
<1>1. TypeOK'
  BY <1>0 DEF TypeOK, TakeReturn
<1>2. \A u \in Tasks : Active(u)' = Active(u)
  BY <1>0 DEF Active, TakeReturn, TypeOK
<1>3. Count'
  BY <1>2 DEF Count, TakeReturn
<1>4. Fresh'
  BY <1>0 DEF Fresh, Busy, TakeReturn, TypeOK
<1>5. Alone'
  BY <1>0 DEF Alone, TakeReturn, TypeOK
<1>6. Takers'
  BY <1>0 DEF Takers, TakeReturn, TypeOK
<1>7. Held'
  <2>1. \A u \in Tasks : Inserting(u)' = Inserting(u)
    BY <1>0 DEF Inserting, Busy, TakeReturn, TypeOK
  <2> QED
    BY <1>0, <2>1 DEF Held, TakeReturn, TypeOK
<1>8. NoPanic'
  BY <1>0 DEF NoPanic, TakeReturn, TypeOK
<1> QED
  BY <1>1, <1>3, <1>4, <1>5, <1>6, <1>7, <1>8

(* The inductive invariant is preserved by every step.                     *)
LEMMA IInvStep == IInv /\ [Next]_vars => IInv'
<1> SUFFICES ASSUME IInv, [Next]_vars PROVE IInv'
  OBVIOUS
<1>1. CASE UNCHANGED vars
  BY <1>1 DEF vars, IInv, TypeOK, Count, Active, Fresh, Alone, Takers, Held,
              NoPanic, Busy, Inserting
<1>2. CASE Next
  BY <1>2, CallInsertStep, InsertTestStep, InsertSwapStep, CallTakeStep,
     TakeLoadStep, TakeSubStep, TakeFreeStep, TakeReturnStep
  DEF Next, Step
<1> QED
  BY <1>1, <1>2

(* Hence it holds in every reachable state.                                *)
LEMMA Invariance == Spec => []IInv
  BY InitIInv, IInvStep, PTL DEF Spec

(* Every reachable state has the declared types: no counter of             *)
(* limited_use_arcs.rs:14 leaves the naturals.                             *)
THEOREM TypeCorrect == Spec => []TypeOK
<1>1. IInv => TypeOK
  BY DEF IInv
<1> QED
  BY Invariance, <1>1, PTL

(* However many threads finish and launch tasks together, and whatever the *)
(* task graph, none of the panics of limited_use_arcs.rs is reached.       *)
THEOREM NeverPanics == Spec => []NoPanic
<1>1. IInv => NoPanic
  BY DEF IInv
<1> QED
  BY Invariance, <1>1, PTL

(* An output is freed by its last use and not before.                      *)
THEOREM FreedInTime == Spec => []FreedByLastUse
<1>1. IInv => FreedByLastUse
  <2> SUFFICES ASSUME IInv, NEW t \in Tasks, Busy(t) = {}
               PROVE  contents[t] = Some <=> t \in inserted /\ remaining_uses[t] > 0
    BY DEF FreedByLastUse
  <2>1. ASSUME contents[t] = Some
        PROVE  t \in inserted /\ remaining_uses[t] > 0
    <3>1. t \in inserted
      BY <2>1 DEF IInv, Fresh, None, Some
    <3>2. remaining_uses[t] # 0
      BY <2>1 DEF IInv, Held, Busy
    <3> QED
      BY <3>1, <3>2 DEF IInv, TypeOK
  <2>2. ASSUME t \in inserted, remaining_uses[t] > 0
        PROVE  contents[t] = Some
    BY <2>2 DEF IInv, Held, Inserting
  <2> QED
    BY <2>1, <2>2
<1> QED
  BY Invariance, <1>1, PTL

(* To its callers the lock-free structure is an atomic one.                *)
THEOREM Implements == Spec => CountedSpec
<1> DEFINE heldBar == {t \in Tasks : contents[t] = Some /\ remaining_uses[t] > 0}
<1>1. Init => Counted!Init
  BY DEF Init, Counted!Init, None, Some
<1>2. IInv /\ [Next]_vars => [Counted!Next]_Counted!vars
  <2> SUFFICES ASSUME IInv, Next
               PROVE  Counted!Next \/ UNCHANGED Counted!vars
    BY DEF vars, Counted!vars
  <2>0. /\ remaining_uses \in [Tasks -> Nat] /\ contents \in [Tasks -> {None, Some}]
        /\ task \in [Threads -> Tasks]
    BY DEF IInv, TypeOK
  <2>1. ASSUME NEW th \in Threads, InsertSwap(th) PROVE Counted!Next
    <3>1. PICK t \in Tasks : t = task[th]
      BY <2>0
    <3>2. /\ contents[t] = None /\ begun[t] = 0 /\ remaining_uses[t] > 0
          /\ \A oth \in Threads \ {th} : pc[oth] # "idle" => task[oth] # t
      BY <2>1, <3>1 DEF InsertSwap, IInv, Alone
    <3>3. Active(t) = {}
      BY <2>1, <3>1, <3>2 DEF InsertSwap, Active
    <3>4. remaining_uses[t] = Uses[t]
      <4>1. Cardinality(Active(t)) = 0
        BY <3>3, FS_EmptySet
      <4>2. remaining_uses[t] = (Uses[t] - begun[t]) + Cardinality(Active(t))
        BY DEF IInv, Count
      <4>3. Uses[t] \in Nat
        BY ArcsAssumption
      <4> QED
        BY <3>2, <4>1, <4>2, <4>3
    <3>5. /\ contents' = [contents EXCEPT ![t] = Some]
          /\ remaining_uses' = remaining_uses
      BY <2>1, <3>1 DEF InsertSwap
    <3>6. heldBar' = heldBar \cup {t} /\ t \notin heldBar
      BY <2>0, <3>2, <3>5 DEF None, Some
    <3> QED
      BY <3>2, <3>4, <3>5, <3>6 DEF Counted!Next, Counted!Insert
  <2>2. ASSUME NEW th \in Threads, TakeSub(th) PROVE Counted!Next
    <3>1. PICK t \in Tasks : t = task[th]
      BY <2>0
    <3>2. contents[t] = Some /\ remaining_uses[t] > 0
      BY <2>2, <3>1, ActiveHeld DEF TakeSub
    <3>3. /\ remaining_uses' = [remaining_uses EXCEPT ![t] = @ - 1]
          /\ contents' = contents
      BY <2>2, <3>1, <3>2 DEF TakeSub
    <3>4. heldBar' = IF remaining_uses[t] = 1 THEN heldBar \ {t} ELSE heldBar
      BY <2>0, <3>2, <3>3
    <3> QED
      BY <3>2, <3>3, <3>4 DEF Counted!Next, Counted!TakeOne
  <2>3. ASSUME NEW th \in Threads, TakeFree(th) PROVE UNCHANGED Counted!vars
    <3>1. remaining_uses[task[th]] = 0
      BY <2>3 DEF TakeFree, IInv, Takers
    <3> QED
      BY <2>0, <2>3, <3>1 DEF TakeFree, Counted!vars, None, Some
  <2>4. ASSUME UNCHANGED <<contents, remaining_uses>>
        PROVE  UNCHANGED Counted!vars
    BY <2>4 DEF Counted!vars
  <2> QED
    BY <2>1, <2>2, <2>3, <2>4
    DEF Next, Step, CallInsert, InsertTest, CallTake, TakeLoad, TakeReturn
<1> QED
  BY Invariance, <1>1, <1>2, PTL DEF Spec, CountedSpec, Counted!Spec
=============================================================================
