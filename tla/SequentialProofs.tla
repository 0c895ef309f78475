-------------------------- MODULE SequentialProofs --------------------------
(***************************************************************************)
(* Proofs about the components that one thread runs from start to end.     *)
(*                                                                         *)
(* EdabitCombine, for every bit size and all masks: the carry and the sum  *)
(* bits are exact round by round (CarryExact), whatever the shares; from   *)
(* that the corrected value opens to what the bits open to.                *)
(*                                                                         *)
(* CircuitBuilder, for any number of prototypes, tasks, messages and       *)
(* inputs.  What the builder writes counts the uses of a task alike at the *)
(* task and at its users (CountsMatch): UseInv adds that inputs are        *)
(* earlier tasks and dependents existing ones, so that a new task is       *)
(* counted nowhere before instantiate counts it.  The rounds are those     *)
(* both parties derive (RoundsMatch): RoundInv says which rounds are       *)
(* complete after how many messages, and whose turn it is.  The manifest   *)
(* is the one the runner's model starts from (WritesManifest): PlanInv     *)
(* says that the dependents list the uses in order and what finish has     *)
(* done with the tasks it has passed.                                      *)
(*                                                                         *)
(* FrameMemory, for frames of any size, any calls and allocations: get     *)
(* gives what was stored last (ReadsLastWrite) and no call panics          *)
(* (CallsSucceed).  FramesRight gives every wire of a circuit one home, a  *)
(* place in the frame that owns it; the pools hold just the ranges the     *)
(* circuits know, the arguments of a frame are the homes of the wires      *)
(* given, given ranges are consecutive, and what was set is found at home. *)
(* A call keeps it slice by slice (CallState).                             *)
(***************************************************************************)
EXTENDS EdabitCombine, CircuitBuilder, FrameMemory, FiniteSetTheorems, WellFoundedInduction, TLAPS

(* Opening the sum of two shares is the sum of what they open to.          *)
LEMMA AddOpens ==
  ASSUME NEW s \in Share(Bit), NEW t \in Share(Bit)
  PROVE  /\ AddBits(s, t) \in Share(Bit)
         /\ OpenBit(s) \in Bit
         /\ OpenBit(AddBits(s, t)) = Xor(OpenBit(s), OpenBit(t))
  BY DEF AddBits, OpenBit, Xor, Share, Bit

(* Adding a constant to the first summand adds it to the opened bit.       *)
LEMMA ConstOpens ==
  ASSUME NEW s \in Share(Bit)
  PROVE  /\ AddBitConst(s, 1) \in Share(Bit)
         /\ OpenBit(AddBitConst(s, 1)) = Xor(OpenBit(s), 1)
  BY DEF AddBitConst, OpenBit, Xor, Share, Bit

(* What a triple has to satisfy, and that its parts are shares.            *)
LEMMA TripleParts ==
  ASSUME NEW t \in Triples
  PROVE  /\ t.a \in Share(Bit) /\ t.b \in Share(Bit) /\ t.c \in Share(Bit)
         /\ OpenBit(t.c) = OpenBit(t.a) * OpenBit(t.b)
  BY DEF Triples

(* multiply_shared_bits: the product opens to the product.                 *)
LEMMA ProductOpens ==
  ASSUME NEW u \in Share(Bit), NEW v \in Share(Bit), NEW t \in Triples
  PROVE  /\ MultiplySharedBits(u, v, t) \in Share(Bit)
         /\ OpenBit(MultiplySharedBits(u, v, t)) = OpenBit(u) * OpenBit(v)
<1> DEFINE d == OpenBit(AddBits(u, t.a))
           e == OpenBit(AddBits(v, t.b))
           c1 == IF d = 1 THEN AddBits(t.c, t.b) ELSE t.c
           c2 == IF e = 1 THEN AddBits(c1, t.a) ELSE c1
           c3 == IF d = 1 /\ e = 1 THEN AddBitConst(c2, 1) ELSE c2
<1>1. /\ t.a \in Share(Bit) /\ t.b \in Share(Bit) /\ t.c \in Share(Bit)
      /\ OpenBit(t.c) = OpenBit(t.a) * OpenBit(t.b)
  BY TripleParts
<1>2. /\ d = Xor(OpenBit(u), OpenBit(t.a)) /\ e = Xor(OpenBit(v), OpenBit(t.b))
      /\ OpenBit(u) \in Bit /\ OpenBit(v) \in Bit
      /\ OpenBit(t.a) \in Bit /\ OpenBit(t.b) \in Bit /\ OpenBit(t.c) \in Bit
  BY <1>1, AddOpens
<1>3. /\ c1 \in Share(Bit)
      /\ OpenBit(c1) = IF d = 1 THEN Xor(OpenBit(t.c), OpenBit(t.b)) ELSE OpenBit(t.c)
  BY <1>1, AddOpens
<1> HIDE DEF c1
<1>4. /\ c2 \in Share(Bit)
      /\ OpenBit(c2) = IF e = 1 THEN Xor(OpenBit(c1), OpenBit(t.a)) ELSE OpenBit(c1)
  BY <1>1, <1>3, AddOpens
<1> HIDE DEF c2
<1>5. /\ c3 \in Share(Bit)
      /\ OpenBit(c3) = IF d = 1 /\ e = 1 THEN Xor(OpenBit(c2), 1) ELSE OpenBit(c2)
  BY <1>4, ConstOpens
<1> HIDE DEF c3, d, e
<1>6. OpenBit(c3) = OpenBit(u) * OpenBit(v)
  BY <1>1, <1>2, <1>3, <1>4, <1>5 DEF Xor, Bit
<1>7. MultiplySharedBits(u, v, t) = c3
  BY DEF MultiplySharedBits, Product, c1, c2, c3, d, e
<1> QED BY <1>5, <1>6, <1>7

(* convert_shared_bits_to_field: the field share opens to the bit.         *)
LEMMA ConvertOpens ==
  ASSUME NEW s \in Share(Bit), NEW b \in Dabits
  PROVE  /\ ConvertBit(s, b) \in Share(Int)
         /\ OpenField(ConvertBit(s, b)) = OpenBit(s)
<1>1. PICK bs \in Share(Bit), m \in Masks :
         b = [bit |-> bs, value |-> [first |-> m, second |-> OpenBit(bs) - m]]
  BY DEF Dabits
<1>2. m \in Int
  BY CombineAssumption
<1>3. /\ OpenBit(s) \in Bit /\ OpenBit(bs) \in Bit
      /\ OpenBit(AddBits(s, bs)) = Xor(OpenBit(s), OpenBit(bs))
  BY AddOpens
<1>4. /\ b.bit = bs /\ b.value \in Share(Int)
      /\ b.value.first = m /\ b.value.second = OpenBit(bs) - m
  BY <1>1, <1>2, <1>3 DEF Share, Bit
<1>5. CASE OpenBit(AddBits(s, bs)) = 0
  <2>1. OpenBit(s) = OpenBit(bs)
    BY <1>3, <1>5 DEF Xor
  <2> QED BY <1>2, <1>3, <1>4, <1>5, <2>1 DEF ConvertBit, OpenField, Bit
<1>6. CASE OpenBit(AddBits(s, bs)) # 0
  <2>1. OpenBit(s) = 1 - OpenBit(bs)
    BY <1>3, <1>6 DEF Xor, Bit
  <2>2. ConvertBit(s, b) = [first |-> -1 * m + 1, second |-> -1 * (OpenBit(bs) - m)]
    BY <1>2, <1>3, <1>4, <1>6 DEF ConvertBit, AddFieldConst, Scale, Share
  <2> QED BY <1>2, <1>3, <2>1, <2>2 DEF OpenField, Share, Bit
<1> QED BY <1>5, <1>6

-----------------------------------------------------------------------------
AdderInv == TypeOK /\ CarryExact

(* A round of the adder: twice the new carry and the sum bit are what goes *)
(* into it.                                                                *)
LEMMA FullAdder ==
  ASSUME NEW xi \in Share(Bit), NEW yi \in Share(Bit), NEW c \in Share(Bit),
         NEW t \in Triples
  PROVE  LET out == AddBits(c, MultiplySharedBits(AddBits(xi, c), AddBits(yi, c), t))
             sum == AddBits(AddBits(xi, c), yi)
         IN  /\ out \in Share(Bit)
             /\ OpenBit(sum) \in Bit /\ OpenBit(out) \in Bit
             /\ 2 * OpenBit(out) + OpenBit(sum) = OpenBit(xi) + OpenBit(yi) + OpenBit(c)
<1> DEFINE u == AddBits(xi, c)
           v == AddBits(yi, c)
           p == MultiplySharedBits(u, v, t)
           out == AddBits(c, p)
           sum == AddBits(u, yi)
<1>1. /\ u \in Share(Bit) /\ v \in Share(Bit)
      /\ OpenBit(u) = Xor(OpenBit(xi), OpenBit(c))
      /\ OpenBit(v) = Xor(OpenBit(yi), OpenBit(c))
      /\ OpenBit(xi) \in Bit /\ OpenBit(yi) \in Bit /\ OpenBit(c) \in Bit
  BY AddOpens
<1> HIDE DEF u, v
<1>2. p \in Share(Bit) /\ OpenBit(p) = OpenBit(u) * OpenBit(v)
  BY <1>1, ProductOpens
<1> HIDE DEF p
<1>3. /\ out \in Share(Bit) /\ sum \in Share(Bit)
      /\ OpenBit(out) = Xor(OpenBit(c), OpenBit(p))
      /\ OpenBit(sum) = Xor(OpenBit(u), OpenBit(yi))
  BY <1>1, <1>2, AddOpens
<1> HIDE DEF out, sum
<1>4. OpenBit(out) \in Bit /\ OpenBit(sum) \in Bit
  BY <1>3, AddOpens
<1>5. 2 * OpenBit(out) + OpenBit(sum) = OpenBit(xi) + OpenBit(yi) + OpenBit(c)
  BY <1>1, <1>2, <1>3 DEF Xor, Bit
<1> QED BY <1>3, <1>4, <1>5 DEF out, sum, p, u, v

(* The equation of the full adder holds at any weight.                     *)
LEMMA Weighted ==
  ASSUME NEW w \in Nat, NEW a \in Bit, NEW b \in Bit, NEW c \in Bit,
         NEW s \in Bit, NEW n \in Bit, 2 * n + s = a + b + c
  PROVE  (2 * w) * n + w * s = w * a + w * b + w * c
<1>1. CASE n = 0
  <2>1. CASE s = 0
    BY <1>1, <2>1 DEF Bit
  <2>2. CASE s = 1
    BY <1>1, <2>2 DEF Bit
  <2> QED BY <2>1, <2>2 DEF Bit
<1>2. CASE n = 1
  <2>1. CASE s = 0
    BY <1>2, <2>1 DEF Bit
  <2>2. CASE s = 1
    BY <1>2, <2>2 DEF Bit
  <2> QED BY <2>1, <2>2 DEF Bit
<1> QED BY <1>1, <1>2 DEF Bit

(* A weighted bit is a natural number.                                     *)
LEMMA WeightedBit ==
  ASSUME NEW w \in Nat, NEW b \in Bit
  PROVE  w * b \in Nat /\ (2 * w) * b \in Nat
<1>1. CASE b = 0
  BY <1>1
<1>2. CASE b = 1
  BY <1>2
<1> QED BY <1>1, <1>2 DEF Bit

(* Before the first round nothing is carried.                              *)
LEMMA AdderInitially == Init => AdderInv
  BY CombineAssumption
     DEF Init, AdderInv, TypeOK, CarryExact, Zero, Share, Bit, OpenBit, Xor

(* A round of the adder keeps it exact.                                    *)
LEMMA AddBitInv ==
  ASSUME AdderInv, NEW xi \in Share(Bit), NEW yi \in Share(Bit), NEW t \in Triples,
         AddBit(xi, yi, t)
  PROVE  AdderInv'
<1> DEFINE out == AddBits(carry, MultiplySharedBits(AddBits(xi, carry), AddBits(yi, carry), t))
           sum == AddBits(AddBits(xi, carry), yi)
<1>1. carry \in Share(Bit) /\ weight \in Nat
  BY DEF AdderInv, TypeOK
<1>2. /\ out \in Share(Bit)
      /\ OpenBit(sum) \in Bit /\ OpenBit(out) \in Bit
      /\ 2 * OpenBit(out) + OpenBit(sum) = OpenBit(xi) + OpenBit(yi) + OpenBit(carry)
  BY <1>1, FullAdder
<1>3. OpenBit(xi) \in Bit /\ OpenBit(yi) \in Bit /\ OpenBit(carry) \in Bit
  BY <1>1, AddOpens
<1>4. /\ carry' = out /\ opened' = opened + weight * OpenBit(sum)
      /\ x' = x + weight * OpenBit(xi) /\ y' = y + weight * OpenBit(yi)
      /\ bit_idx' = bit_idx + 1 /\ weight' = 2 * weight /\ value' = value
      /\ bit_idx < BitSize
  BY DEF AddBit
<1> HIDE DEF out, sum
<1>5. (2 * weight) * OpenBit(out) + weight * OpenBit(sum)
        = weight * OpenBit(xi) + weight * OpenBit(yi) + weight * OpenBit(carry)
  BY <1>1, <1>2, <1>3, Weighted
<1>6. /\ weight * OpenBit(sum) \in Int /\ weight * OpenBit(xi) \in Int
      /\ weight * OpenBit(yi) \in Int /\ weight * OpenBit(carry) \in Int
      /\ (2 * weight) * OpenBit(out) \in Int
  BY <1>1, <1>2, <1>3, WeightedBit
<1>7. TypeOK'
  BY <1>1, <1>2, <1>4, <1>6, CombineAssumption DEF AdderInv, TypeOK
<1>8. CarryExact'
  <2>1. OpenBit(carry)' = OpenBit(out)
    BY <1>4 DEF OpenBit
  <2>2. opened + weight * OpenBit(carry) = x + y
    BY DEF AdderInv, CarryExact
  <2>3. opened \in Int /\ x \in Int /\ y \in Int
    BY DEF AdderInv, TypeOK
  <2>4. (opened + weight * OpenBit(sum)) + (2 * weight) * OpenBit(out)
          = (x + weight * OpenBit(xi)) + (y + weight * OpenBit(yi))
    BY <1>5, <1>6, <2>2, <2>3
  <2> QED BY <1>4, <2>1, <2>4 DEF CarryExact
<1> QED BY <1>7, <1>8 DEF AdderInv

(* The value after the correction: the sum of the private values less the  *)
(* weight of the carry.                                                    *)
LEMMA CorrectedOpens ==
  ASSUME NEW w \in Nat, NEW a \in Int, NEW b \in Int, NEW ma \in Int, NEW mb \in Int,
         NEW s \in Share(Int), w = weight
  PROVE  LET v == Corrected(AddFields([first |-> ma, second |-> a - ma],
                                      [first |-> b - mb, second |-> mb]), s)
         IN  v \in Share(Int) /\ OpenField(v) = a + b - w * OpenField(s)
<1>1. PICK p \in Int, q \in Int : s = [first |-> p, second |-> q]
  BY DEF Share
<1>2. w * p \in Int /\ w * q \in Int /\ -w * p = -(w * p) /\ -w * q = -(w * q)
  BY <1>1
<1>3. w * (p + q) = w * p + w * q
  BY <1>1
<1> QED BY <1>1, <1>2, <1>3 DEF Corrected, AddFields, Scale, OpenField, Share

(* The conversion subtracts the weighted carry.                            *)
LEMMA ConvertInv ==
  ASSUME AdderInv, NEW b \in Dabits, NEW mx \in Masks, NEW my \in Masks,
         Convert(b, mx, my)
  PROVE  AdderInv' /\ OpenField(value)' = x + y - weight * OpenBit(carry)
<1> DEFINE s == ConvertBit(carry, b)
           v == Corrected(AddFields([first |-> mx, second |-> x - mx],
                                    [first |-> y - my, second |-> my]), s)
<1>1. /\ carry \in Share(Bit) /\ weight \in Nat /\ x \in Int /\ y \in Int
      /\ mx \in Int /\ my \in Int
  BY CombineAssumption DEF AdderInv, TypeOK
<1>2. s \in Share(Int) /\ OpenField(s) = OpenBit(carry)
  BY <1>1, ConvertOpens
<1> HIDE DEF s
<1>3. v \in Share(Int) /\ OpenField(v) = x + y - weight * OpenField(s)
  BY <1>1, <1>2, CorrectedOpens
<1> HIDE DEF v
<1>4. /\ value' = v /\ bit_idx' = BitSize + 1
      /\ UNCHANGED <<weight, carry, x, y, opened>>
  BY DEF Convert, v, s
<1>5. TypeOK'
  BY <1>3, <1>4, CombineAssumption DEF AdderInv, TypeOK
<1>6. CarryExact'
  BY <1>4 DEF AdderInv, CarryExact, OpenBit
<1>7. OpenField(value)' = OpenField(v)
  BY <1>4 DEF OpenField
<1> QED BY <1>2, <1>3, <1>5, <1>6, <1>7 DEF AdderInv

(* There is no combined edaBit yet.                                        *)
LEMMA ConsistentInit == Init => Consistent
  BY CombineAssumption DEF Init, Consistent

(* Only the conversion makes one.                                          *)
LEMMA ConsistentStep == AdderInv /\ Consistent /\ [Next]_vars => Consistent'
<1> SUFFICES ASSUME AdderInv, Consistent, [Next]_vars
             PROVE  Consistent'
  OBVIOUS
<1>1. ASSUME NEW xi \in Share(Bit), NEW yi \in Share(Bit), NEW t \in Triples,
             AddBit(xi, yi, t)
      PROVE  Consistent'
  <2>1. bit_idx' # BitSize + 1
    BY <1>1, CombineAssumption DEF AddBit, AdderInv, TypeOK
  <2> QED BY <2>1 DEF Consistent
<1>2. ASSUME NEW b \in Dabits, NEW mx \in Masks, NEW my \in Masks,
             Convert(b, mx, my)
      PROVE  Consistent'
  <2>1. OpenField(value)' = x + y - weight * OpenBit(carry)
    BY <1>2, ConvertInv
  <2>2. /\ opened + weight * OpenBit(carry) = x + y
        /\ opened \in Int /\ x \in Int /\ y \in Int
    BY DEF AdderInv, CarryExact, TypeOK
  <2>3. weight * OpenBit(carry) \in Int
    BY AddOpens DEF AdderInv, TypeOK, Bit
  <2>4. opened' = opened
    BY <1>2 DEF Convert
  <2> QED BY <2>1, <2>2, <2>3, <2>4 DEF Consistent
<1>3. ASSUME UNCHANGED vars
      PROVE  Consistent'
  BY <1>3 DEF vars, Consistent, OpenField
<1> QED BY <1>1, <1>2, <1>3 DEF Next

(* One case per action.                                                    *)
LEMMA AdderKept == AdderInv /\ [Next]_vars => AdderInv'
<1> SUFFICES ASSUME AdderInv, [Next]_vars
             PROVE  AdderInv'
  OBVIOUS
<1>1. ASSUME UNCHANGED vars
      PROVE  AdderInv'
  BY <1>1 DEF vars, AdderInv, TypeOK, CarryExact, OpenBit
<1> QED BY <1>1, AddBitInv, ConvertInv DEF Next

(* The adder is exact for every number of bits and whatever the shares.    *)
THEOREM AdderExact == Spec => []CarryExact
<1>1. AdderInv => CarryExact
  BY DEF AdderInv
<1> QED BY <1>1, AdderInitially, AdderKept, PTL DEF Spec

(* Every combined edaBit has the value of its bits.                        *)
THEOREM CombinesToEdabit == Spec => []Consistent
<1>1. Spec => []AdderInv
  BY AdderInitially, AdderKept, PTL DEF Spec
<1> QED BY <1>1, ConsistentInit, ConsistentStep, PTL DEF Spec
-----------------------------------------------------------------------------
(* The places where a sequence has t are finitely many.                    *)
LEMMA UsesType ==
  ASSUME NEW S, NEW s \in Seq(S), NEW t
  PROVE  Uses(s, t) \in Nat /\ IsFiniteSet({i \in DOMAIN s : s[i] = t})
<1>1. DOMAIN s = 1 .. Len(s) /\ Len(s) \in Nat
  OBVIOUS
<1>2. IsFiniteSet(DOMAIN s)
  BY <1>1, FS_Interval
<1>3. IsFiniteSet({i \in DOMAIN s : s[i] = t})
  BY <1>2, FS_Subset
<1> QED BY <1>3, FS_CardinalityType DEF Uses

(* What is not in the range of a sequence is used by none of its places.   *)
LEMMA UsesAbsent ==
  ASSUME NEW S, NEW s \in Seq(S), NEW t, t \notin S
  PROVE  Uses(s, t) = 0
<1>1. {i \in DOMAIN s : s[i] = t} = {}
  OBVIOUS
<1> QED BY <1>1, FS_EmptySet DEF Uses

(* A task without dependents is used by none.                              *)
LEMMA UsesNothing == ASSUME NEW t PROVE Uses(<<>>, t) = 0
<1>1. {i \in DOMAIN <<>> : <<>>[i] = t} = {}
  OBVIOUS
<1> QED BY <1>1, FS_EmptySet DEF Uses

(* instantiate appends the new task n times to a list of dependents.       *)
LEMMA UsesExtended ==
  ASSUME NEW S, NEW s \in Seq(S), NEW z \in S, NEW t, NEW n \in Nat
  PROVE  /\ s \o Repeat(z, n) \in Seq(S)
         /\ Uses(s \o Repeat(z, n), t) = Uses(s, t) + (IF t = z THEN n ELSE 0)
<1> DEFINE r == Repeat(z, n)
           u == s \o r
           Old == {i \in DOMAIN s : s[i] = t}
           New == IF t = z THEN Len(s) + 1 .. Len(s) + n ELSE {}
<1>1. r \in Seq(S) /\ Len(r) = n /\ \A i \in 1 .. n : r[i] = z
  BY DEF Repeat
<1> HIDE DEF r
<1>2. /\ u \in Seq(S) /\ DOMAIN u = 1 .. Len(s) + n
      /\ \A i \in 1 .. Len(s) + n : u[i] = IF i <= Len(s) THEN s[i] ELSE z
  BY <1>1
<1> HIDE DEF u
<1>3. {i \in DOMAIN u : u[i] = t} = Old \cup New
  BY <1>2
<1>4. Old \cap New = {}
  OBVIOUS
<1>5. IsFiniteSet(Old) /\ Cardinality(Old) \in Nat
  BY UsesType, FS_CardinalityType
<1>6. IsFiniteSet(New) /\ Cardinality(New) = IF t = z THEN n ELSE 0
  <2>1. CASE t = z
    <3> DEFINE a == Len(s) + 1
               b == Len(s) + n
    <3>1. a \in Int /\ b \in Int /\ IF a > b THEN n = 0 ELSE b - a + 1 = n
      OBVIOUS
    <3>2. New = a .. b
      BY <2>1
    <3> HIDE DEF New, a, b
    <3>3. IsFiniteSet(a .. b) /\ Cardinality(a .. b) = IF a > b THEN 0 ELSE b - a + 1
      BY <3>1, FS_Interval
    <3> QED BY <2>1, <3>1, <3>2, <3>3
  <2>2. CASE t # z
    BY <2>2, FS_EmptySet
  <2> QED BY <2>1, <2>2
<1> HIDE DEF Old, New
<1>7. Cardinality(Old \cup New) = Cardinality(Old) + Cardinality(New)
  <2>1. Cardinality(Old \cup New)
          = Cardinality(Old) + Cardinality(New) - Cardinality(Old \cap New)
    BY <1>5, <1>6, FS_Union
  <2>2. Cardinality(Old \cap New) = 0
    BY <1>4, FS_EmptySet
  <2>3. Cardinality(New) \in Nat
    BY <1>6
  <2> QED BY <1>5, <2>1, <2>2, <2>3
<1> QED BY <1>2, <1>3, <1>6, <1>7 DEF Uses, u, r, Old, New
(* A table over 1 .. n is a sequence of its entries, and one more can be   *)
(* appended.                                                               *)
LEMMA TableAppended ==
  ASSUME NEW n \in Nat, NEW f, f = [k \in 1 .. n |-> f[k]], NEW e
  PROVE  /\ Append(f, e) \in Seq({f[k] : k \in 1 .. n} \cup {e})
         /\ Len(Append(f, e)) = n + 1
         /\ \A k \in 1 .. n : Append(f, e)[k] = f[k]
         /\ Append(f, e)[n + 1] = e
<1> DEFINE S == {f[k] : k \in 1 .. n} \cup {e}
<1>1. \A k \in 1 .. n : f[k] \in S
  OBVIOUS
<1>2. e \in S
  OBVIOUS
<1> HIDE DEF S
<1>3. f \in [1 .. n -> S]
  BY <1>1
<1>4. f \in Seq(S) /\ Len(f) = n
  BY <1>3
<1>5. /\ Append(f, e) \in Seq(S) /\ Len(Append(f, e)) = n + 1
      /\ \A k \in 1 .. n : Append(f, e)[k] = f[k]
      /\ Append(f, e)[n + 1] = e
  BY <1>2, <1>4
<1> QED BY <1>5 DEF S
-----------------------------------------------------------------------------
(* Tasks are a sequence of records.                                        *)
Recorded(r) == r = [prototype |-> r.prototype, dependencies |-> r.dependencies,
                    dependents |-> r.dependents, inputs |-> r.inputs,
                    priority |-> r.priority]
IsSequence(ts) == \E T : ts \in Seq(T)
Shape == /\ IsSequence(tasks)
         /\ \A t \in TaskIds : Recorded(Task(t))

(* Inputs are earlier tasks and the dependencies, dependents are existing  *)
(* tasks.                                                                  *)
Ordered ==
  \A t \in TaskIds : /\ Task(t).inputs \in Seq(0 .. t - 1)
                     /\ Task(t).dependencies = Task(t).inputs
                     /\ Task(t).dependents \in Seq(TaskIds)
                     /\ Task(t).prototype \in DOMAIN prototypes

UseInv == Shape /\ Ordered /\ CountsMatch

(* Nothing is built yet.                                                   *)
LEMMA Initially == BuilderInit => UseInv
<1>1. SUFFICES ASSUME BuilderInit PROVE UseInv
  OBVIOUS
<1>2. tasks = <<>> /\ tasks \in Seq({}) /\ TaskIds = {}
  BY <1>1 DEF BuilderInit, TaskIds, NumTasks
<1> QED BY <1>2 DEF UseInv, Shape, IsSequence, Ordered, CountsMatch

(* Steps that leave what is counted alone.                                 *)
LEMMA Unrelated ==
  ASSUME UseInv,
         IsSequence(tasks'), NumTasks' = NumTasks, UNCHANGED prototypes,
         \A t \in TaskIds : /\ Recorded(Task(t)')
                            /\ Task(t)'.inputs = Task(t).inputs
                            /\ Task(t)'.prototype = Task(t).prototype
                            /\ Task(t)'.dependencies = Task(t).dependencies
                            /\ Task(t)'.dependents = Task(t).dependents
  PROVE  UseInv'
<1>1. TaskIds' = TaskIds
  BY DEF TaskIds
<1>2. Shape'
  BY <1>1 DEF Shape
<1>3. Ordered'
  BY <1>1 DEF UseInv, Ordered
<1>4. CountsMatch'
  BY <1>1 DEF UseInv, CountsMatch
<1> QED BY <1>2, <1>3, <1>4 DEF UseInv

(* finish changes the priority of one task only.                           *)
LEMMA OneFinished ==
  ASSUME UseInv, FinishTask
  PROVE  /\ IsSequence(tasks') /\ NumTasks' = NumTasks /\ TaskIds' = TaskIds
         /\ \A t \in TaskIds : /\ Recorded(Task(t)')
                               /\ Task(t)'.inputs = Task(t).inputs
                               /\ Task(t)'.prototype = Task(t).prototype
                               /\ Task(t)'.dependencies = Task(t).dependencies
                               /\ Task(t)'.dependents = Task(t).dependents
                               /\ Task(t)'.priority = IF t = next THEN Task(t).priority + Delta(t)
                                                      ELSE Task(t).priority
<1>1. PICK T : tasks \in Seq(T)
  BY DEF UseInv, Shape, IsSequence
<1>2. next + 1 \in DOMAIN tasks
  BY <1>1 DEF FinishTask, TaskIds, NumTasks
<1> DEFINE p == Task(next).priority + Delta(next)
           r == [Task(next) EXCEPT !.priority = p]
<1>3. tasks' = [tasks EXCEPT ![next + 1] = r]
  BY DEF FinishTask, Task
<1> HIDE DEF p
<1>4. tasks' \in Seq(T \cup {r}) /\ Len(tasks') = Len(tasks)
  BY <1>1, <1>2, <1>3
<1>5. Recorded(Task(next))
  BY DEF UseInv, Shape, FinishTask
<1>6. /\ Recorded(r) /\ r.inputs = Task(next).inputs
      /\ r.dependencies = Task(next).dependencies
      /\ r.dependents = Task(next).dependents
      /\ r.prototype = Task(next).prototype
      /\ r.priority = p
  BY <1>5 DEF Recorded
<1> HIDE DEF r
<1>7. NumTasks' = NumTasks /\ TaskIds' = TaskIds
  BY <1>4 DEF NumTasks, TaskIds
<1>8. ASSUME NEW t \in TaskIds
      PROVE  Task(t)' = IF t = next THEN r ELSE Task(t)
  <2>1. t + 1 \in DOMAIN tasks
    BY <1>1 DEF TaskIds, NumTasks
  <2> QED BY <1>1, <1>2, <1>3, <2>1 DEF Task, FinishTask, TaskIds, NumTasks
<1>9. ASSUME NEW t \in TaskIds
      PROVE  /\ Recorded(Task(t)')
             /\ Task(t)'.inputs = Task(t).inputs
             /\ Task(t)'.prototype = Task(t).prototype
             /\ Task(t)'.dependencies = Task(t).dependencies
             /\ Task(t)'.dependents = Task(t).dependents
             /\ Task(t)'.priority = IF t = next THEN Task(t).priority + Delta(t)
                                    ELSE Task(t).priority
  BY <1>6, <1>8 DEF UseInv, Shape, p
<1> QED BY <1>4, <1>7, <1>9 DEF IsSequence

(* The inputs of a task are sequences.                                     *)
LEMMA AtMostSeq == ASSUME NEW n, NEW S, NEW s \in AtMost(n, S) PROVE s \in Seq(S)
BY DEF AtMost

(* instantiate appends a task and its number to the dependents of its      *)
(* sources, as often as it uses them.                                      *)
Grown(n, src, i) ==
  /\ n \in Nat /\ n = NumTasks /\ TaskIds = 0 .. n - 1
  /\ src \in Seq(0 .. n - 1)
  /\ IsSequence(tasks') /\ NumTasks' = n + 1 /\ TaskIds' = 0 .. n
  /\ Task(n)' = [prototype |-> i, dependencies |-> src,
                 dependents |-> <<>>, inputs |-> src,
                 priority |-> -Len(prototypes[i].rounds) - 1]
  /\ \A t \in 0 .. n - 1 :
       /\ Uses(src, t) \in Nat
       /\ Task(t)' = [Task(t) EXCEPT !.dependents =
                        Task(t).dependents \o Repeat(n, Uses(src, t))]

LEMMA Instantiated ==
  ASSUME UseInv,
         NEW i \in DOMAIN prototypes,
         NEW single \in AtMost(MaxSingle, TaskIds),
         NEW multi \in AtMost(MaxMulti, TaskIds),
         Instantiate(i, single, multi)
  PROVE  \E n, src : src = single \o multi /\ Grown(n, src, i)
<1>0. PICK n, src : n = NumTasks /\ src = single \o multi
  OBVIOUS
<1>1. PICK T : tasks \in Seq(T)
  BY DEF UseInv, Shape, IsSequence
<1>2. n \in Nat /\ n = Len(tasks) /\ DOMAIN tasks = 1 .. n /\ TaskIds = 0 .. n - 1
  BY <1>0, <1>1 DEF NumTasks, TaskIds
<1> DEFINE new == [prototype |-> i, dependencies |-> src,
                   dependents |-> <<>>, inputs |-> src,
                   priority |-> -Len(prototypes[i].rounds) - 1]
           old == [k \in DOMAIN tasks |->
                     [tasks[k] EXCEPT !.dependents = @ \o Repeat(n, NewUses(src, k - 1))]]
<1>3. src \in Seq(0 .. n - 1)
  <2>1. single \in Seq(TaskIds) /\ multi \in Seq(TaskIds)
    BY AtMostSeq
  <2> QED BY <1>0, <1>2, <2>1
<1>4. tasks' = Append(old, new)
  BY <1>0, <1>2 DEF Instantiate, Sources, InitialPriority
<1>5. \A t \in 0 .. n - 1 : NewUses(src, t) \in Nat /\ NewUses(src, t) = Uses(src, t)
  BY <1>3, UsesType DEF NewUses
<1>6. old = [k \in 1 .. n |-> old[k]]
  BY <1>2
<1> HIDE DEF old, new
<1>7. /\ tasks' \in Seq({old[k] : k \in 1 .. n} \cup {new}) /\ Len(tasks') = n + 1
      /\ \A k \in 1 .. n : tasks'[k] = old[k]
      /\ tasks'[n + 1] = new
  BY <1>2, <1>4, <1>6, TableAppended
<1>8. NumTasks' = n + 1 /\ TaskIds' = 0 .. n
  BY <1>2, <1>7 DEF NumTasks, TaskIds
<1>9. ASSUME NEW t \in 0 .. n - 1
      PROVE  Task(t)' = [Task(t) EXCEPT !.dependents =
                           Task(t).dependents \o Repeat(n, Uses(src, t))]
  <2>1. t + 1 \in 1 .. n /\ (t + 1) - 1 = t
    BY <1>2
  <2>2. old[t + 1] = [tasks[t + 1] EXCEPT !.dependents = @ \o Repeat(n, NewUses(src, (t + 1) - 1))]
    BY <1>2, <2>1 DEF old
  <2> QED BY <1>5, <1>7, <2>1, <2>2 DEF Task
<1>10. Task(n)' = new
  BY <1>7 DEF Task
<1>11. IsSequence(tasks')
  BY <1>7 DEF IsSequence
<1>12. \A t \in 0 .. n - 1 : Uses(src, t) \in Nat
  BY <1>5
<1>13. Grown(n, src, i)
  BY <1>0, <1>2, <1>3, <1>8, <1>9, <1>10, <1>11, <1>12 DEF new, Grown
<1> QED BY <1>0, <1>13

(* finish changes priorities only.                                         *)
LEMMA FinishKeeps ==
  ASSUME UseInv, FinishTask
  PROVE  UseInv'
<1>1. UNCHANGED prototypes
  BY DEF FinishTask
<1> QED BY <1>1, OneFinished, Unrelated

(* A new task is counted at its sources as often as it uses them.          *)
LEMMA InstantiateKeeps ==
  ASSUME UseInv,
         NEW i \in DOMAIN prototypes,
         NEW single \in AtMost(MaxSingle, TaskIds),
         NEW multi \in AtMost(MaxMulti, TaskIds),
         Instantiate(i, single, multi)
  PROVE  UseInv'
<1>1. PICK n, src : src = single \o multi /\ Grown(n, src, i)
  BY Instantiated
<1> DEFINE grown(t) == Task(t).dependents \o Repeat(n, Uses(src, t))
           new == [prototype |-> i, dependencies |-> src,
                   dependents |-> <<>>, inputs |-> src,
                   priority |-> -Len(prototypes[i].rounds) - 1]
<1>2. n \in Nat /\ n = NumTasks /\ TaskIds = 0 .. n - 1
  BY <1>1 DEF Grown
<1>3. src \in Seq(0 .. n - 1)
  BY <1>1 DEF Grown
<1>5. \A t \in 0 .. n - 1 : Uses(src, t) \in Nat
  BY <1>1 DEF Grown
<1>7. /\ IsSequence(tasks') /\ NumTasks' = n + 1 /\ TaskIds' = 0 .. n
      /\ Task(n)' = new
      /\ \A t \in 0 .. n - 1 : Task(t)' = [Task(t) EXCEPT !.dependents = grown(t)]
  BY <1>1 DEF Grown
<1> HIDE DEF new
<1>8. new = [prototype |-> i, dependencies |-> src, dependents |-> <<>>, inputs |-> src,
             priority |-> -Len(prototypes[i].rounds) - 1]
  BY DEF new
<1>9. ASSUME NEW t \in 0 .. n - 1
      PROVE  /\ Recorded(Task(t)')
             /\ Task(t)'.inputs = Task(t).inputs /\ Task(t).inputs \in Seq(0 .. t - 1)
             /\ Task(t)'.prototype \in DOMAIN prototypes
             /\ Task(t)'.dependencies = Task(t)'.inputs
             /\ Task(t)'.dependents \in Seq(0 .. n)
             /\ \A d : Uses(Task(t)'.dependents, d)
                         = Uses(Task(t).dependents, d) + (IF d = n THEN Uses(src, t) ELSE 0)
  <2>1. /\ Recorded(Task(t)) /\ Task(t).inputs \in Seq(0 .. t - 1)
        /\ Task(t).dependencies = Task(t).inputs
        /\ Task(t).prototype \in DOMAIN prototypes
        /\ Task(t).dependents \in Seq(0 .. n - 1)
    BY <1>2 DEF UseInv, Shape, Ordered
  <2>2. Task(t).dependents \in Seq(0 .. n) /\ n \in 0 .. n
    BY <1>2, <2>1
  <2>3. /\ grown(t) \in Seq(0 .. n)
        /\ \A d : Uses(grown(t), d)
                    = Uses(Task(t).dependents, d) + (IF d = n THEN Uses(src, t) ELSE 0)
    <3> DEFINE s == Task(t).dependents
               m == Uses(src, t)
               S == 0 .. n
    <3>1. m \in Nat /\ m = Uses(src, t) /\ s \in Seq(S) /\ n \in S
      BY <1>5, <2>2
    <3> HIDE DEF s, m, S
    <3>2. ASSUME NEW d
          PROVE  /\ s \o Repeat(n, m) \in Seq(S)
                 /\ Uses(s \o Repeat(n, m), d) = Uses(s, d) + (IF d = n THEN m ELSE 0)
      BY <3>1, UsesExtended
    <3> QED BY <3>1, <3>2 DEF s, m, S
  <2>4. Task(t)' = [Task(t) EXCEPT !.dependents = grown(t)]
    BY <1>7
  <2> HIDE DEF grown
  <2> QED BY <2>1, <2>3, <2>4 DEF Recorded
<1>10. Recorded(Task(n)') /\ Task(n)'.inputs = src /\ Task(n)'.dependencies = src
       /\ Task(n)'.dependents = <<>> /\ Task(n)'.prototype = i
  BY <1>7, <1>8 DEF Recorded
<1>11. Shape'
  BY <1>2, <1>7, <1>9, <1>10 DEF Shape
<1>12. Ordered'
  <2>1. ASSUME NEW t \in 0 .. n
        PROVE  /\ Task(t)'.inputs \in Seq(0 .. t - 1)
               /\ Task(t)'.dependencies = Task(t)'.inputs
               /\ Task(t)'.dependents \in Seq(0 .. n)
               /\ Task(t)'.prototype \in DOMAIN prototypes
    <3>1. CASE t \in 0 .. n - 1
      BY <1>9, <3>1
    <3>2. CASE t = n
      <4>1. <<>> \in Seq(0 .. n)
        OBVIOUS
      <4>2. /\ Task(t)'.inputs = src /\ Task(t)'.dependencies = src
            /\ Task(t)'.dependents = <<>> /\ Task(t)'.prototype = i
        BY <1>10, <3>2
      <4> QED BY <1>3, <3>2, <4>1, <4>2
    <3> QED BY <1>2, <3>1, <3>2
  <2>2. UNCHANGED prototypes
    BY DEF Instantiate
  <2> QED BY <1>7, <2>1, <2>2 DEF Ordered
<1>13. CountsMatch'
  <2>1. ASSUME NEW t \in 0 .. n, NEW d \in 0 .. n
        PROVE  /\ Uses(Task(t)'.dependents, d) = Uses(Task(d)'.inputs, t)
               /\ Uses(Task(d)'.dependencies, t) = Uses(Task(d)'.inputs, t)
    <3>1. CASE t \in 0 .. n - 1 /\ d \in 0 .. n - 1
      <4>1. Uses(Task(t).dependents, d) = Uses(Task(d).inputs, t)
        BY <1>2, <3>1 DEF UseInv, CountsMatch
      <4>2. Task(d).inputs \in Seq(0 .. d - 1) /\ d # n
        BY <1>9, <3>1
      <4>3. Uses(Task(d).inputs, t) \in Nat
        BY <4>2, UsesType
      <4>4. Uses(Task(t)'.dependents, d) = Uses(Task(t).dependents, d) + 0
        BY <1>9, <3>1, <4>2
      <4> QED BY <1>9, <3>1, <4>1, <4>3, <4>4
    <3>2. CASE t \in 0 .. n - 1 /\ d = n
      <4>1. Task(t).dependents \in Seq(0 .. n - 1)
        BY <1>2, <3>2 DEF UseInv, Ordered
      <4>2. Uses(Task(t).dependents, n) = 0
        BY <1>2, <4>1, UsesAbsent
      <4>3. Uses(src, t) \in Nat
        BY <1>3, UsesType
      <4>4. Uses(Task(t)'.dependents, n) = 0 + Uses(src, t)
        BY <1>9, <3>2, <4>2
      <4> QED BY <1>10, <3>2, <4>3, <4>4
    <3>3. CASE t = n /\ d \in 0 .. n - 1
      <4>1. Task(d)'.inputs \in Seq(0 .. d - 1) /\ n \notin 0 .. d - 1
        BY <1>2, <1>9, <3>3
      <4>2. Uses(Task(d)'.inputs, n) = 0
        BY <4>1, UsesAbsent
      <4>3. Task(d)'.dependencies = Task(d)'.inputs
        BY <1>9, <3>3
      <4> QED BY <1>10, <3>3, <4>2, <4>3, UsesNothing
    <3>4. CASE t = n /\ d = n
      <4>1. Uses(src, n) = 0
        BY <1>2, <1>3, UsesAbsent
      <4> QED BY <1>10, <3>4, <4>1, UsesNothing
    <3> QED BY <1>2, <3>1, <3>2, <3>3, <3>4
  <2> QED BY <1>7, <2>1 DEF CountsMatch
<1> QED BY <1>11, <1>12, <1>13 DEF UseInv
-----------------------------------------------------------------------------
(* One case per action: prototypes only grow while tasks stay.             *)
LEMMA StepKeeps == UseInv /\ [BuilderNext]_builderVars => UseInv'
<1>1. SUFFICES ASSUME UseInv, [BuilderNext]_builderVars PROVE UseInv'
  OBVIOUS
<1>2. ASSUME UNCHANGED tasks, DOMAIN prototypes \subseteq DOMAIN prototypes' PROVE UseInv'
  BY <1>1, <1>2 DEF UseInv, Shape, IsSequence, Ordered, CountsMatch, TaskIds, NumTasks, Task
<1>3. CASE NewPrototype
  BY <1>2, <1>3 DEF NewPrototype
<1>4. CASE \E who \in Parties : Send(who)
  BY <1>2, <1>4 DEF Send
<1>5. CASE RegisterPrototype
  BY <1>2, <1>5 DEF RegisterPrototype
<1>6. CASE \E i \in DOMAIN prototypes : \E single \in AtMost(MaxSingle, TaskIds) :
             \E multi \in AtMost(MaxMulti, TaskIds) : Instantiate(i, single, multi)
  BY <1>1, <1>6, InstantiateKeeps
<1>7. CASE StartFinish
  BY <1>2, <1>7 DEF StartFinish
<1>8. CASE FinishTask
  BY <1>1, <1>8, FinishKeeps
<1>9. CASE UNCHANGED builderVars
  BY <1>2, <1>9 DEF builderVars
<1> QED BY <1>1, <1>3, <1>4, <1>5, <1>6, <1>7, <1>8, <1>9 DEF BuilderNext

(* The list of dependents of every task is the transpose of the lists of   *)
(* inputs, with multiplicity, at every moment of building any circuit      *)
(* (circuit_builder.rs:393-406): what the runner counts down reaches zero  *)
(* exactly.                                                                *)
THEOREM CountsAgree == BuilderSpec => []CountsMatch
<1>1. UseInv => CountsMatch
  BY DEF UseInv
<1> QED BY <1>1, Initially, StepKeeps, PTL DEF BuilderSpec

(* Inputs are earlier tasks: the manifest is in topological order, as the  *)
(* backwards walk of finish and the runner take it to be.                  *)
InputsEarlier == \A t \in TaskIds : Task(t).inputs \in Seq(0 .. t - 1)
THEOREM Topological == BuilderSpec => []InputsEarlier
<1>1. UseInv => InputsEarlier
  BY DEF UseInv, Ordered, InputsEarlier
<1> QED BY <1>1, Initially, StepKeeps, PTL DEF BuilderSpec
-----------------------------------------------------------------------------
(* Rounds after some messages: every other message opens one.              *)
Round == [a : BOOLEAN, b : BOOLEAN]
RoundSeqs == Seq(Round)
Fits(rounds, sends) ==
  /\ Len(rounds) = (sends + 1) \div 2
  /\ \A k \in 1 .. Len(rounds) : rounds[k].b <=> 2 * k <= sends

Builders == [first : Parties \cup {Nobody}, last : Parties \cup {Nobody},
             rounds : RoundSeqs, sends : 0 .. MaxSends]
Registered == [party_a : Parties, rounds : RoundSeqs, sends : 0 .. MaxSends]

(* The first sender sent last exactly after an odd number of messages.     *)
TurnRight(b) == IF b.sends = 0 THEN b.first = Nobody /\ b.last = Nobody
                ELSE /\ b.first \in Parties /\ b.last \in Parties
                     /\ b.last = b.first <=> b.sends % 2 = 1

BuilderRight == \A b \in pb : b \in Builders /\ Fits(b.rounds, b.sends) /\ TurnRight(b)
PrototypesRight ==
  /\ prototypes \in Seq(Registered)
  /\ \A i \in DOMAIN prototypes : Fits(prototypes[i].rounds, prototypes[i].sends)
RoundInv == BuilderRight /\ PrototypesRight

(* One message more opens a round or completes the last one.               *)
LEMMA SendKeeps ==
  ASSUME NEW b \in Builders, Fits(b.rounds, b.sends), TurnRight(b),
         NEW who \in Parties, b.last # who
  PROVE  /\ RoundsAfter(b, who) \in RoundSeqs
         /\ Fits(RoundsAfter(b, who), b.sends + 1)
<1> DEFINE r == b.rounds
           s == b.sends
           n == Len(r)
<1>1. /\ r \in Seq(Round) /\ s \in Nat /\ n \in Nat
      /\ n = (s + 1) \div 2
      /\ \A k \in 1 .. n : r[k].b <=> 2 * k <= s
  BY DEF Builders, RoundSeqs, Fits
<1>2. b.first \in {Nobody, who} <=> s % 2 = 0
  BY DEF TurnRight, Builders, Parties, Nobody
<1> HIDE DEF r, s, n
<1>3. CASE s % 2 = 0
  <2> DEFINE o == [a |-> TRUE, b |-> FALSE]
             u == Append(r, o)
  <2>1. RoundsAfter(b, who) = u
    BY <1>2, <1>3 DEF RoundsAfter, r
  <2>2. o \in Round /\ o.b = FALSE
    BY DEF Round
  <2> HIDE DEF o
  <2>3. /\ u \in Seq(Round) /\ Len(u) = n + 1
        /\ \A k \in 1 .. n : u[k] = r[k]
        /\ u[n + 1] = o
    BY <1>1, <2>2 DEF n
  <2>4. n + 1 = (s + 2) \div 2 /\ 2 * n = s
    BY <1>1, <1>3
  <2> HIDE DEF u
  <2>5. \A k \in 1 .. n + 1 : u[k].b <=> 2 * k <= s + 1
    <3> SUFFICES ASSUME NEW k \in 1 .. n + 1 PROVE u[k].b <=> 2 * k <= s + 1
      OBVIOUS
    <3>1. CASE k \in 1 .. n
      BY <1>1, <2>3, <2>4, <3>1
    <3>2. CASE k = n + 1
      BY <1>1, <2>2, <2>3, <2>4, <3>2
    <3> QED BY <1>1, <3>1, <3>2
  <2> QED BY <1>1, <2>1, <2>3, <2>4, <2>5 DEF Fits, RoundSeqs, s
<1>4. CASE s % 2 = 1
  <2> DEFINE v == [r[n] EXCEPT !.b = TRUE]
             u == [r EXCEPT ![n] = v]
  <2>1. RoundsAfter(b, who) = u
    BY <1>2, <1>4 DEF RoundsAfter, r, n
  <2>2. 2 * n = s + 1 /\ n \in 1 .. n
    BY <1>1, <1>4
  <2>3. r[n] \in Round
    BY <1>1, <2>2 DEF n
  <2>4. v \in Round /\ v.b = TRUE
    BY <2>3 DEF Round
  <2> HIDE DEF v
  <2>5. /\ u \in Seq(Round) /\ Len(u) = n
        /\ \A k \in 1 .. n : u[k] = IF k = n THEN v ELSE r[k]
    BY <1>1, <2>2, <2>4 DEF n
  <2> HIDE DEF u
  <2>6. \A k \in 1 .. n : u[k].b <=> 2 * k <= s + 1
    BY <1>1, <2>2, <2>4, <2>5
  <2>7. n = (s + 2) \div 2
    BY <1>1, <2>2
  <2> QED BY <1>1, <2>1, <2>6, <2>7, <2>5 DEF Fits, RoundSeqs, s
<1> QED BY <1>1, <1>3, <1>4
(* Nothing is registered yet.                                             *)
LEMMA RoundsInitially == BuilderInit => RoundInv
<1>1. SUFFICES ASSUME BuilderInit PROVE RoundInv
  OBVIOUS
<1>2. pb = {} /\ prototypes = <<>> /\ prototypes \in Seq(Registered)
  BY <1>1 DEF BuilderInit, NoBuilder
<1> QED BY <1>2 DEF RoundInv, BuilderRight, PrototypesRight

(* One case per action: only three touch prototypes and their builder.     *)
LEMMA RoundsKept == RoundInv /\ [BuilderNext]_builderVars => RoundInv'
<1>1. SUFFICES ASSUME RoundInv, [BuilderNext]_builderVars PROVE RoundInv'
  OBVIOUS
<1>2. ASSUME UNCHANGED <<prototypes, pb>> PROVE RoundInv'
  BY <1>1, <1>2 DEF RoundInv, BuilderRight, PrototypesRight
<1>3. CASE NewPrototype
  <2> DEFINE b == [first |-> Nobody, last |-> Nobody, rounds |-> <<>>, sends |-> 0]
  <2>1. pb' = {b} /\ UNCHANGED prototypes
    BY <1>3 DEF NewPrototype
  <2>2. <<>> \in RoundSeqs /\ Fits(<<>>, 0)
    BY DEF RoundSeqs, Fits
  <2>3. b \in Builders /\ Fits(b.rounds, b.sends) /\ TurnRight(b)
    BY <2>2, BuilderAssumption DEF Builders, TurnRight
  <2> HIDE DEF b
  <2> QED BY <1>1, <2>1, <2>3 DEF RoundInv, BuilderRight, PrototypesRight
<1>4. ASSUME NEW who \in Parties, Send(who) PROVE RoundInv'
  <2>1. PICK b \in pb :
          /\ b.last # who /\ b.sends < MaxSends
          /\ pb' = {[first |-> IF b.first = Nobody THEN who ELSE b.first,
                     last |-> who, rounds |-> RoundsAfter(b, who), sends |-> b.sends + 1]}
          /\ UNCHANGED prototypes
    BY <1>4 DEF Send
  <2>2. b \in Builders /\ Fits(b.rounds, b.sends) /\ TurnRight(b)
    BY <1>1 DEF RoundInv, BuilderRight
  <2>3. /\ RoundsAfter(b, who) \in RoundSeqs
        /\ Fits(RoundsAfter(b, who), b.sends + 1)
    BY <1>4, <2>1, <2>2, SendKeeps
  <2> DEFINE rs == RoundsAfter(b, who)
             first == IF b.first = Nobody THEN who ELSE b.first
             c == [first |-> first, last |-> who, rounds |-> rs, sends |-> b.sends + 1]
  <2>4. b.sends \in Nat /\ b.sends + 1 \in 0 .. MaxSends
    BY <2>1, <2>2, BuilderAssumption DEF Builders
  <2>5. who = first <=> (b.sends + 1) % 2 = 1
    BY <1>4, <2>1, <2>2, <2>4 DEF Builders, TurnRight, Parties, Nobody
  <2>6. first \in Parties /\ who \in Parties
    BY <1>4, <2>2 DEF Builders
  <2> HIDE DEF rs, first
  <2>7. c \in Builders /\ Fits(c.rounds, c.sends)
    BY <1>4, <2>3, <2>4, <2>6 DEF Builders, rs
  <2>8. TurnRight(c)
    BY <1>4, <2>4, <2>5, <2>6 DEF TurnRight
  <2>9. pb' = {c}
    BY <2>1 DEF rs, first
  <2> HIDE DEF c
  <2> QED BY <1>1, <2>1, <2>7, <2>8, <2>9 DEF RoundInv, BuilderRight, PrototypesRight
<1>5. CASE RegisterPrototype
  <2>1. PICK b \in pb :
          /\ prototypes' = Append(prototypes,
               [party_a |-> IF b.first = Nobody THEN "prover" ELSE b.first,
                rounds |-> b.rounds, sends |-> b.sends])
          /\ pb' = {}
    BY <1>5 DEF RegisterPrototype, NoBuilder
  <2> DEFINE q == [party_a |-> IF b.first = Nobody THEN "prover" ELSE b.first,
                   rounds |-> b.rounds, sends |-> b.sends]
  <2>2. b \in Builders /\ Fits(b.rounds, b.sends)
    BY <1>1 DEF RoundInv, BuilderRight
  <2>3. q \in Registered /\ Fits(q.rounds, q.sends)
    BY <2>2 DEF Builders, Registered, Parties
  <2>4. prototypes' = Append(prototypes, q)
    BY <2>1
  <2> HIDE DEF q
  <2>5. PrototypesRight'
    <3>1. prototypes \in Seq(Registered)
      BY <1>1 DEF RoundInv, PrototypesRight
    <3>2. /\ prototypes' \in Seq(Registered) /\ Len(prototypes') = Len(prototypes) + 1
          /\ \A i \in DOMAIN prototypes' :
                prototypes'[i] = q \/ (i \in DOMAIN prototypes /\ prototypes'[i] = prototypes[i])
      BY <2>3, <2>4, <3>1
    <3> QED BY <1>1, <2>3, <3>2 DEF RoundInv, PrototypesRight
  <2> QED BY <2>1, <2>5 DEF RoundInv, BuilderRight
<1>6. CASE \E i \in DOMAIN prototypes : \E single \in AtMost(MaxSingle, TaskIds) :
             \E multi \in AtMost(MaxMulti, TaskIds) : Instantiate(i, single, multi)
  BY <1>2, <1>6 DEF Instantiate
<1>7. CASE StartFinish
  BY <1>2, <1>7 DEF StartFinish
<1>8. CASE FinishTask
  BY <1>2, <1>8 DEF FinishTask
<1>9. CASE UNCHANGED builderVars
  BY <1>2, <1>9 DEF builderVars
<1> QED BY <1>1, <1>3, <1>4, <1>5, <1>6, <1>7, <1>8, <1>9 DEF BuilderNext

(* How many steps lie below a number of rounds, from 0 and from 1.         *)
LEMMA StepsBelow ==
  ASSUME NEW n \in Nat, NEW c \in 0 .. n
  PROVE  /\ Cardinality({k \in 0 .. n : k < c}) = c
         /\ Cardinality({k \in 0 .. n : 1 <= k /\ k <= c}) = c
<1>1. {k \in 0 .. n : k < c} = 0 .. c - 1
  OBVIOUS
<1>2. {k \in 0 .. n : 1 <= k /\ k <= c} = 1 .. c
  OBVIOUS
<1>3. Cardinality(0 .. c - 1) = c
  BY FS_Interval
<1>4. Cardinality(1 .. c) = c
  BY FS_Interval
<1> QED BY <1>1, <1>2, <1>3, <1>4
(* What the runner derives of a task whose prototype was registered right. *)
LEMMA RoundsDerived ==
  ASSUME NEW t \in TaskIds,
         Prototype(t) \in Registered, Fits(Prototype(t).rounds, Prototype(t).sends)
  PROVE  LET r == Prototype(t).rounds
             sent(p) == Cardinality({k \in 0 .. MaxSends : M!Outgoing(p, t, k)})
             awaited(p) == Cardinality({k \in 0 .. MaxSends + 1 : M!Incoming(p, t, k)})
         IN  /\ M!Rounds(t) = Len(r)
             /\ \A k \in DOMAIN r : r[k].b <=> M!HasB(t, k - 1)
             /\ \A p \in Parties : sent(p) = awaited(M!Peer(p))
             /\ sent("prover") + sent("verifier") = Prototype(t).sends
<1> DEFINE q == Prototype(t)
           s == q.sends
           a == q.party_a
           begun == (s + 1) \div 2
           completed == s \div 2
           sent(p) == Cardinality({k \in 0 .. MaxSends : M!Outgoing(p, t, k)})
           awaited(p) == Cardinality({k \in 0 .. MaxSends + 1 : M!Incoming(p, t, k)})
<1>1. /\ s \in 0 .. MaxSends /\ a \in Parties /\ q.rounds \in RoundSeqs
      /\ Len(q.rounds) = begun
      /\ \A k \in 1 .. Len(q.rounds) : q.rounds[k].b <=> 2 * k <= s
  BY DEF Registered, Fits
<1>2. /\ M!Rounds(t) = begun
      /\ \A k : M!HasB(t, k) <=> 2 * k + 2 <= s
      /\ \A p : M!IsA(p, t) <=> a = p
  BY DEF M!Rounds, M!HasB, M!IsA
<1> HIDE DEF s, a, q
<1> USE BuilderAssumption
<1>3. /\ begun \in 0 .. MaxSends /\ completed \in 0 .. MaxSends
      /\ begun \in 0 .. MaxSends + 1 /\ completed \in 0 .. MaxSends + 1
      /\ begun + completed = s
      /\ \A k \in Nat : 2 * k + 2 <= s <=> k < completed
      /\ \A k \in Nat : k < completed => k < begun
  BY <1>1
<1> HIDE DEF begun, completed
<1>4. ASSUME NEW p, p = a
      PROVE  sent(p) = begun /\ awaited(p) = completed
  <2>1. \A k \in 0 .. MaxSends : M!Outgoing(p, t, k) <=> k < begun
    BY <1>2, <1>4 DEF M!Outgoing
  <2>2. \A k \in 0 .. MaxSends + 1 : M!Incoming(p, t, k) <=> 1 <= k /\ k <= completed
    <3> SUFFICES ASSUME NEW k \in 0 .. MaxSends + 1
                 PROVE  M!Incoming(p, t, k) <=> 1 <= k /\ k <= completed
      OBVIOUS
    <3>1. M!Incoming(p, t, k) <=> k >= 1 /\ k - 1 < begun /\ 2 * (k - 1) + 2 <= s
      BY <1>2, <1>4 DEF M!Incoming
    <3>2. CASE k >= 1
      <4>1. k - 1 \in Nat
        BY <3>2
      <4>2. 2 * (k - 1) + 2 <= s <=> k - 1 < completed
        BY <1>3, <4>1
      <4>3. k - 1 < completed => k - 1 < begun
        BY <1>3, <4>1
      <4> QED BY <1>3, <3>1, <3>2, <4>2, <4>3
    <3>3. CASE ~(k >= 1)
      BY <3>1, <3>3
    <3> QED BY <3>2, <3>3
  <2>3. {k \in 0 .. MaxSends : M!Outgoing(p, t, k)} = {k \in 0 .. MaxSends : k < begun}
    BY <2>1
  <2>4. {k \in 0 .. MaxSends + 1 : M!Incoming(p, t, k)}
          = {k \in 0 .. MaxSends + 1 : 1 <= k /\ k <= completed}
    BY <2>2
  <2>5. MaxSends + 1 \in Nat
    OBVIOUS
  <2> QED BY <1>3, <2>3, <2>4, <2>5, StepsBelow
<1>5. ASSUME NEW p, p # a
      PROVE  sent(p) = completed /\ awaited(p) = begun
  <2>1. \A k \in 0 .. MaxSends : M!Outgoing(p, t, k) <=> k < completed
    <3> SUFFICES ASSUME NEW k \in 0 .. MaxSends
                 PROVE  M!Outgoing(p, t, k) <=> k < completed
      OBVIOUS
    <3>1. M!Outgoing(p, t, k) <=> k < begun /\ 2 * k + 2 <= s
      BY <1>2, <1>5 DEF M!Outgoing
    <3>2. k \in Nat
      OBVIOUS
    <3> QED BY <1>3, <3>1, <3>2
  <2>2. \A k \in 0 .. MaxSends + 1 : M!Incoming(p, t, k) <=> k < begun
    BY <1>2, <1>5 DEF M!Incoming
  <2>3. {k \in 0 .. MaxSends : M!Outgoing(p, t, k)} = {k \in 0 .. MaxSends : k < completed}
    BY <2>1
  <2>4. {k \in 0 .. MaxSends + 1 : M!Incoming(p, t, k)} = {k \in 0 .. MaxSends + 1 : k < begun}
    BY <2>2
  <2>5. MaxSends + 1 \in Nat
    OBVIOUS
  <2> QED BY <1>3, <2>3, <2>4, <2>5, StepsBelow
<1> HIDE DEF sent, awaited
<1>6. \A p \in Parties : sent(p) = awaited(M!Peer(p))
  <2> SUFFICES ASSUME NEW p \in Parties PROVE sent(p) = awaited(M!Peer(p))
    OBVIOUS
  <2>1. M!Peer(p) \in Parties /\ (M!Peer(p) = a <=> p # a)
    BY <1>1 DEF M!Peer, Parties
  <2> QED BY <1>4, <1>5, <2>1
<1>7. sent("prover") + sent("verifier") = s
  <2>1. CASE a = "prover"
    BY <1>3, <1>4, <1>5, <2>1
  <2>2. CASE a = "verifier"
    BY <1>3, <1>4, <1>5, <2>2
  <2> QED BY <1>1, <2>1, <2>2 DEF Parties
<1>8. \A k \in DOMAIN q.rounds : q.rounds[k].b <=> M!HasB(t, k - 1)
  <2> SUFFICES ASSUME NEW k \in DOMAIN q.rounds PROVE q.rounds[k].b <=> M!HasB(t, k - 1)
    OBVIOUS
  <2>1. k \in 1 .. Len(q.rounds) /\ k \in Nat
    BY <1>1 DEF RoundSeqs
  <2>2. M!HasB(t, k - 1) <=> 2 * k <= s
    BY <1>1, <1>2, <2>1
  <2> QED BY <1>1, <2>1, <2>2
<1> QED BY <1>1, <1>2, <1>6, <1>7, <1>8 DEF sent, awaited, q, s

(* For every prototype, with any number of messages, the rounds written    *)
(* are those both parties derive: whatever one sends in a step the other   *)
(* waits for in some step, and neither waits for more                      *)
(* (circuit_builder.rs:161-192, runner.rs's CommunicatonSizes).            *)
THEOREM RoundsAgree == BuilderSpec => []RoundsMatch
<1>1. UseInv /\ RoundInv => RoundsMatch
  <2> SUFFICES ASSUME UseInv, RoundInv, NEW t \in TaskIds
               PROVE  Prototype(t) \in Registered
                        /\ Fits(Prototype(t).rounds, Prototype(t).sends)
    BY RoundsDerived DEF RoundsMatch
  <2>1. Task(t).prototype \in DOMAIN prototypes
    BY DEF UseInv, Ordered
  <2>2. prototypes \in Seq(Registered)
    BY DEF RoundInv, PrototypesRight
  <2> QED BY <2>1, <2>2 DEF RoundInv, PrototypesRight, Prototype
<1> QED BY <1>1, Initially, StepKeeps, RoundsInitially, RoundsKept, PTL DEF BuilderSpec
-----------------------------------------------------------------------------
(* Every nonempty set of naturals has a least element.                     *)
LEMMA LeastNat ==
  ASSUME NEW T \in SUBSET Nat, T # {}
  PROVE  \E z \in T : \A w \in T : z <= w
<1>1. \E z \in T : \A w \in T : ~ (<<w, z>> \in OpToRel(<, Nat))
  BY NatLessThanWellFounded, WFMin
<1>2. PICK z \in T : \A w \in T : ~ (<<w, z>> \in OpToRel(<, Nat))
  BY <1>1
<1>3. \A w \in T : ~(w < z)
  BY <1>2 DEF OpToRel
<1> QED BY <1>3

(* A set of naturals with 0 and the successors of its elements is Nat.     *)
LEMMA ByInduction ==
  ASSUME NEW S \in SUBSET Nat, 0 \in S, \A n \in S : n + 1 \in S
  PROVE  S = Nat
<1> SUFFICES ASSUME S # Nat PROVE FALSE
  OBVIOUS
<1>1. PICK z \in Nat \ S : \A w \in Nat \ S : z <= w
  BY LeastNat
<1>2. z - 1 \in Nat /\ z - 1 \notin Nat \ S
  BY <1>1
<1> QED BY <1>1, <1>2

(* What finish takes the priorities to be: the best of a set, and the      *)
(* equation that a table of priorities solves.                             *)
Best(S) == IF S = {} THEN 0 ELSE CHOOSE m \in S : \A n \in S : n <= m
Users(t) == {d \in t + 1 .. NumTasks - 1 : M!Mult(d, t) > 0}
Inferred(f, t) == -M!Rounds(t) - 1 + Best({f[d] : d \in Users(t)})
Solves(f) == f = [t \in TaskIds |-> Inferred(f, t)]

(* The equation has one solution, since a task's priority depends on those *)
(* of later tasks only.                                                    *)
LEMMA OneSolution ==
  ASSUME NumTasks \in Nat, NEW f, NEW g, Solves(f), Solves(g)
  PROVE  f = g
<1> DEFINE D == {k \in Nat : k < NumTasks /\ f[NumTasks - 1 - k] # g[NumTasks - 1 - k]}
<1>1. CASE D = {}
  <2>1. ASSUME NEW t \in TaskIds PROVE f[t] = g[t]
    <3> DEFINE k == NumTasks - 1 - t
    <3>1. k \in Nat /\ k < NumTasks /\ NumTasks - 1 - k = t
      BY DEF TaskIds
    <3> HIDE DEF k
    <3> QED BY <1>1, <3>1
  <2>2. f = [t \in TaskIds |-> f[t]] /\ g = [t \in TaskIds |-> g[t]]
    BY Zenon DEF Solves
  <2> QED BY <2>1, <2>2
<1>2. CASE D # {}
  <2>1. PICK k \in D : \A l \in D : k <= l
    BY <1>2, LeastNat
  <2> DEFINE t == NumTasks - 1 - k
  <2>2. t \in TaskIds /\ f[t] # g[t] /\ t \in Int
    BY <2>1 DEF TaskIds
  <2>3. ASSUME NEW d \in t + 1 .. NumTasks - 1 PROVE f[d] = g[d]
    <3> DEFINE l == NumTasks - 1 - d
    <3>1. l \in Nat /\ l < k /\ l < NumTasks /\ NumTasks - 1 - l = d
      BY <2>1
    <3>2. l \notin D
      BY <2>1, <3>1
    <3> HIDE DEF l
    <3> QED BY <3>1, <3>2
  <2> HIDE DEF t
  <2>4. {f[d] : d \in Users(t)} = {g[d] : d \in Users(t)}
    BY <2>3 DEF Users
  <2>5. Inferred(f, t) = Inferred(g, t)
    BY <2>4, Zenon DEF Inferred
  <2>6. f[t] = Inferred(f, t) /\ g[t] = Inferred(g, t)
    BY <2>2, Zenon DEF Solves
  <2> QED BY <2>2, <2>5, <2>6
<1> QED BY <1>1, <1>2

(* The manifest's priorities are the solution, when there is one.          *)
LEMMA PrioritySolves ==
  ASSUME NumTasks \in Nat, NEW f, Solves(f)
  PROVE  M!Priority = f
<1>1. Solves(M!Priority)
  BY Zenon DEF M!Priority, Solves, Inferred, Best, Users, M!Tasks, TaskIds
<1> QED BY <1>1, OneSolution
-----------------------------------------------------------------------------
(* Sorting a list that ascends changes nothing.                            *)
LEMMA SortedAlready ==
  ASSUME NEW S \in SUBSET Int, NEW s \in Seq(S),
         \A i, j \in DOMAIN s : i < j => s[i] <= s[j]
  PROVE  Sorted(s) = s
<1>1. DOMAIN s = 1 .. Len(s) /\ Len(s) \in Nat
  OBVIOUS
<1>2. ASSUME NEW i \in DOMAIN s PROVE SortRank(s, i) = i - 1
  <2>1. \A j \in DOMAIN s : s[j] \in Int
    <3>1. \A j \in 1 .. Len(s) : s[j] \in S
      OBVIOUS
    <3> QED BY <1>1, <3>1
  <2>2. {j \in DOMAIN s : s[j] < s[i] \/ (s[j] = s[i] /\ j < i)} = 1 .. i - 1
    <3>1. ASSUME NEW j \in DOMAIN s
          PROVE  (s[j] < s[i] \/ (s[j] = s[i] /\ j < i)) <=> j < i
      <4>1. j < i => s[j] <= s[i]
        OBVIOUS
      <4>2. i < j => s[i] <= s[j]
        OBVIOUS
      <4>3. s[j] \in Int /\ s[i] \in Int /\ i \in Int /\ j \in Int
        BY <1>1, <2>1
      <4> QED BY <4>1, <4>2, <4>3
    <3> QED BY <1>1, <3>1
  <2>3. Cardinality(1 .. i - 1) = i - 1
    BY <1>1, FS_Interval
  <2> QED BY <2>2, <2>3 DEF SortRank
<1>3. ASSUME NEW k \in DOMAIN s
      PROVE  s[CHOOSE i \in DOMAIN s : SortRank(s, i) = k - 1] = s[k]
  <2> DEFINE c == CHOOSE i \in DOMAIN s : SortRank(s, i) = k - 1
  <2>1. \E i \in DOMAIN s : SortRank(s, i) = k - 1
    BY <1>2
  <2>2. c \in DOMAIN s /\ SortRank(s, c) = k - 1
    BY <2>1
  <2> HIDE DEF c
  <2>3. c - 1 = k - 1 /\ c \in Int /\ k \in Int
    BY <1>1, <1>2, <2>2
  <2>4. c = k
    BY <2>3
  <2> QED BY <2>4 DEF c
<1>4. s = [k \in DOMAIN s |-> s[k]]
  BY <1>1
<1> QED BY <1>3, <1>4 DEF Sorted
-----------------------------------------------------------------------------
(* The uses of a task as pairs of a user and a position, and their order.  *)
Pairs(t) == {w \in Nat \X Nat : /\ w[1] \in TaskIds
                                /\ w[2] \in DOMAIN Task(w[1]).inputs
                                /\ Task(w[1]).inputs[w[2]] = t}
Before(z, w) == z[1] < w[1] \/ (z[1] = w[1] /\ z[2] < w[2])

(* s lists the users of the uses that e goes through, in order.            *)
Lists(e, s, P) ==
  /\ e \in [1 .. Len(s) -> P]
  /\ \A j, k \in 1 .. Len(s) : j < k => Before(e[j], e[k])
  /\ \A w \in P : \E k \in 1 .. Len(s) : e[k] = w
  /\ \A k \in 1 .. Len(s) : s[k] = e[k][1]
Enumerates(e, s, t) == Lists(e, s, Pairs(t))

(* The uses that the runner's model counts.                                *)
LEMMA PairsAreUses ==
  ASSUME NEW t, NumTasks \in Nat, \A d \in TaskIds : DOMAIN Task(d).inputs \subseteq Nat
  PROVE  M!UsesOf(t) = Pairs(t)
<1>1. M!UsesOf(t) = {w \in UNION {{d} \X DOMAIN Task(d).inputs : d \in TaskIds} :
                       Task(w[1]).inputs[w[2]] = t}
  <2>1. M!UsesOf(t) = {w \in UNION {{d} \X DOMAIN [u \in TaskIds |-> Task(u).inputs][d] : d \in TaskIds} :
                         [u \in TaskIds |-> Task(u).inputs][w[1]][w[2]] = t}
    BY Zenon DEF M!UsesOf, M!Tasks, TaskIds
  <2>2. \A d \in TaskIds : [u \in TaskIds |-> Task(u).inputs][d] = Task(d).inputs
    OBVIOUS
  <2>3. UNION {{d} \X DOMAIN [u \in TaskIds |-> Task(u).inputs][d] : d \in TaskIds}
          = UNION {{d} \X DOMAIN Task(d).inputs : d \in TaskIds}
    BY <2>2
  <2>4. \A w \in UNION {{d} \X DOMAIN Task(d).inputs : d \in TaskIds} :
           [u \in TaskIds |-> Task(u).inputs][w[1]] = Task(w[1]).inputs
    BY <2>2
  <2> QED BY <2>1, <2>3, <2>4
<1>2. ASSUME NEW w \in M!UsesOf(t) PROVE w \in Pairs(t)
  BY <1>1 DEF Pairs, TaskIds
<1>3. ASSUME NEW w \in Pairs(t) PROVE w \in M!UsesOf(t)
  BY <1>1 DEF Pairs
<1> QED BY <1>2, <1>3

(* A list that enumerates the uses is the one the runner's model starts    *)
(* from.                                                                   *)
LEMMA EnumeratedRight ==
  ASSUME NumTasks \in Nat, \A d \in TaskIds : DOMAIN Task(d).inputs \subseteq Nat,
         NEW t \in TaskIds, NEW S, NEW s \in Seq(S), NEW e, Enumerates(e, s, t)
  PROVE  M!DependentsOf[t] = s
<1> DEFINE n == Len(s)
           P == Pairs(t)
<1>1. /\ e \in [1 .. n -> P] /\ n \in Nat /\ P \subseteq Nat \X Nat
      /\ \A j, k \in 1 .. n : j < k => Before(e[j], e[k])
      /\ \A w \in P : \E k \in 1 .. n : e[k] = w
      /\ \A k \in 1 .. n : s[k] = e[k][1]
  BY DEF Enumerates, Lists, Pairs
<1> HIDE DEF n, P
<1>2. \A j, k \in 1 .. n : Before(e[j], e[k]) <=> j < k
  <2> SUFFICES ASSUME NEW j \in 1 .. n, NEW k \in 1 .. n, Before(e[j], e[k])
               PROVE  j < k
    BY <1>1
  <2>1. CASE j = k
    BY <1>1, <2>1 DEF Before
  <2>2. CASE k < j
    <3>1. Before(e[k], e[j])
      BY <1>1, <2>2
    <3>2. e[j] \in Nat \X Nat /\ e[k] \in Nat \X Nat
      BY <1>1
    <3> QED BY <3>1, <3>2 DEF Before
  <2> QED BY <1>1, <2>1, <2>2
<1>3. ASSUME NEW k \in 0 .. n
      PROVE  Cardinality({e[j] : j \in 1 .. k}) = k
  <2> DEFINE g == [j \in 1 .. k |-> e[j]]
             T == {e[j] : j \in 1 .. k}
  <2>1. \A i, j \in 1 .. k : e[i] = e[j] => i = j
    <3> SUFFICES ASSUME NEW i \in 1 .. k, NEW j \in 1 .. k, i # j PROVE e[i] # e[j]
      OBVIOUS
    <3>1. i \in 1 .. n /\ j \in 1 .. n /\ (i < j \/ j < i)
      BY <1>1
    <3>2. ~Before(e[i], e[i]) /\ ~Before(e[j], e[j])
      BY <1>2, <3>1
    <3> QED BY <1>2, <3>1, <3>2
  <2>2. g \in Bijection(1 .. k, T)
    BY <2>1 DEF Bijection, Injection, Surjection, IsInjective
  <2>3. IsFiniteSet(1 .. k) /\ Cardinality(1 .. k) = k
    BY <1>1, FS_Interval
  <2> HIDE DEF g, T
  <2>4. Cardinality(T) = Cardinality(1 .. k)
    <3>1. ExistsBijection(1 .. k, T)
      BY <2>2 DEF ExistsBijection
    <3> QED BY <2>3, <3>1, FS_Bijection
  <2> QED BY <2>3, <2>4 DEF T
<1>4. ASSUME NEW k \in 1 .. n
      PROVE  M!UseRank(t, e[k]) = k - 1
  <2>1. M!UseRank(t, e[k]) = M!Cardinality({z \in M!UsesOf(t) : M!Precedes(z, e[k])})
    BY Zenon DEF M!UseRank
  <2>2. {z \in M!UsesOf(t) : M!Precedes(z, e[k])} = {z \in P : Before(z, e[k])}
    BY PairsAreUses DEF M!Precedes, Before, P
  <2>3. {z \in P : Before(z, e[k])} = {e[j] : j \in 1 .. k - 1}
    <3>1. ASSUME NEW z \in P, Before(z, e[k]) PROVE z \in {e[j] : j \in 1 .. k - 1}
      <4>1. PICK j \in 1 .. n : e[j] = z
        BY <1>1
      <4>2. j < k
        BY <1>2, <3>1, <4>1
      <4> QED BY <1>1, <4>1, <4>2
    <3>2. ASSUME NEW j \in 1 .. k - 1 PROVE e[j] \in P /\ Before(e[j], e[k])
      <4>1. j \in 1 .. n /\ j < k
        BY <1>1
      <4> QED BY <1>1, <4>1
    <3> QED BY <3>1, <3>2
  <2>4. k - 1 \in 0 .. n
    BY <1>1
  <2>5. M!Cardinality({e[j] : j \in 1 .. k - 1}) = Cardinality({e[j] : j \in 1 .. k - 1})
    BY DEF M!Cardinality, Cardinality
  <2> QED BY <1>3, <2>1, <2>2, <2>3, <2>4, <2>5
<1>5. ASSUME NEW k \in 1 .. n PROVE M!UseAt(t, k) = e[k]
  <2>1. M!UseAt(t, k) = CHOOSE w \in M!UsesOf(t) : M!UseRank(t, w) = k - 1
    BY Zenon DEF M!UseAt
  <2>2. M!UsesOf(t) = P
    BY PairsAreUses DEF P
  <2> DEFINE c == M!UseAt(t, k)
  <2>3. e[k] \in P /\ M!UseRank(t, e[k]) = k - 1
    BY <1>1, <1>4
  <2>4. c \in P /\ M!UseRank(t, c) = k - 1
    BY <2>1, <2>2, <2>3
  <2> HIDE DEF c
  <2>5. PICK j \in 1 .. n : e[j] = c
    BY <1>1, <2>4
  <2>6. j - 1 = k - 1
    BY <1>4, <2>4, <2>5
  <2>7. j = k
    BY <1>1, <2>6
  <2> QED BY <2>5, <2>7 DEF c
<1>6. M!Cardinality(M!UsesOf(t)) = n
  <2>1. P = {e[j] : j \in 1 .. n}
    BY <1>1
  <2>2. M!UsesOf(t) = P
    BY PairsAreUses DEF P
  <2>3. M!Cardinality(P) = Cardinality(P)
    BY DEF M!Cardinality, Cardinality
  <2>4. n \in 0 .. n
    BY <1>1
  <2> QED BY <1>3, <2>1, <2>2, <2>3, <2>4
<1>7. M!DependentsOf[t] = [k \in 1 .. n |-> M!UseAt(t, k)[1]]
  <2>1. M!DependentsOf[t] = [k \in 1 .. M!Cardinality(M!UsesOf(t)) |-> M!UseAt(t, k)[1]]
    BY DEF M!DependentsOf, M!Tasks, TaskIds
  <2> QED BY <1>6, <2>1
<1>8. [k \in 1 .. n |-> M!UseAt(t, k)[1]] = [k \in 1 .. n |-> s[k]]
  BY <1>1, <1>5
<1>9. s = [k \in 1 .. n |-> s[k]]
  BY DEF n
<1> QED BY <1>7, <1>8, <1>9
(* What a task uses is in the sequence, and conversely.                    *)
LEMMA UsesPositive ==
  ASSUME NEW S, NEW s \in Seq(S), NEW z
  PROVE  Uses(s, z) > 0 <=> z \in ToSet(s)
<1> DEFINE P == {i \in DOMAIN s : s[i] = z}
<1>1. IsFiniteSet(P) /\ Cardinality(P) \in Nat /\ Uses(s, z) = Cardinality(P)
  BY UsesType DEF Uses
<1>2. z \in ToSet(s) <=> P # {}
  BY DEF ToSet
<1>3. Cardinality(P) = 0 <=> P = {}
  BY <1>1, FS_EmptySet
<1> HIDE DEF P
<1> QED BY <1>1, <1>2, <1>3

(* The dependents of a task are the later tasks that use it.               *)
LEMMA DependentsAre ==
  ASSUME UseInv, NEW t \in TaskIds
  PROVE  ToSet(Task(t).dependents)
           = {d \in t + 1 .. NumTasks - 1 : Uses(Task(d).inputs, t) > 0}
<1>1. NumTasks \in Nat
  BY DEF UseInv, Shape, IsSequence, NumTasks
<1>2. Task(t).dependents \in Seq(TaskIds)
  BY DEF UseInv, Ordered
<1>3. ASSUME NEW d \in TaskIds
      PROVE  d \in ToSet(Task(t).dependents) <=> Uses(Task(d).inputs, t) > 0
  <2>1. Uses(Task(t).dependents, d) > 0 <=> d \in ToSet(Task(t).dependents)
    BY <1>2, UsesPositive
  <2> QED BY <2>1 DEF UseInv, CountsMatch
<1>4. ASSUME NEW d \in TaskIds, Uses(Task(d).inputs, t) > 0
      PROVE  t < d
  <2>1. Task(d).inputs \in Seq(0 .. d - 1)
    BY DEF UseInv, Ordered
  <2>2. t \in ToSet(Task(d).inputs)
    BY <1>4, <2>1, UsesPositive
  <2>3. PICK j \in DOMAIN Task(d).inputs : Task(d).inputs[j] = t
    BY <2>2 DEF ToSet
  <2>4. t \in 0 .. d - 1
    <3>1. \A S : \A s \in Seq(S) : \A i \in DOMAIN s : s[i] \in S
      OBVIOUS
    <3> QED BY <2>1, <2>3, <3>1
  <2> QED BY <1>1, <2>4 DEF TaskIds
<1>5. ToSet(Task(t).dependents) \subseteq TaskIds
  <2>1. \A j \in DOMAIN Task(t).dependents : Task(t).dependents[j] \in TaskIds
    BY <1>2
  <2> QED BY <2>1 DEF ToSet
<1>6. \A d \in TaskIds : t < d => d \in t + 1 .. NumTasks - 1
  BY <1>1 DEF TaskIds
<1>7. t + 1 .. NumTasks - 1 \subseteq TaskIds
  BY <1>1 DEF TaskIds
<1> QED BY <1>3, <1>4, <1>5, <1>6, <1>7

(* What finish adds is the best of the dependents' priorities.             *)
LEMMA DeltaIsBest ==
  ASSUME NEW t
  PROVE  Delta(t) = Best({Task(d).priority : d \in ToSet(Task(t).dependents)})
BY Zenon DEF Delta, Best
-----------------------------------------------------------------------------
(* Any set of positions can be listed in order.                            *)
Increasing(e, n) == \A j, k \in 1 .. n : j < k => e[j] < e[k]
Listable(T) ==
  \E e \in [1 .. Cardinality(T) -> T] :
    /\ Increasing(e, Cardinality(T))
    /\ \A i \in T : \E k \in 1 .. Cardinality(T) : e[k] = i

LEMMA Listing ==
  ASSUME NEW m \in Nat, NEW T \in SUBSET (1 .. m)
  PROVE  Cardinality(T) \in Nat /\ Listable(T)
<1> DEFINE Good == {n \in Nat : \A U \in SUBSET (1 .. n) : Cardinality(U) \in Nat /\ Listable(U)}
<1>1. 0 \in Good
  <2> SUFFICES ASSUME NEW U \in SUBSET (1 .. 0) PROVE Cardinality(U) \in Nat /\ Listable(U)
    OBVIOUS
  <2>1. 1 .. 0 = {}
    OBVIOUS
  <2>2. U = {} /\ Cardinality(U) = 0
    BY <2>1, FS_EmptySet
  <2> DEFINE e == [k \in 1 .. 0 |-> 0]
  <2>3. e \in [1 .. 0 -> U]
    BY <2>1
  <2> HIDE DEF e
  <2>4. Increasing(e, 0) /\ \A i \in U : \E k \in 1 .. 0 : e[k] = i
    BY <2>1, <2>2 DEF Increasing
  <2>5. Listable(U)
    BY <2>2, <2>3, <2>4 DEF Listable
  <2> QED BY <2>2, <2>5
<1>2. ASSUME NEW n \in Good PROVE n + 1 \in Good
  <2> SUFFICES ASSUME NEW U \in SUBSET (1 .. n + 1) PROVE Cardinality(U) \in Nat /\ Listable(U)
    OBVIOUS
  <2>1. CASE n + 1 \notin U
    BY <1>2, <2>1
  <2>2. CASE n + 1 \in U
    <3> DEFINE V == U \ {n + 1}
               c == Cardinality(V)
    <3>1. V \in SUBSET (1 .. n) /\ c \in Nat /\ Listable(V)
      BY <1>2
    <3>2. PICK e \in [1 .. c -> V] : Increasing(e, c) /\ \A i \in V : \E k \in 1 .. c : e[k] = i
      BY <3>1 DEF Listable
    <3>3. IsFiniteSet(V)
      <4>1. IsFiniteSet(1 .. n)
        BY <1>2, FS_Interval
      <4> QED BY <3>1, <4>1, FS_Subset
    <3>4. U = V \cup {n + 1} /\ n + 1 \notin V
      BY <2>2
    <3> HIDE DEF V
    <3>5. Cardinality(U) = c + 1
      BY <3>3, <3>4, FS_AddElement
    <3> HIDE DEF c
    <3> DEFINE f == [k \in 1 .. c + 1 |-> IF k <= c THEN e[k] ELSE n + 1]
    <3>6. f \in [1 .. c + 1 -> U]
      BY <3>1, <3>2, <3>4
    <3>7. Increasing(f, c + 1)
      <4> SUFFICES ASSUME NEW j \in 1 .. c + 1, NEW k \in 1 .. c + 1, j < k PROVE f[j] < f[k]
        BY DEF Increasing
      <4>1. j \in 1 .. c /\ f[j] = e[j] /\ e[j] \in 1 .. n
        <5>1. c \in Nat /\ j \in 1 .. c
          BY <3>1
        <5>2. e[j] \in V /\ V \subseteq 1 .. n
          BY <3>1, <3>2, <5>1
        <5>3. \A i \in 1 .. c + 1 : i <= c => f[i] = e[i]
          OBVIOUS
        <5> HIDE DEF f
        <5>4. j <= c
          BY <5>1
        <5>5. f[j] = e[j]
          BY <5>3, <5>4
        <5> QED BY <5>1, <5>2, <5>5
      <4>2. CASE k <= c
        BY <3>1, <3>2, <4>1, <4>2 DEF Increasing
      <4>3. CASE k = c + 1
        BY <1>2, <3>1, <4>1, <4>3
      <4> QED BY <3>1, <4>2, <4>3
    <3>8. \A i \in U : \E k \in 1 .. c + 1 : f[k] = i
      <4> SUFFICES ASSUME NEW i \in U PROVE \E k \in 1 .. c + 1 : f[k] = i
        OBVIOUS
      <4>1. CASE i = n + 1
        <5>1. c + 1 \in 1 .. c + 1 /\ f[c + 1] = n + 1
          BY <3>1
        <5> QED BY <4>1, <5>1
      <4>2. CASE i \in V
        <5>1. PICK k \in 1 .. c : e[k] = i
          BY <3>2, <4>2
        <5>2. k \in 1 .. c + 1 /\ f[k] = i
          BY <3>1, <5>1
        <5> QED BY <5>2
      <4> QED BY <3>4, <4>1, <4>2
    <3> HIDE DEF f
    <3> QED BY <3>1, <3>5, <3>6, <3>7, <3>8 DEF Listable
  <2> QED BY <2>1, <2>2
<1> HIDE DEF Good
<1>3. Good \in SUBSET Nat
  BY DEF Good
<1>4. Good = Nat
  BY <1>1, <1>2, <1>3, ByInduction
<1> QED BY <1>4 DEF Good
-----------------------------------------------------------------------------
(* The dependents of every task list its uses, in order.                   *)
Listed == \A t \in TaskIds : \E e : Enumerates(e, Task(t).dependents, t)

(* The uses of t by the new task n.                                        *)
NewPairs(n, src, t) == {<<n, i>> : i \in {i \in DOMAIN src : src[i] = t}}

(* What a list of dependents enumerates once the uses of one more task are *)
(* appended.                                                               *)
LEMMA OneMoreUser ==
  ASSUME NEW n \in Nat, NEW t \in 0 .. n - 1,
         NEW P \in SUBSET ((0 .. n - 1) \X Nat), NEW s \in Seq(0 .. n - 1),
         NEW e, Lists(e, s, P),
         NEW src \in Seq(0 .. n - 1),
         NEW u, u = s \o Repeat(n, Uses(src, t)),
         NEW Q, Q = P \cup NewPairs(n, src, t)
  PROVE  \E f : Lists(f, u, Q)
<1>0. /\ e \in [1 .. Len(s) -> P]
      /\ \A j, k \in 1 .. Len(s) : j < k => Before(e[j], e[k])
      /\ \A w \in P : \E k \in 1 .. Len(s) : e[k] = w
      /\ \A k \in 1 .. Len(s) : s[k] = e[k][1]
  BY DEF Lists
<1> DEFINE T == {i \in DOMAIN src : src[i] = t}
           c == Cardinality(T)
           l == Len(s)
<1>1. T \in SUBSET (1 .. Len(src)) /\ Len(src) \in Nat
  OBVIOUS
<1> HIDE DEF T
<1>2. c \in Nat /\ Listable(T)
  BY <1>1, Listing
<1>3. PICK g \in [1 .. c -> T] : Increasing(g, c) /\ \A i \in T : \E k \in 1 .. c : g[k] = i
  BY <1>2 DEF Listable
<1>4. Uses(src, t) = c
  BY DEF Uses, T
<1> HIDE DEF c
<1>5. /\ l \in Nat /\ Len(u) = l + c
      /\ \A k \in 1 .. l + c : u[k] = IF k <= l THEN s[k] ELSE n
  <2> DEFINE r == Repeat(n, c)
  <2>1. r \in Seq({n}) /\ Len(r) = c /\ \A i \in 1 .. c : r[i] = n
    BY <1>2 DEF Repeat
  <2>2. u = s \o r
    BY <1>4
  <2> HIDE DEF r
  <2>3. Len(u) = l + c /\ \A k \in 1 .. l + c : u[k] = IF k <= l THEN s[k] ELSE r[k - l]
    BY <2>1, <2>2
  <2>4. \A k \in 1 .. l + c : k <= l \/ k - l \in 1 .. c
    BY <1>2
  <2> QED BY <2>1, <2>3, <2>4
<1> HIDE DEF l
<1> DEFINE f == [k \in 1 .. l + c |-> IF k <= l THEN e[k] ELSE <<n, g[k - l]>>]
<1>6. ASSUME NEW k \in 1 .. l + c
      PROVE  \/ /\ k \in 1 .. l /\ f[k] = e[k] /\ e[k] \in P
             \/ /\ k > l /\ k - l \in 1 .. c /\ f[k] = <<n, g[k - l]>>
                /\ g[k - l] \in T
  <2>1. CASE k <= l
    <3>1. k \in 1 .. l
      BY <1>2, <1>5, <2>1
    <3>2. e[k] \in P
      BY <1>0, <3>1 DEF l
    <3> QED BY <2>1, <3>1, <3>2
  <2>2. CASE ~(k <= l)
    <3>1. k > l /\ k - l \in 1 .. c
      BY <1>2, <1>5, <2>2
    <3> QED BY <1>3, <2>2, <3>1
  <2> QED BY <2>1, <2>2
<1>7. f \in [1 .. l + c -> Q]
  <2>1. f = [k \in 1 .. l + c |-> f[k]]
    OBVIOUS
  <2> HIDE DEF f
  <2>2. \A i \in T : <<n, i>> \in Q
    BY DEF T, NewPairs
  <2>3. \A k \in 1 .. l + c : f[k] \in Q
    BY <1>6, <2>2
  <2> QED BY <2>1, <2>3
<1> HIDE DEF f
<1>8. ASSUME NEW j \in 1 .. l + c, NEW k \in 1 .. l + c, j < k
      PROVE  Before(f[j], f[k])
  <2>1. CASE k <= l
    <3>1. j \in 1 .. l /\ k \in 1 .. l /\ f[j] = e[j] /\ f[k] = e[k]
      BY <1>5, <1>6, <1>8, <2>1
    <3> QED BY <1>0, <1>8, <3>1 DEF l
  <2>2. CASE j <= l /\ k > l
    <3>1. f[j] \in P /\ f[k] = <<n, g[k - l]>>
      <4>1. l \in Nat /\ j \in Int /\ k \in Int /\ ~(j > l) /\ k \notin 1 .. l
        BY <1>2, <1>5, <2>2
      <4> QED BY <1>6, <4>1
    <3>2. f[j][1] < n
      BY <3>1
    <3> QED BY <3>1, <3>2 DEF Before
  <2>3. CASE j > l
    <3>1. k > l /\ j \in Int /\ k \in Int
      BY <1>5, <1>8, <2>3
    <3>2. /\ f[j] = <<n, g[j - l]>> /\ f[k] = <<n, g[k - l]>>
          /\ j - l \in 1 .. c /\ k - l \in 1 .. c
      BY <1>5, <1>6, <2>3, <3>1
    <3>3. j - l < k - l
      BY <1>5, <1>8, <3>1
    <3>4. g[j - l] < g[k - l]
      BY <1>3, <3>2, <3>3 DEF Increasing
    <3> QED BY <3>2, <3>4 DEF Before
  <2> QED BY <1>5, <2>1, <2>2, <2>3
<1>9. ASSUME NEW w \in Q PROVE \E k \in 1 .. l + c : f[k] = w
  <2>1. CASE w \in P
    <3>1. PICK k \in 1 .. l : e[k] = w
      BY <1>0, <2>1 DEF l
    <3>2. k \in 1 .. l + c /\ ~(k > l)
      BY <1>2, <1>5
    <3> QED BY <1>6, <3>1, <3>2
  <2>2. CASE w \notin P
    <3>1. PICK i \in T : w = <<n, i>>
      BY <2>2 DEF T, NewPairs
    <3>2. PICK m \in 1 .. c : g[m] = i
      BY <1>3
    <3> DEFINE k == m + l
    <3>3. k \in 1 .. l + c /\ k - l = m /\ k \notin 1 .. l
      <4>1. l \in Nat /\ c \in Nat /\ m \in Nat /\ 1 <= m /\ m <= c
        BY <1>2, <1>5
      <4> QED BY <4>1
    <3> HIDE DEF k
    <3> QED BY <1>6, <3>1, <3>2, <3>3
  <2> QED BY <2>1, <2>2
<1>10. ASSUME NEW k \in 1 .. l + c PROVE u[k] = f[k][1]
  <2>1. CASE k <= l
    <3>1. k \in 1 .. l /\ f[k] = e[k] /\ u[k] = s[k]
      BY <1>5, <1>6, <2>1
    <3> QED BY <1>0, <3>1 DEF l
  <2>2. CASE ~(k <= l)
    BY SMTT(30), <1>5, <1>6, <2>2
  <2> QED BY <2>1, <2>2
<1>11. Len(u) = l + c
  BY <1>5
<1>12. f \in [1 .. Len(u) -> Q]
  BY <1>7, <1>11
<1>13. /\ \A j, k \in 1 .. Len(u) : j < k => Before(f[j], f[k])
       /\ \A w \in Q : \E k \in 1 .. Len(u) : f[k] = w
       /\ \A k \in 1 .. Len(u) : u[k] = f[k][1]
  BY <1>8, <1>9, <1>10, <1>11
<1> QED BY <1>12, <1>13 DEF Lists

(* instantiate keeps the lists in order: a new task comes last.            *)
LEMMA InstantiateLists ==
  ASSUME UseInv, Listed,
         NEW i \in DOMAIN prototypes,
         NEW single \in AtMost(MaxSingle, TaskIds),
         NEW multi \in AtMost(MaxMulti, TaskIds),
         Instantiate(i, single, multi)
  PROVE  Listed'
<1>0. PICK n, src : src = single \o multi /\ Grown(n, src, i)
  BY Instantiated
<1>1. /\ n \in Nat /\ n = NumTasks /\ TaskIds = 0 .. n - 1
      /\ src \in Seq(0 .. n - 1)
      /\ IsSequence(tasks') /\ NumTasks' = n + 1 /\ TaskIds' = 0 .. n
      /\ Task(n)' = [prototype |-> i, dependencies |-> src,
                     dependents |-> <<>>, inputs |-> src,
                     priority |-> -Len(prototypes[i].rounds) - 1]
      /\ \A t \in 0 .. n - 1 :
           /\ Uses(src, t) \in Nat
           /\ Task(t)' = [Task(t) EXCEPT !.dependents =
                            Task(t).dependents \o Repeat(n, Uses(src, t))]
  BY <1>0 DEF Grown
<1>2. ASSUME NEW t \in 0 .. n - 1
      PROVE  /\ Task(t)'.inputs = Task(t).inputs
             /\ Task(t)'.dependents = Task(t).dependents \o Repeat(n, Uses(src, t))
             /\ Task(t).inputs \in Seq(0 .. t - 1)
             /\ Task(t).dependents \in Seq(0 .. n - 1)
  <2>1. /\ Recorded(Task(t)) /\ Task(t).inputs \in Seq(0 .. t - 1)
        /\ Task(t).dependents \in Seq(0 .. n - 1)
    BY <1>1 DEF UseInv, Shape, Ordered
  <2> QED BY <1>1, <2>1 DEF Recorded
<1>3. Task(n)'.inputs = src /\ Task(n)'.dependents = <<>>
  BY <1>1
<1>4. ASSUME NEW t
      PROVE  Pairs(t)' = Pairs(t) \cup {<<n, j>> : j \in {j \in DOMAIN src : src[j] = t}}
  <2>1. ASSUME NEW w \in Nat \X Nat
        PROVE  w \in Pairs(t)' <=> \/ w \in Pairs(t)
                                   \/ w[1] = n /\ w[2] \in DOMAIN src /\ src[w[2]] = t
    <3>1. CASE w[1] \in 0 .. n - 1
      BY <1>1, <1>2, <3>1 DEF Pairs
    <3>2. CASE w[1] = n
      BY <1>1, <1>3, <3>2 DEF Pairs
    <3>3. CASE w[1] \notin 0 .. n
      BY <1>1, <3>3 DEF Pairs
    <3> QED BY <1>1, <3>1, <3>2, <3>3
  <2>2. \A j \in DOMAIN src : <<n, j>> \in Nat \X Nat
    BY <1>1
  <2>3. ASSUME NEW w PROVE w \in Pairs(t)' => w \in Nat \X Nat
    BY DEF Pairs
  <2>4. ASSUME NEW w PROVE w \in Pairs(t) => w \in Nat \X Nat
    BY DEF Pairs
  <2>5. ASSUME NEW w \in Nat \X Nat
        PROVE  (w[1] = n /\ w[2] \in DOMAIN src /\ src[w[2]] = t)
                 <=> w \in {<<n, j>> : j \in {j \in DOMAIN src : src[j] = t}}
    <3>1. w = <<w[1], w[2]>>
      OBVIOUS
    <3> QED BY <3>1
  <2> QED BY <2>1, <2>2, <2>3, <2>4, <2>5
<1>5. ASSUME NEW t \in 0 .. n - 1
      PROVE  \E f : Enumerates(f, Task(t).dependents, t)'
  <2>0. PICK s, P, Q, u : /\ s = Task(t).dependents /\ P = Pairs(t)
                          /\ Q = Pairs(t)' /\ u = Task(t)'.dependents
    OBVIOUS
  <2>1. PICK e : Lists(e, s, P)
    BY <1>1, <2>0 DEF Listed, Enumerates
  <2>2. P \in SUBSET ((0 .. n - 1) \X Nat)
    BY <1>1, <2>0 DEF Pairs
  <2>3. /\ s \in Seq(0 .. n - 1) /\ u = s \o Repeat(n, Uses(src, t))
        /\ src \in Seq(0 .. n - 1) /\ n \in Nat
    BY <1>1, <1>2, <2>0
  <2>4. Q = P \cup NewPairs(n, src, t)
    BY <1>4, <2>0 DEF NewPairs
  <2>5. \E f : Lists(f, u, Q)
    BY <2>1, <2>2, <2>3, <2>4, OneMoreUser
  <2> QED BY <2>0, <2>5 DEF Enumerates
<1>6. \E f : Enumerates(f, Task(n).dependents, n)'
  <2>1. Pairs(n)' = {}
    <3>1. \A d \in 0 .. n - 1 : Task(d).inputs \in Seq(0 .. d - 1)
      BY <1>2
    <3>2. Pairs(n) = {}
      <4> SUFFICES ASSUME NEW w \in Pairs(n) PROVE FALSE
        OBVIOUS
      <4>1. /\ w[1] \in 0 .. n - 1 /\ w[2] \in DOMAIN Task(w[1]).inputs
            /\ Task(w[1]).inputs[w[2]] = n
        BY <1>1 DEF Pairs
      <4>2. Task(w[1]).inputs \in Seq(0 .. w[1] - 1)
        BY <3>1, <4>1
      <4>3. \A S : \A s \in Seq(S) : \A k \in DOMAIN s : s[k] \in S
        OBVIOUS
      <4>4. n \in 0 .. w[1] - 1
        BY <4>1, <4>2, <4>3
      <4> QED BY <4>1, <4>4
    <3>3. {j \in DOMAIN src : src[j] = n} = {}
      <4>1. \A k \in DOMAIN src : src[k] \in 0 .. n - 1
        BY <1>1
      <4> QED BY <4>1
    <3> QED BY <1>4, <3>2, <3>3
  <2>2. Task(n)'.dependents = <<>>
    BY <1>3
  <2> DEFINE f == [k \in 1 .. 0 |-> 0]
  <2>3. 1 .. 0 = {} /\ f \in [1 .. 0 -> {}] /\ Len(<<>>) = 0
    OBVIOUS
  <2> HIDE DEF f
  <2>4. /\ f \in [1 .. Len(Task(n)'.dependents) -> Pairs(n)']
        /\ 1 .. Len(Task(n)'.dependents) = {}
    BY <2>1, <2>2, <2>3
  <2>5. Enumerates(f, Task(n).dependents, n)'
    BY <2>1, <2>4 DEF Enumerates, Lists
  <2> QED BY <2>5
<1>7. \A t \in 0 .. n : t \in 0 .. n - 1 \/ t = n
  BY <1>1
<1> QED BY <1>1, <1>5, <1>6, <1>7 DEF Listed

(* Steps that leave inputs and dependents alone.                           *)
LEMMA ListsUnrelated ==
  ASSUME Listed, TaskIds' = TaskIds,
         \A t \in TaskIds : /\ Task(t)'.inputs = Task(t).inputs
                            /\ Task(t)'.dependents = Task(t).dependents
  PROVE  Listed'
<1>1. \A t : Pairs(t)' = Pairs(t)
  BY DEF Pairs
<1>2. ASSUME NEW t \in TaskIds, NEW e, Enumerates(e, Task(t).dependents, t)
      PROVE  Enumerates(e, Task(t).dependents, t)'
  BY <1>1, <1>2 DEF Enumerates, Lists
<1> QED BY <1>2 DEF Listed
-----------------------------------------------------------------------------
(* While building, next is above all tasks; finish walks it down.          *)
InRange == NumTasks <= MaxTasks /\ (next \in -1 .. NumTasks - 1 \/ next = MaxTasks)

(* The tasks above next have their priority; the others what instantiate   *)
(* gave them.                                                              *)
Base(t) == -Len(Prototype(t).rounds) - 1
Priced ==
  \A t \in TaskIds :
    Task(t).priority = IF t <= next THEN Base(t) ELSE Base(t) + Delta(t)

(* The tasks above next that need nothing are listed, last first.          *)
Needless(t) == Task(t).dependencies = <<>>
Readied ==
  /\ ready \in Seq(Int)
  /\ \A i \in DOMAIN ready : /\ ready[i] \in TaskIds /\ ready[i] > next
                             /\ Needless(ready[i])
  /\ \A i, j \in DOMAIN ready : i < j => ready[i] > ready[j]
  /\ \A t \in TaskIds : t > next /\ Needless(t) => \E i \in DOMAIN ready : ready[i] = t

PlanInv == InRange /\ Listed /\ Priced /\ Readied

(* Nothing is built yet.                                                   *)
LEMMA PlanInitially == BuilderInit => PlanInv
<1> SUFFICES ASSUME BuilderInit PROVE PlanInv
  OBVIOUS
<1>1. tasks = <<>> /\ NumTasks = 0 /\ TaskIds = {} /\ ready = <<>> /\ next = MaxTasks
  BY DEF BuilderInit, TaskIds, NumTasks
<1>2. InRange
  BY <1>1, BuilderAssumption DEF InRange
<1>3. Listed /\ Priced
  BY <1>1 DEF Listed, Priced
<1>4. Readied
  <2>1. ready \in Seq(Int) /\ DOMAIN ready = {}
    BY <1>1
  <2> QED BY <1>1, <2>1 DEF Readied
<1> QED BY <1>2, <1>3, <1>4 DEF PlanInv

(* Tasks are numbered by integers, and next is one.                        *)
LEMMA Numbers ==
  ASSUME UseInv, InRange
  PROVE  NumTasks \in Nat /\ TaskIds \subseteq Nat /\ next \in Int
<1>1. NumTasks \in Nat
  BY DEF UseInv, Shape, IsSequence, NumTasks
<1> QED BY <1>1, BuilderAssumption DEF InRange, TaskIds

(* Steps that build prototypes only.                                       *)
LEMMA PlanUnrelated ==
  ASSUME UseInv, PlanInv, UNCHANGED <<tasks, ready, next>>,
         \A i \in DOMAIN prototypes : prototypes'[i] = prototypes[i]
  PROVE  PlanInv'
<1>1. /\ NumTasks' = NumTasks /\ TaskIds' = TaskIds /\ next' = next
      /\ \A t : Task(t)' = Task(t) /\ Delta(t)' = Delta(t) /\ (Needless(t)' <=> Needless(t))
  BY DEF NumTasks, TaskIds, Task, Delta, Needless
<1>2. InRange'
  BY <1>1 DEF PlanInv, InRange
<1>3. Listed'
  BY <1>1, ListsUnrelated DEF PlanInv
<1>4. \A t \in TaskIds : Base(t)' = Base(t)
  <2> SUFFICES ASSUME NEW t \in TaskIds PROVE Base(t)' = Base(t)
    OBVIOUS
  <2>1. Task(t).prototype \in DOMAIN prototypes
    BY DEF UseInv, Ordered
  <2>2. Prototype(t)' = Prototype(t)
    BY <1>1, <2>1 DEF Prototype
  <2> QED BY <2>2 DEF Base
<1>5. Priced'
  BY <1>1, <1>4 DEF PlanInv, Priced
<1>6. Readied'
  BY <1>1 DEF PlanInv, Readied
<1> QED BY <1>2, <1>3, <1>5, <1>6 DEF PlanInv

(* A new task has the priority of its prototype and no dependents.         *)
LEMMA PlanInstantiate ==
  ASSUME UseInv, PlanInv,
         NEW i \in DOMAIN prototypes,
         NEW single \in AtMost(MaxSingle, TaskIds),
         NEW multi \in AtMost(MaxMulti, TaskIds),
         Instantiate(i, single, multi)
  PROVE  PlanInv'
<1>0. PICK n, src : src = single \o multi /\ Grown(n, src, i)
  BY Instantiated
<1>1. /\ n \in Nat /\ n = NumTasks /\ TaskIds = 0 .. n - 1
      /\ NumTasks' = n + 1 /\ TaskIds' = 0 .. n
      /\ Task(n)' = [prototype |-> i, dependencies |-> src,
                     dependents |-> <<>>, inputs |-> src,
                     priority |-> -Len(prototypes[i].rounds) - 1]
      /\ \A t \in 0 .. n - 1 :
           Task(t)' = [Task(t) EXCEPT !.dependents =
                         Task(t).dependents \o Repeat(n, Uses(src, t))]
  BY <1>0 DEF Grown
<1>2. next = MaxTasks /\ n < MaxTasks /\ UNCHANGED <<prototypes, ready, next>>
  BY <1>1 DEF Instantiate, Building
<1>3. \A t \in 0 .. n - 1 : /\ Task(t)'.priority = Task(t).priority
                            /\ Task(t)'.prototype = Task(t).prototype
                            /\ Task(t)'.dependencies = Task(t).dependencies
  <2> SUFFICES ASSUME NEW t \in 0 .. n - 1
               PROVE  /\ Task(t)'.priority = Task(t).priority
                      /\ Task(t)'.prototype = Task(t).prototype
                      /\ Task(t)'.dependencies = Task(t).dependencies
    OBVIOUS
  <2>1. Recorded(Task(t))
    BY <1>1 DEF UseInv, Shape
  <2> QED BY <1>1, <2>1 DEF Recorded
<1>4. InRange'
  BY <1>1, <1>2, BuilderAssumption DEF InRange
<1>5. Listed'
  BY InstantiateLists DEF PlanInv
<1>6. Priced'
  <2> SUFFICES ASSUME NEW t \in 0 .. n
               PROVE  Task(t)'.priority = IF t <= next THEN Base(t)' ELSE Base(t)' + Delta(t)'
    BY <1>1, <1>2 DEF Priced
  <2>1. t <= next
    BY <1>1, <1>2, BuilderAssumption
  <2>2. CASE t \in 0 .. n - 1
    <3>1. Task(t).priority = Base(t)
      BY <1>1, <2>1, <2>2 DEF PlanInv, Priced
    <3>2. Base(t)' = Base(t)
      BY <1>2, <1>3, <2>2 DEF Base, Prototype
    <3> QED BY <1>3, <2>1, <2>2, <3>1, <3>2
  <2>3. CASE t = n
    <3>1. Task(t)'.prototype = i /\ Task(t)'.priority = -Len(prototypes[i].rounds) - 1
      BY <1>1, <2>3
    <3>2. Base(t)' = -Len(prototypes[i].rounds) - 1
      BY <1>2, <3>1 DEF Base, Prototype
    <3> QED BY <2>1, <3>1, <3>2
  <2>4. t \in 0 .. n - 1 \/ t = n
    BY <1>1
  <2> QED BY <2>2, <2>3, <2>4
<1>7. Readied'
  <2>1. ready \in Seq(Int) /\ DOMAIN ready = {}
    <3>1. \A k \in DOMAIN ready : ready[k] \in 0 .. n - 1 /\ ready[k] > MaxTasks
      BY <1>1, <1>2 DEF PlanInv, Readied
    <3> QED BY SMTT(30), <1>1, <1>2, <3>1, BuilderAssumption DEF PlanInv, Readied
  <2>2. \A t \in 0 .. n : ~(t > next)
    BY <1>1, <1>2, BuilderAssumption
  <2> QED BY <1>1, <1>2, <2>1, <2>2 DEF Readied
<1> QED BY <1>4, <1>5, <1>6, <1>7 DEF PlanInv

(* finish starts at the last task.                                         *)
LEMMA PlanStart ==
  ASSUME UseInv, PlanInv, StartFinish
  PROVE  PlanInv'
<1>1. /\ NumTasks' = NumTasks /\ TaskIds' = TaskIds
      /\ next = MaxTasks /\ next' = NumTasks - 1
      /\ UNCHANGED <<prototypes, tasks, ready>>
      /\ \A t : /\ Task(t)' = Task(t) /\ Delta(t)' = Delta(t) /\ Base(t)' = Base(t)
                /\ (Needless(t)' <=> Needless(t))
  BY DEF StartFinish, Building, NumTasks, TaskIds, Task, Delta, Needless, Base, Prototype
<1>2. NumTasks \in Nat /\ NumTasks <= MaxTasks
  BY Numbers DEF PlanInv, InRange
<1>3. \A t \in TaskIds : t <= next /\ t <= next' /\ ~(t > next')
  BY <1>1, <1>2, BuilderAssumption DEF TaskIds
<1>4. InRange'
  BY <1>1, <1>2 DEF InRange
<1>5. Listed'
  BY <1>1, ListsUnrelated DEF PlanInv
<1>6. Priced'
  BY <1>1, <1>3 DEF PlanInv, Priced
<1>7. Readied'
  <2>1. DOMAIN ready = {}
    <3>1. \A k \in DOMAIN ready : ready[k] \in TaskIds /\ ready[k] > MaxTasks
      BY <1>1 DEF PlanInv, Readied
    <3>2. ASSUME NEW k \in DOMAIN ready PROVE FALSE
      <4>1. ready[k] \in 0 .. NumTasks - 1 /\ ready[k] > MaxTasks
        BY <3>1 DEF TaskIds
      <4> QED BY <1>2, <4>1, BuilderAssumption
    <3> QED BY <3>2
  <2> QED BY <1>1, <1>3, <2>1 DEF PlanInv, Readied
<1> QED BY <1>4, <1>5, <1>6, <1>7 DEF PlanInv

(* One step of finish: the dependents of the task have their priorities.   *)
LEMMA PlanFinish ==
  ASSUME UseInv, PlanInv, FinishTask
  PROVE  PlanInv'
<1>1. /\ NumTasks' = NumTasks /\ TaskIds' = TaskIds
      /\ \A t \in TaskIds : /\ Task(t)'.inputs = Task(t).inputs
                            /\ Task(t)'.prototype = Task(t).prototype
                            /\ Task(t)'.dependencies = Task(t).dependencies
                            /\ Task(t)'.dependents = Task(t).dependents
                            /\ Task(t)'.priority = IF t = next THEN Task(t).priority + Delta(t)
                                                   ELSE Task(t).priority
  BY OneFinished
<1>2. /\ next \in TaskIds /\ next' = next - 1 /\ UNCHANGED prototypes
      /\ ready' = IF Needless(next) THEN Append(ready, next) ELSE ready
  BY DEF FinishTask, Needless
<1>3. NumTasks \in Nat /\ TaskIds \subseteq Nat /\ next \in Nat /\ next < NumTasks
  BY <1>2, Numbers DEF TaskIds, PlanInv
<1>4. InRange'
  BY <1>1, <1>2, <1>3 DEF PlanInv, InRange
<1>5. Listed'
  BY <1>1, ListsUnrelated DEF PlanInv
<1>6. \A t \in TaskIds : Base(t)' = Base(t) /\ (Needless(t)' <=> Needless(t))
  BY <1>1, <1>2 DEF Base, Prototype, Needless
<1>7. ASSUME NEW t \in TaskIds, t >= next PROVE Delta(t)' = Delta(t)
  <2> DEFINE D == ToSet(Task(t).dependents)
  <2>1. \A d \in D : d \in TaskIds /\ d > next
    <3>1. D = {d \in t + 1 .. NumTasks - 1 : Uses(Task(d).inputs, t) > 0}
      BY DependentsAre
    <3> QED BY <1>3, <1>7, <3>1 DEF TaskIds
  <2>2. ToSet(Task(t).dependents)' = D
    BY <1>1 DEF ToSet
  <2> HIDE DEF D
  <2>3. {Task(d)'.priority : d \in D} = {Task(d).priority : d \in D}
    <3>1. ASSUME NEW d \in D PROVE Task(d)'.priority = Task(d).priority
      <4>1. d \in TaskIds /\ d > next /\ d \in Nat
        BY <1>3, <2>1
      <4>2. d # next
        BY <1>3, <4>1
      <4> QED BY <1>1, <4>1, <4>2
    <3> QED BY <3>1
  <2>4. Delta(t) = Best({Task(d).priority : d \in D})
    BY DeltaIsBest DEF D
  <2>5. Delta(t)' = Best({Task(d)'.priority : d \in D})
    <3>1. Delta(t)' = Best({Task(d)'.priority : d \in ToSet(Task(t).dependents)'})
      BY Zenon DEF Delta, Best
    <3> QED BY <2>2, <3>1
  <2> QED BY <2>3, <2>4, <2>5
<1>8. Priced'
  <2> SUFFICES ASSUME NEW t \in TaskIds
               PROVE  Task(t)'.priority = IF t <= next - 1 THEN Base(t)' ELSE Base(t)' + Delta(t)'
    BY <1>1, <1>2 DEF Priced
  <2>0. t \in Nat /\ Task(t).priority = IF t <= next THEN Base(t) ELSE Base(t) + Delta(t)
    BY <1>3 DEF PlanInv, Priced
  <2>1. CASE t < next
    <3>1. t <= next /\ t <= next - 1 /\ t # next
      BY <1>3, <2>0, <2>1
    <3> QED BY <1>1, <1>6, <2>0, <3>1
  <2>2. CASE t = next
    <3>1. t <= next /\ ~(t <= next - 1) /\ t >= next
      BY <1>3, <2>0, <2>2
    <3>2. Task(t)'.priority = Base(t) + Delta(t)
      BY <1>1, <2>0, <2>2, <3>1
    <3> QED BY <1>6, <1>7, <3>1, <3>2
  <2>3. CASE t > next
    <3>1. ~(t <= next) /\ ~(t <= next - 1) /\ t >= next /\ t # next
      BY <1>3, <2>0, <2>3
    <3>2. Task(t)'.priority = Base(t) + Delta(t)
      BY <1>1, <2>0, <3>1
    <3> QED BY <1>6, <1>7, <3>1, <3>2
  <2> QED BY <1>3, <2>0, <2>1, <2>2, <2>3
<1>9. Readied'
  <2> DEFINE n == Len(ready)
  <2>1. /\ ready \in Seq(Int) /\ DOMAIN ready = 1 .. n /\ n \in Nat
        /\ \A k \in 1 .. n : ready[k] \in TaskIds /\ ready[k] > next /\ Needless(ready[k])
        /\ \A j, k \in 1 .. n : j < k => ready[j] > ready[k]
        /\ \A t \in TaskIds : t > next /\ Needless(t) => \E k \in 1 .. n : ready[k] = t
    BY DEF PlanInv, Readied
  <2> HIDE DEF n
  <2>2. CASE ~Needless(next)
    <3>1. ready' = ready /\ next' = next - 1
      BY <1>2, <2>2
    <3>2. \A k \in 1 .. n : ready[k] > next - 1
      BY <1>3, <2>1
    <3>3. \A t \in TaskIds : t > next - 1 /\ Needless(t) => t > next
      BY <1>3, <2>2
    <3> QED BY <1>1, <1>6, <2>1, <3>1, <3>2, <3>3 DEF Readied
  <2>3. CASE Needless(next)
    <3>1. /\ ready' \in Seq(Int) /\ DOMAIN ready' = 1 .. n + 1
          /\ \A k \in 1 .. n : ready'[k] = ready[k]
          /\ ready'[n + 1] = next
      BY <1>2, <1>3, <2>1, <2>3 DEF n
    <3>2. ASSUME NEW k \in 1 .. n + 1
          PROVE  ready'[k] \in TaskIds /\ ready'[k] > next - 1 /\ Needless(ready'[k])
      <4>1. CASE k \in 1 .. n
        BY <1>3, <2>1, <3>1, <4>1
      <4>2. CASE k = n + 1
        BY <1>2, <1>3, <2>3, <3>1, <4>2
      <4> QED BY <2>1, <4>1, <4>2
    <3>3. ASSUME NEW j \in 1 .. n + 1, NEW k \in 1 .. n + 1, j < k
          PROVE  ready'[j] > ready'[k]
      <4>1. j \in 1 .. n /\ ready'[j] = ready[j]
        BY <2>1, <3>1, <3>3
      <4>2. CASE k \in 1 .. n
        BY <2>1, <3>1, <3>3, <4>1, <4>2
      <4>3. CASE k = n + 1
        BY <2>1, <3>1, <4>1, <4>3
      <4> QED BY <2>1, <4>2, <4>3
    <3>4. ASSUME NEW t \in TaskIds, t > next - 1, Needless(t)
          PROVE  \E k \in 1 .. n + 1 : ready'[k] = t
      <4>1. CASE t = next
        <5>1. n + 1 \in 1 .. n + 1
          BY <2>1
        <5> QED BY <3>1, <4>1, <5>1
      <4>2. CASE t > next
        <5>1. PICK k \in 1 .. n : ready[k] = t
          BY <2>1, <3>4, <4>2
        <5>2. k \in 1 .. n + 1
          BY <2>1
        <5> QED BY <3>1, <5>1, <5>2
      <4> QED BY <1>3, <3>4, <4>1, <4>2
    <3> QED BY <1>1, <1>2, <1>6, <3>1, <3>2, <3>3, <3>4 DEF Readied
  <2> QED BY <2>2, <2>3
<1> QED BY <1>4, <1>5, <1>8, <1>9 DEF PlanInv

(* One case per action.                                                    *)
LEMMA PlanKept == UseInv /\ RoundInv /\ PlanInv /\ [BuilderNext]_builderVars => PlanInv'
<1> SUFFICES ASSUME UseInv, RoundInv, PlanInv, [BuilderNext]_builderVars PROVE PlanInv'
  OBVIOUS
<1>1. CASE NewPrototype
  BY <1>1, PlanUnrelated DEF NewPrototype
<1>2. CASE \E who \in Parties : Send(who)
  BY <1>2, PlanUnrelated DEF Send
<1>3. CASE RegisterPrototype
  <2>1. prototypes \in Seq(Registered)
    BY DEF RoundInv, PrototypesRight
  <2>2. PICK q : prototypes' = Append(prototypes, q) /\ UNCHANGED <<tasks, ready, next>>
    BY <1>3 DEF RegisterPrototype
  <2>3. \A i \in DOMAIN prototypes : prototypes'[i] = prototypes[i]
    BY <2>1, <2>2
  <2> QED BY <2>2, <2>3, PlanUnrelated
<1>4. CASE \E i \in DOMAIN prototypes : \E single \in AtMost(MaxSingle, TaskIds) :
             \E multi \in AtMost(MaxMulti, TaskIds) : Instantiate(i, single, multi)
  BY <1>4, PlanInstantiate
<1>5. CASE StartFinish
  BY <1>5, PlanStart
<1>6. CASE FinishTask
  BY <1>6, PlanFinish
<1>7. CASE UNCHANGED builderVars
  BY <1>7, PlanUnrelated DEF builderVars
<1> QED BY <1>1, <1>2, <1>3, <1>4, <1>5, <1>6, <1>7 DEF BuilderNext

(* Once finish is done, the priorities solve the equation of the manifest. *)
LEMMA PrioritiesRight ==
  ASSUME UseInv, RoundsMatch, PlanInv, Finished
  PROVE  \A t \in TaskIds : Task(t).priority = M!Priority[t]
<1> DEFINE f == [t \in TaskIds |-> Task(t).priority]
<1>1. NumTasks \in Nat /\ TaskIds \subseteq Nat
  BY Numbers DEF PlanInv
<1>2. ASSUME NEW t \in TaskIds PROVE f[t] = Inferred(f, t)
  <2> DEFINE D == ToSet(Task(t).dependents)
  <2>1. f[t] = Base(t) + Delta(t)
    BY <1>1 DEF PlanInv, Priced, Finished
  <2>2. M!Rounds(t) = Len(Prototype(t).rounds)
    BY DEF RoundsMatch
  <2>3. D = Users(t)
    <3>1. D = {d \in t + 1 .. NumTasks - 1 : Uses(Task(d).inputs, t) > 0}
      BY DependentsAre
    <3>2. \A d \in t + 1 .. NumTasks - 1 : M!Mult(d, t) = Uses(Task(d).inputs, t)
      <4> SUFFICES ASSUME NEW d \in t + 1 .. NumTasks - 1
                   PROVE  M!Mult(d, t) = Uses(Task(d).inputs, t)
        OBVIOUS
      <4>1. d \in TaskIds
        BY <1>1 DEF TaskIds
      <4>2. M!Mult(d, t) = M!Cardinality({i \in DOMAIN Task(d).inputs : Task(d).inputs[i] = t})
        BY <4>1, Zenon DEF M!Mult
      <4>3. \A S : M!Cardinality(S) = Cardinality(S)
        BY DEF M!Cardinality, Cardinality
      <4> QED BY <4>2, <4>3 DEF Uses
    <3> QED BY <3>1, <3>2 DEF Users
  <2>4. \A d \in D : f[d] = Task(d).priority
    BY <1>1, <2>3 DEF Users, TaskIds
  <2>5. {f[d] : d \in Users(t)} = {Task(d).priority : d \in D}
    BY <2>3, <2>4
  <2>6. Delta(t) = Best({f[d] : d \in Users(t)})
    BY <2>5, DeltaIsBest
  <2> HIDE DEF D, f
  <2> QED BY <2>1, <2>2, <2>6 DEF Inferred, Base
<1>3. Solves(f)
  <2>1. f = [t \in TaskIds |-> f[t]]
    OBVIOUS
  <2> HIDE DEF f
  <2> QED BY <1>2, <2>1 DEF Solves
<1>4. M!Priority = f
  <2> HIDE DEF f
  <2> QED BY <1>1, <1>3, PrioritySolves
<1> QED BY <1>4

(* For every circuit, the priorities finish leaves solve the recursive     *)
(* equation of Manifest, from which the runner's model starts              *)
(* (circuit_builder.rs:424-444).                                           *)
PrioritiesAgree == Finished => \A t \in TaskIds : Task(t).priority = M!Priority[t]

THEOREM PrioritiesSolved == BuilderSpec => []PrioritiesAgree
<1>1. UseInv /\ RoundInv /\ PlanInv /\ RoundsMatch => PrioritiesAgree
  BY PrioritiesRight DEF PrioritiesAgree
<1> QED BY <1>1, Initially, StepKeeps, RoundsInitially, RoundsKept, PlanInitially, PlanKept,
           RoundsAgree, PTL DEF BuilderSpec

(* The rounds of a task are counted.                                       *)
LEMMA RoundsCounted ==
  ASSUME UseInv, RoundInv, NEW t \in TaskIds
  PROVE  Len(Prototype(t).rounds) \in Nat
<1>1. prototypes \in Seq(Registered)
  BY DEF RoundInv, PrototypesRight
<1>2. Task(t).prototype \in DOMAIN prototypes
  BY DEF UseInv, Ordered
<1>3. Prototype(t) \in Registered
  BY <1>1, <1>2 DEF Prototype
<1> QED BY <1>3 DEF Registered, RoundSeqs

(* A list of integers with an entry has a greatest.                        *)
LEMMA GreatestEntry ==
  ASSUME NEW n \in Nat, NEW f \in [1 .. n + 1 -> Int]
  PROVE  \E k \in 1 .. n + 1 : \A j \in 1 .. n + 1 : f[j] <= f[k]
<1> DEFINE Top(m, g, k) == \A j \in 1 .. m + 1 : g[j] <= g[k]
           HasTop(m) == \A g \in [1 .. m + 1 -> Int] : \E k \in 1 .. m + 1 : Top(m, g, k)
           Good == {m \in Nat : HasTop(m)}
<1>1. 0 \in Good
  <2>1. \A g : Top(0, g, 1) <=> g[1] <= g[1]
    OBVIOUS
  <2> QED BY <2>1
<1>2. ASSUME NEW m \in Good PROVE m + 1 \in Good
  <2> SUFFICES HasTop(m + 1)
    <3> HIDE DEF HasTop
    <3> QED OBVIOUS
  <2> SUFFICES ASSUME NEW g \in [1 .. (m + 1) + 1 -> Int]
               PROVE  \E k \in 1 .. (m + 1) + 1 : Top(m + 1, g, k)
    OBVIOUS
  <2> DEFINE h == [j \in 1 .. m + 1 |-> g[j]]
  <2>1. h \in [1 .. m + 1 -> Int] /\ m \in Nat
    OBVIOUS
  <2>2. PICK k \in 1 .. m + 1 : Top(m, h, k)
    BY <2>1
  <2>3. \A j \in 1 .. m + 1 : g[j] <= g[k]
    BY <2>2
  <2>4. CASE g[m + 2] <= g[k]
    <3>1. Top(m + 1, g, k)
      BY <2>1, <2>3, <2>4
    <3> QED BY <2>1, <3>1
  <2>5. CASE ~(g[m + 2] <= g[k])
    <3>1. Top(m + 1, g, m + 2)
      BY <2>1, <2>3, <2>5
    <3> QED BY <2>1, <3>1
  <2> QED BY <2>4, <2>5
<1>3. Good \in SUBSET Nat
  OBVIOUS
<1>4. n \in Good
  <2> HIDE DEF Good
  <2> QED BY <1>1, <1>2, <1>3, ByInduction
<1> QED BY <1>4

(* What finish adds to a task with dependents is the priority of one.      *)
LEMMA DeltaOfOne ==
  ASSUME UseInv, NEW t \in TaskIds, Task(t).dependents # <<>>,
         \A d \in ToSet(Task(t).dependents) : Task(d).priority \in Int
  PROVE  \E d \in ToSet(Task(t).dependents) : Task(d).priority = Delta(t)
<1> DEFINE s == Task(t).dependents
           f == [j \in 1 .. Len(s) |-> Task(s[j]).priority]
           S == {Task(d).priority : d \in ToSet(s)}
<1>1. s \in Seq(TaskIds) /\ Len(s) \in Nat /\ Len(s) # 0 /\ DOMAIN s = 1 .. Len(s)
  BY DEF UseInv, Ordered
<1>2. \A j \in 1 .. Len(s) : s[j] \in ToSet(s)
  BY <1>1 DEF ToSet
<1>3. f \in [1 .. Len(s) -> Int]
  BY <1>2
<1>4. PICK k \in 1 .. Len(s) : \A j \in 1 .. Len(s) : f[j] <= f[k]
  <2>1. PICK n \in Nat : Len(s) = n + 1
    <3>1. Len(s) - 1 \in Nat /\ Len(s) = (Len(s) - 1) + 1
      BY <1>1
    <3> QED BY <3>1
  <2> HIDE DEF f
  <2>2. f \in [1 .. n + 1 -> Int]
    BY <1>3, <2>1
  <2>3. \E k \in 1 .. n + 1 : \A j \in 1 .. n + 1 : f[j] <= f[k]
    BY <2>2, GreatestEntry
  <2> QED BY <2>1, <2>3
<1>5. \A d \in ToSet(s) : \E j \in 1 .. Len(s) : d = s[j]
  BY <1>1 DEF ToSet
<1>6. f[k] \in S /\ \A m \in S : m <= f[k]
  <2>1. \A j \in 1 .. Len(s) : f[j] = Task(s[j]).priority
    OBVIOUS
  <2> HIDE DEF f, s
  <2>2. f[k] \in S
    BY <1>2, <2>1
  <2>3. ASSUME NEW d \in ToSet(s) PROVE Task(d).priority <= f[k]
    BY <1>4, <1>5, <2>1
  <2> QED BY <2>2, <2>3
<1>7. Delta(t) = Best(S)
  BY DeltaIsBest
<1>8. Delta(t) \in S
  <2> HIDE DEF S, f
  <2> QED BY <1>6, <1>7 DEF Best
<1> QED BY <1>8

(* Once finish is done every priority is an integer: the last task for     *)
(* which it were not would have dependents for which it is.                *)
LEMMA PrioritiesTyped ==
  ASSUME UseInv, RoundInv, PlanInv, Finished
  PROVE  \A t \in TaskIds : Task(t).priority \in Int
<1>1. NumTasks \in Nat /\ TaskIds = 0 .. NumTasks - 1
  BY Numbers DEF PlanInv, TaskIds
<1> DEFINE Odd == {k \in Nat : k < NumTasks /\ Task(NumTasks - 1 - k).priority \notin Int}
<1>2. CASE Odd = {}
  <2> SUFFICES ASSUME NEW t \in TaskIds PROVE Task(t).priority \in Int
    OBVIOUS
  <2> DEFINE k == NumTasks - 1 - t
  <2>1. k \in Nat /\ k < NumTasks /\ NumTasks - 1 - k = t
    BY <1>1
  <2> HIDE DEF k
  <2> QED BY <1>2, <2>1
<1>3. CASE Odd # {}
  <2>1. PICK k \in Odd : \A j \in Odd : k <= j
    <3>1. Odd \in SUBSET Nat
      OBVIOUS
    <3> HIDE DEF Odd
    <3> QED BY <1>3, <3>1, LeastNat
  <2> DEFINE t == NumTasks - 1 - k
  <2>2. t \in TaskIds /\ t \in Nat /\ Task(t).priority \notin Int
    BY <1>1
  <2>3. ASSUME NEW d \in ToSet(Task(t).dependents) PROVE Task(d).priority \in Int
    <3>1. d \in t + 1 .. NumTasks - 1
      BY <2>2, DependentsAre
    <3> DEFINE j == NumTasks - 1 - d
    <3>2. j \in Nat /\ j < NumTasks /\ NumTasks - 1 - j = d /\ ~(k <= j)
      BY <1>1, <2>2, <3>1
    <3>3. j \notin Odd
      BY <2>1, <3>2
    <3> HIDE DEF j
    <3> QED BY <3>2, <3>3
  <2>4. Delta(t) \in Int
    <3>1. CASE Task(t).dependents = <<>>
      <4>1. ToSet(Task(t).dependents) = {}
        BY <3>1 DEF ToSet
      <4>2. {Task(d).priority : d \in ToSet(Task(t).dependents)} = {}
        BY <4>1
      <4> QED BY <4>2, DeltaIsBest DEF Best
    <3>2. CASE Task(t).dependents # <<>>
      <4> HIDE DEF t
      <4> QED BY <2>2, <2>3, <3>2, DeltaOfOne
    <3> QED BY <3>1, <3>2
  <2>5. Task(t).priority = Base(t) + Delta(t)
    <3>1. ~(t <= next)
      BY <2>2 DEF Finished
    <3> HIDE DEF t
    <3> QED BY <2>2, <3>1 DEF PlanInv, Priced
  <2>6. Base(t) \in Int
    <3> HIDE DEF t
    <3> QED BY <2>2, RoundsCounted DEF Base
  <2> QED BY <2>2, <2>4, <2>5, <2>6
<1> QED BY <1>2, <1>3

(* A task takes at most one step more than it has rounds.                  *)
LEMMA StepsAndRounds ==
  ASSUME NEW t \in TaskIds, NEW p, M!Rounds(t) \in Nat
  PROVE  /\ M!ExpectedSteps(p, t) \in Nat
         /\ M!ExpectedSteps(p, t) - 1 <= M!Rounds(t)
BY SMT DEF M!ExpectedSteps

(* For every circuit, both parties and every step of a task, the priority  *)
(* the task has come to is below that of a dependent it unlocks            *)
(* (circuit_builder.rs:409, 433-444, runner.rs:277-309).                   *)
THEOREM PrioritiesRank == BuilderSpec => []RanksBelowDependents
<1>1. UseInv /\ RoundInv /\ PlanInv /\ RoundsMatch => RanksBelowDependents
  <2> SUFFICES ASSUME UseInv, RoundInv, PlanInv, RoundsMatch, Finished,
                      NEW t \in TaskIds, NEW p \in Parties, Task(t).dependents # <<>>
               PROVE  \E d \in ToSet(Task(t).dependents) :
                        Task(t).priority + (M!ExpectedSteps(p, t) - 1) < Task(d).priority
    BY DEF RanksBelowDependents
  <2> DEFINE D == ToSet(Task(t).dependents)
             n == Len(Prototype(t).rounds)
  <2>1. Task(t).priority = -n - 1 + Delta(t)
    <3>1. NumTasks \in Nat /\ t \in Nat
      BY Numbers DEF PlanInv
    <3>2. ~(t <= next)
      BY <3>1 DEF Finished
    <3> QED BY <3>2 DEF PlanInv, Priced, Base
  <2>2. M!Rounds(t) = n
    BY DEF RoundsMatch
  <2>3. n \in Nat
    BY RoundsCounted
  <2>4. \A d \in D : Task(d).priority \in Int
    <3>1. D \subseteq TaskIds
      <4>1. Task(t).dependents \in Seq(TaskIds)
        BY DEF UseInv, Ordered
      <4> QED BY <4>1 DEF ToSet
    <3> QED BY <3>1, PrioritiesTyped
  <2>5. PICK d \in D : Task(d).priority = Delta(t)
    BY <2>4, DeltaOfOne
  <2>6. /\ M!ExpectedSteps(p, t) \in Nat
        /\ M!ExpectedSteps(p, t) - 1 <= n
    BY <2>2, <2>3, StepsAndRounds
  <2>7. Task(t).priority + (M!ExpectedSteps(p, t) - 1) < Task(d).priority
    <3> HIDE DEF D, n
    <3> QED BY <2>1, <2>3, <2>4, <2>5, <2>6
  <2> QED BY <2>7
<1> QED BY <1>1, Initially, StepKeeps, RoundsInitially, RoundsKept, PlanInitially, PlanKept,
           RoundsAgree, PTL DEF BuilderSpec

(* For every circuit, with any number of tasks and inputs, what finish     *)
(* writes is what the runner's model starts from: the dependents are the   *)
(* uses in order and the initially ready tasks are all there, most recent  *)
(* first (circuit_builder.rs:445-486).                                     *)
THEOREM ManifestWritten == BuilderSpec => []WritesManifest
<1>1. UseInv /\ RoundInv /\ PlanInv => WritesManifest
  <2> SUFFICES ASSUME UseInv, RoundInv, PlanInv, Finished
               PROVE  /\ \A t \in TaskIds : Sorted(Task(t).dependents) = M!DependentsOf[t]
                      /\ ToSet(ready) = M!InitiallyReady
                      /\ \A i \in 1 .. Len(ready) - 1 : ready[i] > ready[i + 1]
    BY DEF WritesManifest
  <2>1. NumTasks \in Nat /\ TaskIds \subseteq Nat /\ next = -1
    BY Numbers DEF PlanInv, Finished
  <2>2. \A d \in TaskIds : DOMAIN Task(d).inputs \subseteq Nat
    <3> SUFFICES ASSUME NEW d \in TaskIds PROVE DOMAIN Task(d).inputs \subseteq Nat
      OBVIOUS
    <3>1. Task(d).inputs \in Seq(0 .. d - 1)
      BY DEF UseInv, Ordered
    <3> QED BY <3>1
  <2>3. ASSUME NEW t \in TaskIds
        PROVE  Sorted(Task(t).dependents) = M!DependentsOf[t]
    <3>0. PICK s : s = Task(t).dependents
      OBVIOUS
    <3>1. s \in Seq(TaskIds)
      BY <3>0 DEF UseInv, Ordered
    <3>2. PICK e : Enumerates(e, s, t)
      BY <3>0 DEF PlanInv, Listed
    <3>3. M!DependentsOf[t] = s
      BY <2>1, <2>2, <3>1, <3>2, EnumeratedRight
    <3>4. /\ e \in [1 .. Len(s) -> Nat \X Nat]
          /\ \A j, k \in 1 .. Len(s) : j < k => Before(e[j], e[k])
          /\ \A k \in 1 .. Len(s) : s[k] = e[k][1]
      BY <3>2 DEF Enumerates, Lists, Pairs
    <3>5. \A j, k \in DOMAIN s : j < k => s[j] <= s[k]
      <4>1. DOMAIN s = 1 .. Len(s)
        BY <3>1
      <4>2. \A z, w \in Nat \X Nat : Before(z, w) => z[1] <= w[1]
        BY DEF Before
      <4> QED BY <3>4, <4>1, <4>2
    <3>6. TaskIds \subseteq Int
      BY <2>1
    <3>7. Sorted(s) = s
      BY <3>1, <3>5, <3>6, SortedAlready
    <3> QED BY <3>0, <3>3, <3>7
  <2>4. /\ ready \in Seq(Int)
        /\ \A i \in DOMAIN ready : ready[i] \in TaskIds /\ Needless(ready[i])
        /\ \A i, j \in DOMAIN ready : i < j => ready[i] > ready[j]
        /\ \A t \in TaskIds : Needless(t) => \E i \in DOMAIN ready : ready[i] = t
    <3>1. \A t \in TaskIds : t > next
      BY <2>1
    <3> QED BY <3>1 DEF PlanInv, Readied
  <2>5. ToSet(ready) = M!InitiallyReady
    <3>1. M!InitiallyReady = {t \in TaskIds : Task(t).inputs = <<>>}
      BY DEF M!InitiallyReady, M!Tasks, TaskIds
    <3>2. \A t \in TaskIds : Needless(t) <=> Task(t).inputs = <<>>
      BY DEF UseInv, Ordered, Needless
    <3> QED BY <2>4, <3>1, <3>2 DEF ToSet
  <2>6. \A i \in 1 .. Len(ready) - 1 : ready[i] > ready[i + 1]
    BY <2>4
  <2> QED BY <2>3, <2>5, <2>6
<1> QED BY <1>1, Initially, StepKeeps, RoundsInitially, RoundsKept, PlanInitially, PlanKept,
           PTL DEF BuilderSpec

-----------------------------------------------------------------------------
(* What FrameMemory's values are.                                          *)
Vals == Values \cup {Default, Undefined}
Kinds == {"pool", "vector", "single"}
Addresses == [kind : Kinds, level : Nat, first : Nat, index : Nat]
Frames == [args : Seq(Addresses), pool : [Wires -> Seq(Vals)],
           cache : {<<>>} \cup (Wires \X Wires), unallocated : [Wires -> Vals],
           vector : [Wires -> Vals], is_vector : BOOLEAN, counter : Nat]
Circuits == [args : Seq(Nat \X Wires), values : [Wires -> Vals],
             declared : SUBSET (Nat \X Nat)]

(* Ranges that do not meet, and a frame whose pool holds just these.       *)
Disjoint(D) ==
  /\ D \subseteq Wires \X Wires
  /\ \A r \in D : r[1] <= r[2]
  /\ \A r, q \in D : r # q => r[2] < q[1] \/ q[2] < r[1]
In(r, w) == r[1] <= w /\ w <= r[2]
Matches(f, D) ==
  ~f.is_vector =>
    /\ f.cache = <<>> \/ f.cache \in D
    /\ \A r \in D : Len(f.pool[r[1]]) = r[2] - r[1] + 1
    /\ \A w \in Wires : f.pool[w] # <<>> => \E r \in D : r[1] = w

(* Where a wire is that a circuit calls its own.                           *)
Home(f, n, D, l, w) ==
  IF f.is_vector THEN InVector(l, w - n)
  ELSE IF \E r \in D : In(r, w)
  THEN InPool(l, (CHOOSE r \in D : In(r, w))[1], w - (CHOOSE r \in D : In(r, w))[1])
  ELSE Single(l, w)
OwnRanges(c) == {r \in c.declared : r[1] >= Len(c.args)}
HomeIn(f, c, l, w) == Home(f, Len(c.args), OwnRanges(c), l, w)
HomeOf(st, cs, p) == HomeIn(st[p[1]], cs[p[1]], p[1], p[2])

(* The greatest of some wires.                                             *)
LEMMA GreatestWire ==
  ASSUME NEW n \in Nat, NEW T \in SUBSET (0 .. n), T # {}
  PROVE  Max(T) \in T /\ \A w \in T : w <= Max(T)
<1> DEFINE U == {n - w : w \in T}
<1>1. U \in SUBSET Nat /\ U # {}
  <2>1. \A w \in T : n - w \in Nat
    OBVIOUS
  <2>2. PICK w \in T : TRUE
    OBVIOUS
  <2>3. n - w \in U
    OBVIOUS
  <2>4. U \subseteq Nat
    BY <2>1
  <2> QED BY <2>3, <2>4
<1>2. PICK u \in U : \A z \in U : u <= z
  BY <1>1, LeastNat
<1>3. PICK m \in T : u = n - m
  OBVIOUS
<1>4. \A w \in T : m >= w
  BY <1>2, <1>3
<1>5. \E k \in T : \A w \in T : k >= w
  BY <1>4
<1>6. Max(T) \in T /\ \A w \in T : Max(T) >= w
  BY <1>5 DEF Max
<1>7. \A w \in T : w \in Int
  OBVIOUS
<1> QED BY <1>6, <1>7

(* The range that holds a wire is the only one.                            *)
LEMMA OneRange ==
  ASSUME NEW D, Disjoint(D), NEW r \in D, NEW q \in D, NEW w \in Int, In(r, w), In(q, w)
  PROVE  r = q
<1>1. /\ r[1] \in Int /\ r[2] \in Int /\ q[1] \in Int /\ q[2] \in Int
  BY DEF Disjoint, Wires
<1> QED BY <1>1 DEF Disjoint, In

(* The lookups of a pool find a wire's range, whatever the cache.          *)
LEMMA Finds ==
  ASSUME NEW f \in Frames, NEW D, Disjoint(D), Matches(f, D), ~f.is_vector, NEW id \in Wires
  PROVE  /\ Present(f, id) <=> \E r \in D : In(r, id)
         /\ \A r \in D : In(r, id) => Cached(f, id) = [f EXCEPT !.cache = r]
         /\ ~Present(f, id) => Cached(f, id) = f
<1>0. MaxWire \in Nat /\ id \in Nat /\ id \in 0 .. MaxWire
  BY FrameAssumption DEF Wires
<1>1. \A r \in D : /\ r = <<r[1], r[2]>> /\ r[1] \in Wires /\ r[2] \in Wires
                   /\ r[1] \in Nat /\ r[2] \in Nat /\ r[1] <= r[2]
  BY <1>0 DEF Disjoint, Wires
<1>2. /\ f.cache = <<>> \/ f.cache \in D
      /\ \A r \in D : Len(f.pool[r[1]]) = r[2] - r[1] + 1
      /\ \A w \in Wires : f.pool[w] # <<>> => \E r \in D : r[1] = w
  BY DEF Matches
<1>3. ASSUME Firsts(f, id) # {}
      PROVE  \E q \in D : /\ q[1] = Max(Firsts(f, id)) /\ q[1] <= id
                          /\ \A w \in Firsts(f, id) : w <= q[1]
  <2>1. /\ Max(Firsts(f, id)) \in Firsts(f, id)
        /\ \A w \in Firsts(f, id) : w <= Max(Firsts(f, id))
    BY <1>0, <1>3, GreatestWire DEF Firsts
  <2>2. Max(Firsts(f, id)) \in Wires /\ f.pool[Max(Firsts(f, id))] # <<>> /\ Max(Firsts(f, id)) <= id
    BY <1>0, <2>1 DEF Firsts, Wires
  <2> QED BY <1>2, <2>1, <2>2
<1>4. ASSUME NEW r \in D, In(r, id)
      PROVE  /\ Max(Firsts(f, id)) = r[1] /\ Firsts(f, id) # {}
             /\ Covers(f, r[1], id)
             /\ f.cache # <<>> /\ f.cache # r => ~InCache(f, id)
  <2>1. r[1] \in Wires /\ r[1] <= id /\ id <= r[2] /\ Len(f.pool[r[1]]) = r[2] - r[1] + 1
    BY <1>1, <1>2, <1>4 DEF In
  <2>2. f.pool[r[1]] # <<>>
    <3> SUFFICES ASSUME f.pool[r[1]] = <<>> PROVE FALSE OBVIOUS
    <3>1. Len(f.pool[r[1]]) = 0 OBVIOUS
    <3> QED BY <1>0, <1>1, <2>1, <3>1
  <2>3. r[1] \in Firsts(f, id)
    BY <1>0, <1>1, <2>1, <2>2 DEF Firsts
  <2>4. PICK q \in D : /\ q[1] = Max(Firsts(f, id)) /\ q[1] <= id
                       /\ \A w \in Firsts(f, id) : w <= q[1]
    BY <1>3, <2>3
  <2>5. q = r
    <3>1. r[1] <= q[1]
      BY <2>3, <2>4
    <3>2. ~(q[2] < r[1]) /\ ~(r[2] < q[1])
      BY <1>0, <1>1, <2>1, <2>4, <3>1
    <3> QED BY <3>2 DEF Disjoint
  <2>6. Covers(f, r[1], id)
    BY <1>0, <1>1, <2>1 DEF Covers
  <2>7. ASSUME f.cache # <<>>, f.cache # r, InCache(f, id) PROVE FALSE
    <3>1. f.cache \in D /\ In(f.cache, id)
      BY <1>2, <2>7 DEF InCache, In
    <3> QED BY <1>0, <1>4, <2>7, <3>1, OneRange
  <2> QED BY <2>3, <2>4, <2>5, <2>6, <2>7
<1>5. ASSUME NEW r \in D, In(r, id)
      PROVE  Present(f, id) /\ Cached(f, id) = [f EXCEPT !.cache = r]
  <2>1. Present(f, id)
    BY <1>4, <1>5 DEF Present
  <2>2. CASE InCache(f, id)
    <3>1. f.cache = r
      BY <1>4, <1>5, <2>2 DEF InCache
    <3> QED BY <2>1, <2>2, <3>1 DEF Cached, Frames
  <2>3. CASE ~InCache(f, id)
    <3>1. <<r[1], r[1] + Len(f.pool[r[1]]) - 1>> = r
      BY <1>1, <1>2
    <3>2. Cached(f, id) = [f EXCEPT !.cache = <<r[1], r[1] + Len(f.pool[r[1]]) - 1>>]
      BY <1>4, <1>5, <2>1, <2>3 DEF Cached
    <3> QED BY <2>1, <3>1, <3>2
  <2> QED BY <2>2, <2>3
<1>6. ASSUME \A r \in D : ~In(r, id)
      PROVE  ~Present(f, id)
  <2>1. ~InCache(f, id)
    BY <1>2, <1>6 DEF InCache, In
  <2>2. ASSUME Firsts(f, id) # {}, Covers(f, Max(Firsts(f, id)), id) PROVE FALSE
    <3>1. PICK q \in D : q[1] = Max(Firsts(f, id)) /\ q[1] <= id
      BY <1>3, <2>2
    <3>2. id <= q[2]
      BY <1>0, <1>1, <1>2, <2>2, <3>1 DEF Covers
    <3> QED BY <1>6, <3>1, <3>2 DEF In
  <2> QED BY <2>1, <2>2 DEF Present
<1>7. ~Present(f, id) => Cached(f, id) = f
  BY DEF Cached
<1> QED BY <1>5, <1>6, <1>7

(* A frame with another cache.                                             *)
Recached(f, g) == g \in Frames /\ \E c : g = [f EXCEPT !.cache = c]

(* What get, set and allocate_slice do to a frame when they look a wire up.*)
LEMMA LookupKeeps ==
  ASSUME NEW f \in Frames, NEW D, Disjoint(D), Matches(f, D), ~f.is_vector, NEW id \in Wires
  PROVE  Recached(f, Cached(f, id)) /\ Matches(Cached(f, id), D)
<1>1. CASE \E r \in D : In(r, id)
  <2>1. PICK r \in D : In(r, id)
    BY <1>1
  <2>2. Cached(f, id) = [f EXCEPT !.cache = r] /\ r \in Wires \X Wires
    BY <2>1, Finds DEF Disjoint
  <2>3. [f EXCEPT !.cache = r] \in Frames
    BY <2>2 DEF Frames
  <2>4. Matches([f EXCEPT !.cache = r], D)
    BY DEF Matches, Frames
  <2> QED BY <2>2, <2>3, <2>4 DEF Recached
<1>2. CASE ~\E r \in D : In(r, id)
  <2>1. Cached(f, id) = f /\ f = [f EXCEPT !.cache = f.cache]
    BY <1>2, Finds DEF Frames
  <2> QED BY <2>1 DEF Recached
<1> QED BY <1>1, <1>2

LEMMA RecachedParts ==
  ASSUME NEW f \in Frames, NEW g, Recached(f, g)
  PROVE  /\ g \in Frames /\ g.args = f.args /\ g.pool = f.pool /\ g.unallocated = f.unallocated
         /\ g.vector = f.vector /\ g.is_vector = f.is_vector
  BY DEF Recached, Frames

(* The home of a wire in a range, and of one in none.                      *)
LEMMA HomeCases ==
  ASSUME NEW D, Disjoint(D), NEW n, NEW l, NEW f, NEW w \in Wires
  PROVE  /\ f.is_vector => Home(f, n, D, l, w) = InVector(l, w - n)
         /\ \A r \in D : ~f.is_vector /\ In(r, w) => Home(f, n, D, l, w) = InPool(l, r[1], w - r[1])
         /\ ~f.is_vector /\ (\A r \in D : ~In(r, w)) => Home(f, n, D, l, w) = Single(l, w)
<1>1. ASSUME NEW r \in D, In(r, w)
      PROVE  (CHOOSE q \in D : In(q, w)) = r
  <2> DEFINE q == CHOOSE q \in D : In(q, w)
  <2>1. q \in D /\ In(q, w)
    BY <1>1
  <2>2. w \in Int
    BY FrameAssumption DEF Wires
  <2> HIDE DEF q
  <2>3. q = r
    BY <1>1, <2>1, <2>2, OneRange
  <2> QED BY <2>3 DEF q
<1> QED BY <1>1 DEF Home

(* Homes are addresses of their level, and different for different wires.  *)
LEMMA HomeTyped ==
  ASSUME NEW D, Disjoint(D), NEW n \in Nat, NEW l \in Nat, NEW f,
         NEW w \in Wires, w >= n
  PROVE  Home(f, n, D, l, w) \in Addresses /\ Home(f, n, D, l, w).level = l
<1>0. MaxWire \in Nat /\ w \in Nat
  BY FrameAssumption DEF Wires
<1>1. CASE f.is_vector
  <2>1. w - n \in Nat
    BY <1>0
  <2>2. Home(f, n, D, l, w) = InVector(l, w - n)
    BY <1>1, HomeCases
  <2> QED BY <2>1, <2>2 DEF InVector, Addresses, Kinds
<1>2. CASE ~f.is_vector /\ \E r \in D : In(r, w)
  <2>1. PICK r \in D : In(r, w)
    BY <1>2
  <2>2. r[1] \in Nat /\ w - r[1] \in Nat
    BY <1>0, <2>1 DEF Disjoint, In, Wires
  <2>3. Home(f, n, D, l, w) = InPool(l, r[1], w - r[1])
    BY <1>2, <2>1, HomeCases
  <2> QED BY <2>2, <2>3 DEF InPool, Addresses, Kinds
<1>3. CASE ~f.is_vector /\ \A r \in D : ~In(r, w)
  <2>1. Home(f, n, D, l, w) = Single(l, w)
    BY <1>3, HomeCases
  <2> QED BY <1>0, <2>1 DEF Single, Addresses, Kinds
<1> QED BY <1>1, <1>2, <1>3

LEMMA HomesDiffer ==
  ASSUME NEW D, Disjoint(D), NEW n \in Nat, NEW l, NEW f,
         NEW w \in Wires, NEW u \in Wires, w # u
  PROVE  Home(f, n, D, l, w) # Home(f, n, D, l, u)
<1>0. MaxWire \in Nat /\ w \in Nat /\ u \in Nat
  BY FrameAssumption DEF Wires
<1>1. CASE f.is_vector
  <2>1. w - n # u - n
    BY <1>0
  <2>2. Home(f, n, D, l, w) = InVector(l, w - n) /\ Home(f, n, D, l, u) = InVector(l, u - n)
    BY <1>1, HomeCases
  <2> QED BY <2>1, <2>2 DEF InVector
<1>2. ASSUME ~f.is_vector, NEW r \in D, In(r, w), NEW q \in D, In(q, u)
      PROVE  Home(f, n, D, l, w) # Home(f, n, D, l, u)
  <2>1. /\ Home(f, n, D, l, w) = InPool(l, r[1], w - r[1])
        /\ Home(f, n, D, l, u) = InPool(l, q[1], u - q[1])
    BY <1>2, HomeCases
  <2>2. r[1] \in Nat /\ q[1] \in Nat
    BY <1>0 DEF Disjoint, Wires
  <2>3. w - r[1] # u - q[1] \/ r[1] # q[1]
    BY <1>0, <2>2
  <2> QED BY <2>1, <2>3 DEF InPool
<1>3. ASSUME ~f.is_vector, \A r \in D : ~In(r, w)
      PROVE  Home(f, n, D, l, w) # Home(f, n, D, l, u)
  <2>1. Home(f, n, D, l, w) = Single(l, w)
    BY <1>3, HomeCases
  <2>2. Home(f, n, D, l, u) = Single(l, u) \/ \E r \in D : Home(f, n, D, l, u) = InPool(l, r[1], u - r[1])
    BY <1>3, HomeCases
  <2> QED BY <2>1, <2>2 DEF InPool, Single
<1>4. ASSUME ~f.is_vector, \A r \in D : ~In(r, u)
      PROVE  Home(f, n, D, l, w) # Home(f, n, D, l, u)
  <2>1. Home(f, n, D, l, u) = Single(l, u)
    BY <1>4, HomeCases
  <2>2. Home(f, n, D, l, w) = Single(l, w) \/ \E r \in D : Home(f, n, D, l, w) = InPool(l, r[1], w - r[1])
    BY <1>4, HomeCases
  <2> QED BY <2>1, <2>2 DEF InPool, Single
<1> QED BY <1>1, <1>2, <1>3, <1>4

(* Ranges that do not hold a wire do not change its home.                  *)
LEMMA SameHome ==
  ASSUME NEW D, Disjoint(D), NEW E, Disjoint(E), NEW n, NEW l, NEW f, NEW g,
         f.is_vector <=> g.is_vector,
         NEW w \in Wires, \A r : In(r, w) => (r \in D <=> r \in E)
  PROVE  Home(f, n, D, l, w) = Home(g, n, E, l, w)
<1>1. CASE f.is_vector
  BY <1>1, HomeCases
<1>2. ASSUME ~f.is_vector, NEW r \in D, In(r, w)
      PROVE  Home(f, n, D, l, w) = Home(g, n, E, l, w)
  BY <1>2, HomeCases
<1>3. ASSUME ~f.is_vector, \A r \in D : ~In(r, w)
      PROVE  Home(f, n, D, l, w) = Home(g, n, E, l, w)
  BY <1>3, HomeCases
<1> QED BY <1>1, <1>2, <1>3

LEMMA SameAddress ==
  ASSUME NEW a \in Addresses, NEW b \in Addresses, a.kind = b.kind, a.level = b.level,
         a.first = b.first, a.index = b.index
  PROVE  a = b
  BY DEF Addresses

(* An address reads one place of its frame.                                *)
LEMMA LoadsFrom ==
  ASSUME NEW st, NEW ts, NEW a \in Addresses,
         a.kind = "pool" => st[a.level].pool[a.first] = ts[a.level].pool[a.first],
         st[a.level].vector = ts[a.level].vector,
         st[a.level].unallocated = ts[a.level].unallocated
  PROVE  Load(st, a) = Load(ts, a)
<1>1. CASE a.kind = "pool"
  BY <1>1 DEF Load, Valid
<1>2. CASE a.kind = "vector"
  BY <1>2 DEF Load
<1>3. CASE a.kind = "single"
  BY <1>3 DEF Load
<1> QED BY <1>1, <1>2, <1>3 DEF Addresses, Kinds

(* A home in a range is a cell of the pool.                                *)
LEMMA HomeValid ==
  ASSUME NEW st, NEW D, NEW l, NEW n \in Nat, Disjoint(D), st[l] \in Frames, Matches(st[l], D),
         NEW w \in Wires, w >= n
  PROVE  LET a == Home(st[l], n, D, l, w)
         IN  /\ Valid(st, a) /\ a.level = l
             /\ a.kind = "pool" => /\ a.first \in Wires /\ a.index \in Nat
                                   /\ a.index + 1 \in DOMAIN st[l].pool[a.first]
             /\ a.kind # "pool" => a.index \in Wires /\ a.first = 0
<1> DEFINE f == st[l]
           a == Home(f, n, D, l, w)
<1>0. MaxWire \in Nat /\ w \in Nat /\ w <= MaxWire
  BY FrameAssumption DEF Wires
<1>1. CASE f.is_vector
  <2>1. a = InVector(l, w - n) /\ w - n \in Wires
    BY <1>0, <1>1, HomeCases DEF Wires
  <2> QED BY <2>1 DEF InVector, Valid
<1>2. ASSUME ~f.is_vector, NEW r \in D, In(r, w)
      PROVE  /\ Valid(st, a) /\ a.level = l /\ a.kind = "pool"
             /\ a.first \in Wires /\ a.index \in Nat
             /\ a.index + 1 \in DOMAIN f.pool[a.first]
  <2>1. a = InPool(l, r[1], w - r[1])
    BY <1>2, HomeCases
  <2>2. /\ r[1] \in Wires /\ r[2] \in Wires /\ r[1] <= w /\ w <= r[2]
        /\ Len(f.pool[r[1]]) = r[2] - r[1] + 1 /\ f.pool[r[1]] \in Seq(Vals)
    BY <1>2 DEF Disjoint, Matches, In, Frames
  <2>3. r[1] \in Nat /\ r[2] \in Nat
    BY <1>0, <2>2 DEF Wires
  <2>4. /\ w - r[1] \in Nat /\ w - r[1] + 1 \in 1 .. Len(f.pool[r[1]])
        /\ w - r[1] < Len(f.pool[r[1]])
    BY <1>0, <2>2, <2>3, SMTT(30)
  <2>5. DOMAIN f.pool[r[1]] = 1 .. Len(f.pool[r[1]])
    BY <2>2
  <2>6. a.level = l /\ a.kind = "pool" /\ a.first = r[1] /\ a.index = w - r[1]
    BY <2>1 DEF InPool
  <2>7. Valid(st, a)
    BY <2>4, <2>6 DEF Valid
  <2> QED BY <2>2, <2>4, <2>5, <2>6, <2>7
<1>3. CASE ~f.is_vector /\ \A r \in D : ~In(r, w)
  <2>1. a = Single(l, w)
    BY <1>3, HomeCases
  <2> QED BY <2>1 DEF Single, Valid
<1> HIDE DEF a
<1> QED BY <1>1, <1>2, <1>3 DEF a

(* A store in such a place changes what its address reads and no other,    *)
(* and no frame's shape.                                                   *)
SameShape(f, g) ==
  /\ g.args = f.args /\ g.cache = f.cache /\ (g.is_vector <=> f.is_vector)
  /\ \A w \in Wires : Len(g.pool[w]) = Len(f.pool[w]) /\ (g.pool[w] = <<>> <=> f.pool[w] = <<>>)
Sound(st, a) ==
  /\ a \in Addresses /\ a.level \in DOMAIN st
  /\ a.kind = "pool" => /\ a.first \in Wires
                        /\ a.index + 1 \in DOMAIN st[a.level].pool[a.first]
  /\ a.kind # "pool" => a.index \in Wires /\ a.first = 0

LEMMA StoreKeeps ==
  ASSUME NEW st \in Seq(Frames), NEW a, Sound(st, a), NEW v \in Vals
  PROVE  /\ Store(st, a, v) \in Seq(Frames) /\ Len(Store(st, a, v)) = Len(st)
         /\ \A l \in DOMAIN st : SameShape(st[l], Store(st, a, v)[l])
         /\ Load(Store(st, a, v), a) = v
         /\ \A b \in Addresses : Sound(st, b) /\ b # a => Load(Store(st, a, v), b) = Load(st, b)
<1> DEFINE ts == Store(st, a, v)
           f == st[a.level]
<1>a. /\ a.level \in DOMAIN st /\ a \in Addresses /\ DOMAIN st = 1 .. Len(st)
  BY DEF Sound
<1>b. f \in Frames
  BY <1>a
<1>0. /\ f \in Frames /\ f.pool \in [Wires -> Seq(Vals)] /\ f.vector \in [Wires -> Vals]
      /\ f.unallocated \in [Wires -> Vals] /\ a.level \in DOMAIN st /\ a \in Addresses
      /\ DOMAIN st = 1 .. Len(st)
  BY <1>a, <1>b DEF Frames
<1>1. CASE a.kind = "pool"
  <2>1. /\ a.first \in Wires /\ a.index \in Nat /\ a.index + 1 \in DOMAIN f.pool[a.first]
        /\ f.pool[a.first] \in Seq(Vals)
    BY <1>0, <1>1 DEF Sound, Addresses
  <2>2. a.index < Len(f.pool[a.first])
    BY <2>1, SMTT(30)
  <2> DEFINE s == [f.pool[a.first] EXCEPT ![a.index + 1] = v]
             g == [f EXCEPT !.pool = [f.pool EXCEPT ![a.first] = s]]
  <2>3. ts = [st EXCEPT ![a.level] = g]
    BY <1>0, <1>1, <2>1, <2>2 DEF Store, Valid
  <2>4. s \in Seq(Vals) /\ Len(s) = Len(f.pool[a.first]) /\ (s = <<>> <=> f.pool[a.first] = <<>>)
        /\ s[a.index + 1] = v
        /\ \A i \in DOMAIN s : i # a.index + 1 => s[i] = f.pool[a.first][i]
    BY <2>1, SMTT(30)
  <2> HIDE DEF s
  <2>5. /\ g \in Frames /\ g.pool = [f.pool EXCEPT ![a.first] = s] /\ g.vector = f.vector
        /\ g.unallocated = f.unallocated /\ g.args = f.args /\ g.cache = f.cache
        /\ g.is_vector = f.is_vector
    BY <1>0, <2>1, <2>4 DEF Frames
  <2> HIDE DEF g
  <2>6. SameShape(f, g)
    BY <1>0, <2>1, <2>4, <2>5 DEF SameShape
  <2>7. ts \in Seq(Frames) /\ Len(ts) = Len(st) /\ ts[a.level] = g
        /\ \A l \in DOMAIN st : l # a.level => ts[l] = st[l]
    BY <1>0, <2>3, <2>5
  <2> HIDE DEF ts
  <2>8. \A l \in DOMAIN st : SameShape(st[l], ts[l])
    BY <2>6, <2>7 DEF SameShape
  <2>9. Load(ts, a) = v
    BY <1>0, <1>1, <2>1, <2>2, <2>4, <2>5, <2>7 DEF Load, Valid
  <2>10. ASSUME NEW b \in Addresses, Sound(st, b), b # a
         PROVE  Load(ts, b) = Load(st, b)
    <3>1. CASE b.level # a.level
      BY <2>7, <2>10, <3>1, LoadsFrom DEF Sound
    <3>2. CASE b.level = a.level /\ (b.kind # "pool" \/ b.first # a.first)
      BY <1>0, <2>1, <2>5, <2>7, <2>10, <3>2, SMTT(30) DEF Load, Valid, Sound, Addresses, Kinds
    <3>3. CASE b.level = a.level /\ b.kind = "pool" /\ b.first = a.first
      <4>1. b.index # a.index
        BY <1>0, <1>1, <2>10, <3>3, SameAddress
      <4>2. b.index \in Nat /\ b.index + 1 \in DOMAIN f.pool[a.first]
        BY <2>10, <3>3 DEF Sound, Addresses
      <4>3. b.index < Len(f.pool[a.first]) /\ b.index + 1 \in DOMAIN s /\ b.index + 1 # a.index + 1
        BY <2>1, <2>4, <4>1, <4>2, SMTT(30)
      <4>4. Load(ts, b) = s[b.index + 1]
        BY <1>0, <2>1, <2>4, <2>5, <2>7, <3>3, <4>3 DEF Load, Valid
      <4>5. Load(st, b) = f.pool[a.first][b.index + 1]
        BY <3>3, <4>3 DEF Load, Valid
      <4> QED BY <2>4, <4>3, <4>4, <4>5
    <3> QED BY <3>1, <3>2, <3>3
  <2> QED BY <2>7, <2>8, <2>9, <2>10 DEF ts
<1>2. CASE a.kind = "vector"
  <2>1. a.index \in Wires
    BY <1>2 DEF Sound
  <2> DEFINE s == [f.vector EXCEPT ![a.index] = v]
             g == [f EXCEPT !.vector = s]
  <2>3. ts = [st EXCEPT ![a.level] = g]
    BY <1>0, <1>2, <2>1 DEF Store
  <2>4. s \in [Wires -> Vals] /\ s[a.index] = v
        /\ \A i \in Wires : i # a.index => s[i] = f.vector[i]
    BY <1>0, <2>1
  <2> HIDE DEF s
  <2>5. /\ g \in Frames /\ g.vector = s /\ g.pool = f.pool
        /\ g.unallocated = f.unallocated /\ g.args = f.args /\ g.cache = f.cache
        /\ g.is_vector = f.is_vector
    BY <1>0, <2>4 DEF Frames
  <2> HIDE DEF g
  <2>6. SameShape(f, g)
    BY <2>5 DEF SameShape
  <2>7. ts \in Seq(Frames) /\ Len(ts) = Len(st) /\ ts[a.level] = g
        /\ \A l \in DOMAIN st : l # a.level => ts[l] = st[l]
    BY <1>0, <2>3, <2>5
  <2> HIDE DEF ts
  <2>8. \A l \in DOMAIN st : SameShape(st[l], ts[l])
    BY <2>6, <2>7 DEF SameShape
  <2>9. Load(ts, a) = v
    BY <1>2, <2>4, <2>5, <2>7 DEF Load
  <2>10. ASSUME NEW b \in Addresses, Sound(st, b), b # a
         PROVE  Load(ts, b) = Load(st, b)
    <3>1. CASE b.level # a.level
      BY <2>7, <2>10, <3>1, LoadsFrom DEF Sound
    <3>2. CASE b.level = a.level /\ b.kind # "vector"
      BY <2>5, <2>7, <2>10, <3>2 DEF Load, Valid, Addresses, Kinds
    <3>3. CASE b.level = a.level /\ b.kind = "vector" /\ b.index # a.index
      BY <2>4, <2>5, <2>7, <2>10, <3>3 DEF Load, Sound
    <3>4. CASE b.level = a.level /\ b.kind = "vector" /\ b.index = a.index
      <4>1. b.first = a.first
        BY <1>2, <2>10, <3>4 DEF Sound
      <4> QED BY <1>0, <1>2, <2>10, <3>4, <4>1, SameAddress
    <3> QED BY <3>1, <3>2, <3>3, <3>4
  <2> QED BY <2>7, <2>8, <2>9, <2>10 DEF ts
<1>3. CASE a.kind = "single"
  <2>1. a.index \in Wires
    BY <1>3 DEF Sound
  <2> DEFINE s == [f.unallocated EXCEPT ![a.index] = v]
             g == [f EXCEPT !.unallocated = s]
  <2>3. ts = [st EXCEPT ![a.level] = g]
    BY <1>0, <1>3, <2>1 DEF Store
  <2>4. s \in [Wires -> Vals] /\ s[a.index] = v
        /\ \A i \in Wires : i # a.index => s[i] = f.unallocated[i]
    BY <1>0, <2>1
  <2> HIDE DEF s
  <2>5. /\ g \in Frames /\ g.unallocated = s /\ g.pool = f.pool
        /\ g.vector = f.vector /\ g.args = f.args /\ g.cache = f.cache
        /\ g.is_vector = f.is_vector
    BY <1>0, <2>4 DEF Frames
  <2> HIDE DEF g
  <2>6. SameShape(f, g)
    BY <2>5 DEF SameShape
  <2>7. ts \in Seq(Frames) /\ Len(ts) = Len(st) /\ ts[a.level] = g
        /\ \A l \in DOMAIN st : l # a.level => ts[l] = st[l]
    BY <1>0, <2>3, <2>5
  <2> HIDE DEF ts
  <2>8. \A l \in DOMAIN st : SameShape(st[l], ts[l])
    BY <2>6, <2>7 DEF SameShape
  <2>9. Load(ts, a) = v
    BY <1>3, <2>4, <2>5, <2>7 DEF Load
  <2>10. ASSUME NEW b \in Addresses, Sound(st, b), b # a
         PROVE  Load(ts, b) = Load(st, b)
    <3>1. CASE b.level # a.level
      BY <2>7, <2>10, <3>1, LoadsFrom DEF Sound
    <3>2. CASE b.level = a.level /\ b.kind # "single"
      BY <2>5, <2>7, <2>10, <3>2 DEF Load, Valid, Addresses, Kinds
    <3>3. CASE b.level = a.level /\ b.kind = "single" /\ b.index # a.index
      BY <2>4, <2>5, <2>7, <2>10, <3>3 DEF Load, Sound
    <3>4. CASE b.level = a.level /\ b.kind = "single" /\ b.index = a.index
      <4>1. b.first = a.first
        BY <1>3, <2>10, <3>4 DEF Sound
      <4> QED BY <1>0, <1>3, <2>10, <3>4, <4>1, SameAddress
    <3> QED BY <3>1, <3>2, <3>3, <3>4
  <2> QED BY <2>7, <2>8, <2>9, <2>10 DEF ts
<1> QED BY <1>0, <1>1, <1>2, <1>3 DEF Addresses, Kinds

(* What the frames in use are to the circuits: the pool of each holds the  *)
(* ranges allocated, its arguments are the homes of the wires given, given *)
(* ranges are consecutive, and what was set is found at its home.          *)
Pools(f, c) == Disjoint(OwnRanges(c)) /\ Matches(f, OwnRanges(c))
ArgsRight(st, cs, l) ==
  /\ Len(st[l].args) = Len(cs[l].args)
  /\ \A i \in DOMAIN cs[l].args :
       /\ cs[l].args[i][1] \in 1 .. l - 1
       /\ cs[l].args[i][2] >= Len(cs[cs[l].args[i][1]].args)
       /\ st[l].args[i] = HomeOf(st, cs, cs[l].args[i])
Consecutive(args, r) ==
  /\ r[2] < Len(args) /\ r[1] <= r[2]
  /\ \A w \in r[1] .. r[2] : args[w + 1] = Shift(args[r[1] + 1], w - r[1])
  /\ r[1] # r[2] => args[r[1] + 1].kind # "single"
GivenRight(f, c) == \A r \in c.declared : r[1] < Len(c.args) => Consecutive(f.args, r)
ValuesRight(st, cs, l) ==
  \A w \in Wires : w >= Len(cs[l].args) /\ cs[l].values[w] # Undefined
                     => Load(st, HomeOf(st, cs, <<l, w>>)) = cs[l].values[w]
FramesRight(st, cs, n) ==
  /\ st \in Seq(Frames) /\ cs \in Seq(Circuits) /\ n \in Nat /\ n <= Len(st) /\ Len(cs) = n
  /\ \A l \in 1 .. n : /\ Pools(st[l], cs[l]) /\ ArgsRight(st, cs, l)
                       /\ GivenRight(st[l], cs[l]) /\ ValuesRight(st, cs, l)

(* The parts of a level.                                                   *)
LEMMA LevelParts ==
  ASSUME NEW st, NEW cs, NEW n, FramesRight(st, cs, n), NEW l \in 1 .. n
  PROVE  /\ st[l] \in Frames /\ cs[l] \in Circuits /\ l \in DOMAIN st /\ l \in DOMAIN cs /\ l \in Nat
         /\ Len(cs[l].args) \in Nat /\ Len(st[l].args) = Len(cs[l].args)
         /\ DOMAIN cs[l].args = 1 .. Len(cs[l].args) /\ DOMAIN st[l].args = 1 .. Len(cs[l].args)
         /\ Disjoint(OwnRanges(cs[l])) /\ Matches(st[l], OwnRanges(cs[l]))
         /\ ArgsRight(st, cs, l) /\ GivenRight(st[l], cs[l]) /\ ValuesRight(st, cs, l)
<1>1. /\ l \in DOMAIN st /\ l \in DOMAIN cs /\ l \in Nat /\ Pools(st[l], cs[l])
      /\ ArgsRight(st, cs, l) /\ GivenRight(st[l], cs[l]) /\ ValuesRight(st, cs, l)
  BY DEF FramesRight
<1>2. st[l] \in Frames /\ cs[l] \in Circuits
  BY <1>1 DEF FramesRight
<1>3. st[l].args \in Seq(Addresses) /\ cs[l].args \in Seq(Nat \X Wires)
  BY <1>2 DEF Frames, Circuits
<1> QED BY <1>1, <1>2, <1>3 DEF ArgsRight, Pools

(* A circuit's own wire.                                                   *)
Own(cs, n, p) == /\ p \in (1 .. n) \X Wires /\ p[2] >= Len(cs[p[1]].args)

LEMMA OwnHome ==
  ASSUME NEW st, NEW cs, NEW n, FramesRight(st, cs, n), NEW p, Own(cs, n, p)
  PROVE  /\ HomeOf(st, cs, p) \in Addresses /\ HomeOf(st, cs, p).level = p[1]
         /\ Sound(st, HomeOf(st, cs, p))
<1> DEFINE l == p[1]
           w == p[2]
           k == Len(cs[l].args)
           D == OwnRanges(cs[l])
           a == Home(st[l], k, D, l, w)
<1>1. l \in 1 .. n /\ w \in Wires /\ w >= k
  BY DEF Own
<1>2. /\ st[l] \in Frames /\ k \in Nat /\ Disjoint(D) /\ Matches(st[l], D) /\ l \in Nat /\ l \in DOMAIN st
  BY <1>1, LevelParts
<1>3. a = HomeOf(st, cs, p)
  BY DEF HomeOf, HomeIn
<1> HIDE DEF l, w, k, D, a
<1>4. a \in Addresses /\ a.level = l
  BY <1>1, <1>2, HomeTyped DEF a
<1>5. /\ a.kind = "pool" => /\ a.first \in Wires /\ a.index \in Nat
                            /\ a.index + 1 \in DOMAIN st[l].pool[a.first]
      /\ a.kind # "pool" => a.index \in Wires /\ a.first = 0
  BY <1>1, <1>2, HomeValid DEF a
<1>6. Sound(st, a)
  BY <1>2, <1>4, <1>5 DEF Sound
<1> QED BY <1>3, <1>4, <1>6 DEF l

LEMMA OwnHomesDiffer ==
  ASSUME NEW st, NEW cs, NEW n, FramesRight(st, cs, n), NEW p, Own(cs, n, p),
         NEW q, Own(cs, n, q), p # q
  PROVE  HomeOf(st, cs, p) # HomeOf(st, cs, q)
<1>1. CASE p[1] # q[1]
  BY <1>1, OwnHome
<1>2. CASE p[1] = q[1]
  <2>1. p[2] # q[2] /\ p[2] \in Wires /\ q[2] \in Wires /\ p[1] \in 1 .. n
    BY <1>2 DEF Own
  <2>2. Len(cs[p[1]].args) \in Nat /\ Disjoint(OwnRanges(cs[p[1]]))
    BY <2>1, LevelParts
  <2>3. /\ HomeOf(st, cs, p) = Home(st[p[1]], Len(cs[p[1]].args), OwnRanges(cs[p[1]]), p[1], p[2])
        /\ HomeOf(st, cs, q) = Home(st[p[1]], Len(cs[p[1]].args), OwnRanges(cs[p[1]]), p[1], q[2])
    BY <1>2 DEF HomeOf, HomeIn
  <2> QED BY <2>1, <2>2, <2>3, HomesDiffer
<1> QED BY <1>1, <1>2

(* An argument is an own wire of a lower frame.                            *)
LEMMA ArgsOwn ==
  ASSUME NEW st, NEW cs, NEW n, FramesRight(st, cs, n), NEW l \in 1 .. n,
         NEW i \in DOMAIN cs[l].args
  PROVE  /\ Own(cs, n, cs[l].args[i]) /\ cs[l].args[i][1] < l
         /\ st[l].args[i] = HomeOf(st, cs, cs[l].args[i])
<1>1. /\ cs[l] \in Circuits /\ ArgsRight(st, cs, l) /\ l \in Nat /\ n \in Nat
  BY LevelParts DEF FramesRight
<1>2. cs[l].args \in Seq(Nat \X Wires)
  BY <1>1 DEF Circuits
<1>3. cs[l].args[i] \in Nat \X Wires
  BY <1>2
<1> QED BY <1>1, <1>3 DEF ArgsRight, Own

(* What has to be shown when frames and circuits change but arguments do   *)
(* not.                                                                    *)
LEMMA Rebuilt ==
  ASSUME NEW st, NEW cs, NEW n, FramesRight(st, cs, n),
         NEW ts \in Seq(Frames), NEW ds \in Seq(Circuits), n <= Len(ts), Len(ds) = n,
         \A l \in 1 .. n : /\ ts[l].args = st[l].args /\ ds[l].args = cs[l].args
                           /\ Pools(ts[l], ds[l])
                           /\ \A r \in ds[l].declared : r[1] < Len(cs[l].args) => r \in cs[l].declared,
         \A l \in 1 .. n : \A i \in DOMAIN cs[l].args :
            HomeOf(ts, ds, cs[l].args[i]) = HomeOf(st, cs, cs[l].args[i]),
         \A l \in 1 .. n : \A w \in Wires :
            w >= Len(cs[l].args) /\ ds[l].values[w] # Undefined
              => Load(ts, HomeOf(ts, ds, <<l, w>>)) = ds[l].values[w]
  PROVE  FramesRight(ts, ds, n)
<1>1. ASSUME NEW l \in 1 .. n
      PROVE  ArgsRight(ts, ds, l)
  <2>1. ArgsRight(st, cs, l) /\ n \in Nat
    BY LevelParts DEF FramesRight
  <2>2. \A i \in DOMAIN cs[l].args : cs[l].args[i][1] \in 1 .. n /\ cs[l].args[i][1] \in 1 .. l - 1
    BY <2>1 DEF ArgsRight
  <2>3. \A i \in DOMAIN cs[l].args : ds[cs[l].args[i][1]].args = cs[cs[l].args[i][1]].args
    BY <2>2
  <2>4. ts[l].args = st[l].args /\ ds[l].args = cs[l].args
    OBVIOUS
  <2>5. \A i \in DOMAIN cs[l].args : HomeOf(ts, ds, cs[l].args[i]) = HomeOf(st, cs, cs[l].args[i])
    OBVIOUS
  <2>6. Len(st[l].args) = Len(cs[l].args) /\ \A i \in DOMAIN cs[l].args :
          /\ cs[l].args[i][2] >= Len(cs[cs[l].args[i][1]].args)
          /\ st[l].args[i] = HomeOf(st, cs, cs[l].args[i])
    BY <2>1 DEF ArgsRight
  <2>7. Len(ts[l].args) = Len(ds[l].args)
    BY <2>4, <2>6
  <2>8. ASSUME NEW i \in DOMAIN ds[l].args
        PROVE  /\ ds[l].args[i][1] \in 1 .. l - 1
               /\ ds[l].args[i][2] >= Len(ds[ds[l].args[i][1]].args)
               /\ ts[l].args[i] = HomeOf(ts, ds, ds[l].args[i])
    <3>1. i \in DOMAIN cs[l].args /\ ds[l].args[i] = cs[l].args[i] /\ ts[l].args[i] = st[l].args[i]
      BY <2>4, <2>8
    <3>2. ds[l].args[i][1] \in 1 .. l - 1 /\ ds[l].args[i][2] >= Len(ds[ds[l].args[i][1]].args)
      BY <2>2, <2>3, <2>6, <3>1
    <3>3. ts[l].args[i] = HomeOf(ts, ds, ds[l].args[i])
      BY <2>5, <2>6, <3>1
    <3> QED BY <3>2, <3>3
  <2> QED BY <2>7, <2>8 DEF ArgsRight
<1>2. ASSUME NEW l \in 1 .. n
      PROVE  GivenRight(ts[l], ds[l]) /\ ValuesRight(ts, ds, l)
  <2>1. GivenRight(st[l], cs[l])
    BY LevelParts
  <2> QED BY <2>1 DEF GivenRight, ValuesRight
<1> QED BY <1>1, <1>2 DEF FramesRight

(* Looking up.                                                             *)
LEMMA RecachedRight ==
  ASSUME NEW st, NEW cs, NEW n, FramesRight(st, cs, n), NEW l \in 1 .. n,
         NEW g, Recached(st[l], g), Matches(g, OwnRanges(cs[l]))
  PROVE  /\ FramesRight([st EXCEPT ![l] = g], cs, n)
         /\ \A p : Own(cs, n, p) => HomeOf([st EXCEPT ![l] = g], cs, p) = HomeOf(st, cs, p)
<1> DEFINE ts == [st EXCEPT ![l] = g]
<1>1. st \in Seq(Frames) /\ cs \in Seq(Circuits) /\ n <= Len(st) /\ Len(cs) = n /\ l \in DOMAIN st /\ n \in Nat
  BY DEF FramesRight
<1>2. /\ g \in Frames /\ g.args = st[l].args /\ g.pool = st[l].pool /\ g.unallocated = st[l].unallocated
      /\ g.vector = st[l].vector /\ g.is_vector = st[l].is_vector
  BY LevelParts, RecachedParts
<1>3. /\ ts \in Seq(Frames) /\ Len(ts) = Len(st) /\ ts[l] = g
      /\ \A m \in 1 .. n : m # l => ts[m] = st[m]
  BY <1>1, <1>2
<1> HIDE DEF ts
<1>4. \A m \in 1 .. n : /\ ts[m].args = st[m].args /\ ts[m].pool = st[m].pool
                        /\ ts[m].unallocated = st[m].unallocated
                        /\ ts[m].vector = st[m].vector /\ ts[m].is_vector = st[m].is_vector
  BY <1>2, <1>3
<1>5. ASSUME NEW p, Own(cs, n, p)
      PROVE  HomeOf(ts, cs, p) = HomeOf(st, cs, p) /\ Load(ts, HomeOf(ts, cs, p)) = Load(st, HomeOf(st, cs, p))
  <2>1. p[1] \in 1 .. n
    BY <1>5 DEF Own
  <2>2. HomeOf(ts, cs, p) = HomeOf(st, cs, p)
    BY <1>4, <2>1 DEF HomeOf, HomeIn, Home
  <2>3. HomeOf(st, cs, p) \in Addresses /\ HomeOf(st, cs, p).level \in 1 .. n
    BY <1>5, <2>1, OwnHome
  <2> QED BY <1>4, <2>2, <2>3, LoadsFrom
<1>6. \A m \in 1 .. n : Pools(ts[m], cs[m])
  BY <1>3, LevelParts DEF Pools
<1>7. \A m \in 1 .. n : \A i \in DOMAIN cs[m].args :
         HomeOf(ts, cs, cs[m].args[i]) = HomeOf(st, cs, cs[m].args[i])
  BY <1>5, ArgsOwn
<1>8. ASSUME NEW m \in 1 .. n, NEW w \in Wires, w >= Len(cs[m].args), cs[m].values[w] # Undefined
      PROVE  Load(ts, HomeOf(ts, cs, <<m, w>>)) = cs[m].values[w]
  <2>1. Own(cs, n, <<m, w>>)
    BY <1>8 DEF Own
  <2>2. ValuesRight(st, cs, m)
    BY LevelParts
  <2> QED BY <1>5, <1>8, <2>1, <2>2 DEF ValuesRight
<1>9. FramesRight(ts, cs, n)
  BY <1>1, <1>3, <1>4, <1>6, <1>7, <1>8, Rebuilt, SMTT(30)
<1> QED BY <1>5, <1>9 DEF ts

(* Storing at the home of a wire.                                          *)
LEMMA SetRight ==
  ASSUME NEW st, NEW cs, NEW n, FramesRight(st, cs, n), NEW p, Own(cs, n, p), NEW v \in Vals
  PROVE  FramesRight(Store(st, HomeOf(st, cs, p), v), [cs EXCEPT ![p[1]].values[p[2]] = v], n)
<1> DEFINE a == HomeOf(st, cs, p)
           ts == Store(st, a, v)
           c == [cs[p[1]] EXCEPT !.values = [cs[p[1]].values EXCEPT ![p[2]] = v]]
           ds == [cs EXCEPT ![p[1]] = c]
<1>1. /\ st \in Seq(Frames) /\ cs \in Seq(Circuits) /\ n <= Len(st) /\ Len(cs) = n /\ n \in Nat
      /\ p[1] \in 1 .. n /\ p[2] \in Wires /\ p = <<p[1], p[2]>>
      /\ DOMAIN st = 1 .. Len(st) /\ Len(st) \in Nat
  BY DEF FramesRight, Own
<1>2. cs[p[1]] \in Circuits /\ p[1] \in DOMAIN cs
  BY <1>1
<1>3. cs[p[1]].values \in [Wires -> Vals]
  BY <1>2 DEF Circuits
<1>4. c \in Circuits /\ c.args = cs[p[1]].args /\ c.declared = cs[p[1]].declared
      /\ c.values = [cs[p[1]].values EXCEPT ![p[2]] = v]
  BY <1>2, <1>3 DEF Circuits
<1>5. [cs EXCEPT ![p[1]].values[p[2]] = v] = ds
  OBVIOUS
<1> HIDE DEF c
<1>6. /\ ds \in Seq(Circuits) /\ Len(ds) = n /\ ds[p[1]] = c
      /\ \A l \in 1 .. n : l # p[1] => ds[l] = cs[l]
  BY <1>1, <1>2, <1>4
<1> HIDE DEF ds
<1>7. \A l \in 1 .. n : ds[l].args = cs[l].args /\ ds[l].declared = cs[l].declared
  BY <1>4, <1>6
<1>8. Sound(st, a)
  BY OwnHome
<1>9. /\ ts \in Seq(Frames) /\ Len(ts) = Len(st)
      /\ \A l \in DOMAIN st : SameShape(st[l], ts[l])
      /\ Load(ts, a) = v
      /\ \A b \in Addresses : Sound(st, b) /\ b # a => Load(ts, b) = Load(st, b)
  BY <1>1, <1>8, StoreKeeps
<1> HIDE DEF ts
<1>10. \A l \in 1 .. n : SameShape(st[l], ts[l])
  <2>1. 1 .. n \subseteq DOMAIN st
    BY <1>1
  <2> QED BY <1>9, <2>1
<1>11. \A q : q[1] \in 1 .. n => HomeOf(ts, ds, q) = HomeOf(st, cs, q)
  BY <1>7, <1>10 DEF HomeOf, HomeIn, Home, OwnRanges, SameShape
<1>12. ASSUME NEW l \in 1 .. n
       PROVE  Pools(ts[l], ds[l])
  <2>1. OwnRanges(ds[l]) = OwnRanges(cs[l])
    BY <1>7 DEF OwnRanges
  <2>2. Disjoint(OwnRanges(cs[l])) /\ Matches(st[l], OwnRanges(cs[l]))
    BY LevelParts
  <2>3. \A r \in OwnRanges(cs[l]) : r[1] \in Wires
    BY <2>2 DEF Disjoint
  <2>4. SameShape(st[l], ts[l])
    BY <1>10
  <2>5. Matches(ts[l], OwnRanges(cs[l]))
    BY <2>2, <2>3, <2>4 DEF Matches, SameShape
  <2> QED BY <2>1, <2>2, <2>5 DEF Pools
<1>13. \A l \in 1 .. n : \A i \in DOMAIN cs[l].args :
          HomeOf(ts, ds, cs[l].args[i]) = HomeOf(st, cs, cs[l].args[i])
  BY <1>11, ArgsOwn DEF Own
<1>14. ASSUME NEW l \in 1 .. n, NEW w \in Wires, w >= Len(cs[l].args), ds[l].values[w] # Undefined
       PROVE  Load(ts, HomeOf(ts, ds, <<l, w>>)) = ds[l].values[w]
  <2> DEFINE q == <<l, w>>
  <2>1. Own(cs, n, q) /\ q[1] = l /\ q[2] = w
    BY <1>14 DEF Own
  <2>2. HomeOf(ts, ds, q) = HomeOf(st, cs, q)
    BY <1>11
  <2>3. CASE q = p
    BY <1>3, <1>4, <1>6, <1>9, <2>2, <2>3, SMTT(30)
  <2>4. CASE q # p
    <3>1. ds[l].values[w] = cs[l].values[w]
      BY <1>1, <1>3, <1>4, <1>6, <2>4
    <3>2. HomeOf(st, cs, q) # a /\ HomeOf(st, cs, q) \in Addresses /\ Sound(st, HomeOf(st, cs, q))
      BY <2>1, <2>4, OwnHome, OwnHomesDiffer
    <3>3. ValuesRight(st, cs, l)
      BY LevelParts
    <3>4. Load(st, HomeOf(st, cs, q)) = cs[l].values[w]
      BY <1>14, <3>1, <3>3 DEF ValuesRight
    <3> QED BY <1>9, <2>2, <3>1, <3>2, <3>4
  <2> QED BY <2>3, <2>4
<1>15. FramesRight(ts, ds, n)
  <2>1. \A l \in 1 .. n : ts[l].args = st[l].args
    BY <1>10 DEF SameShape
  <2> QED BY <1>1, <1>6, <1>7, <1>9, <1>12, <1>13, <1>14, <2>1, Rebuilt, SMTT(30)
<1> QED BY <1>5, <1>15 DEF ts

(* A home reads the same in a frame whose pool kept its range.             *)
LEMMA HomeLoads ==
  ASSUME NEW st, NEW ts, NEW n \in Nat, NEW l \in Nat, NEW D, Disjoint(D),
         NEW w \in Wires, w >= n,
         ts[l].vector = st[l].vector, ts[l].unallocated = st[l].unallocated,
         \A r \in D : ~st[l].is_vector /\ In(r, w) => ts[l].pool[r[1]] = st[l].pool[r[1]]
  PROVE  Load(ts, Home(st[l], n, D, l, w)) = Load(st, Home(st[l], n, D, l, w))
<1> DEFINE a == Home(st[l], n, D, l, w)
<1>1. a \in Addresses /\ a.level = l
  BY HomeTyped
<1>2. a.kind = "pool" => ts[l].pool[a.first] = st[l].pool[a.first]
  <2>1. CASE st[l].is_vector
    BY <2>1, HomeCases DEF InVector
  <2>2. ASSUME ~st[l].is_vector, NEW r \in D, In(r, w)
        PROVE  ts[l].pool[a.first] = st[l].pool[a.first]
    BY <2>2, HomeCases DEF InPool
  <2>3. CASE ~st[l].is_vector /\ \A r \in D : ~In(r, w)
    BY <2>3, HomeCases DEF Single
  <2> QED BY <2>1, <2>2, <2>3
<1> HIDE DEF a
<1>3. Load(st, a) = Load(ts, a)
  BY <1>1, <1>2, LoadsFrom
<1> QED BY <1>3 DEF a

(* A range of wires that are neither allocated nor set, nor passed on,     *)
(* becomes one of the circuit's ranges.                                    *)
Fresh(cs, n, l, first, last) ==
  /\ l \in 1 .. n /\ first \in Wires /\ last \in Wires /\ first <= last
  /\ \A w \in first .. last : /\ w >= Len(cs[l].args)
                              /\ \A r \in cs[l].declared : w < r[1] \/ r[2] < w
                              /\ cs[l].values[w] = Undefined
  /\ \A m \in 1 .. n : \A i \in DOMAIN cs[m].args :
       cs[m].args[i][1] = l => cs[m].args[i][2] \notin first .. last
WithRange(st, l, first, last) ==
  IF st[l].is_vector THEN st ELSE [st EXCEPT ![l] = Inserted(st[l], first, last)]

LEMMA InsertedParts ==
  ASSUME NEW f \in Frames, NEW first \in Wires, NEW last \in Wires, first <= last
  PROVE  LET g == Inserted(f, first, last)
         IN  /\ g \in Frames /\ g.cache = <<>> /\ Len(g.pool[first]) = last - first + 1
             /\ \A w \in Wires : w # first => g.pool[w] = f.pool[w]
             /\ g.args = f.args /\ g.vector = f.vector /\ g.unallocated = f.unallocated
             /\ g.is_vector = f.is_vector
<1> DEFINE s == [i \in 1 .. last - first + 1 |-> Default]
           g == [f EXCEPT !.pool = [f.pool EXCEPT ![first] = s], !.cache = <<>>]
<1>1. first \in Nat /\ last \in Nat /\ last - first + 1 \in Nat
  BY FrameAssumption DEF Wires
<1>2. s \in Seq(Vals) /\ Len(s) = last - first + 1
  BY <1>1 DEF Vals
<1>3. Inserted(f, first, last) = g
  BY DEF Inserted
<1> HIDE DEF s
<1>4. f.pool \in [Wires -> Seq(Vals)]
  BY DEF Frames
<1>5. g \in Frames
  BY <1>2, <1>4 DEF Frames
<1>6. /\ g.cache = <<>> /\ g.pool = [f.pool EXCEPT ![first] = s]
      /\ g.args = f.args /\ g.vector = f.vector /\ g.unallocated = f.unallocated
      /\ g.is_vector = f.is_vector
  BY DEF Frames
<1> HIDE DEF g
<1> QED BY <1>2, <1>3, <1>4, <1>5, <1>6

LEMMA RangeRight ==
  ASSUME NEW st, NEW cs, NEW n, FramesRight(st, cs, n), NEW l, NEW first, NEW last,
         Fresh(cs, n, l, first, last)
  PROVE  LET ts == WithRange(st, l, first, last)
             ds == [cs EXCEPT ![l].declared = @ \cup {<<first, last>>}]
         IN  /\ FramesRight(ts, ds, n) /\ Len(ts) = Len(st)
             /\ \A p : Own(cs, n, p) /\ (p[1] = l => p[2] \notin first .. last)
                         => HomeOf(ts, ds, p) = HomeOf(st, cs, p)
<1> DEFINE ts == WithRange(st, l, first, last)
           c == [cs[l] EXCEPT !.declared = cs[l].declared \cup {<<first, last>>}]
           ds == [cs EXCEPT ![l] = c]
           D == OwnRanges(cs[l])
           E == D \cup {<<first, last>>}
<1>0. /\ l \in 1 .. n /\ first \in Wires /\ last \in Wires /\ first <= last
      /\ first \in Nat /\ last \in Nat /\ l \in Nat
      /\ first \in first .. last /\ last \in first .. last
  BY FrameAssumption DEF Fresh, Wires
<1>1. /\ st \in Seq(Frames) /\ cs \in Seq(Circuits) /\ n <= Len(st) /\ Len(cs) = n /\ n \in Nat
      /\ l \in DOMAIN st
  BY <1>0 DEF FramesRight
<1>2. /\ cs[l] \in Circuits /\ l \in DOMAIN cs /\ st[l] \in Frames /\ Disjoint(D) /\ Matches(st[l], D)
      /\ Len(cs[l].args) \in Nat
  BY <1>0, LevelParts
<1>3. c \in Circuits /\ c.args = cs[l].args /\ c.values = cs[l].values
      /\ c.declared = cs[l].declared \cup {<<first, last>>}
  <2>1. cs[l].declared \in SUBSET (Nat \X Nat)
    BY <1>2 DEF Circuits
  <2>2. cs[l].declared \cup {<<first, last>>} \in SUBSET (Nat \X Nat)
    BY <1>0, <2>1
  <2> QED BY <1>2, <2>2 DEF Circuits
<1>4. [cs EXCEPT ![l].declared = @ \cup {<<first, last>>}] = ds
  OBVIOUS
<1> HIDE DEF c
<1>5. /\ ds \in Seq(Circuits) /\ Len(ds) = n /\ ds[l] = c
      /\ \A m \in 1 .. n : m # l => ds[m] = cs[m]
  BY <1>1, <1>2, <1>3
<1> HIDE DEF ds
<1>6. \A m \in 1 .. n : ds[m].args = cs[m].args /\ ds[m].values = cs[m].values
  BY <1>3, <1>5
<1>7. /\ ts \in Seq(Frames) /\ Len(ts) = Len(st)
      /\ ts[l] = IF st[l].is_vector THEN st[l] ELSE Inserted(st[l], first, last)
      /\ \A m \in 1 .. n : m # l => ts[m] = st[m]
  BY <1>0, <1>1, <1>2, InsertedParts DEF WithRange
<1> HIDE DEF ts
<1>8. /\ ts[l].args = st[l].args /\ ts[l].vector = st[l].vector
      /\ ts[l].unallocated = st[l].unallocated /\ ts[l].is_vector = st[l].is_vector
      /\ ~st[l].is_vector => /\ ts[l].cache = <<>> /\ Len(ts[l].pool[first]) = last - first + 1
                             /\ \A w \in Wires : w # first => ts[l].pool[w] = st[l].pool[w]
  <2>1. CASE st[l].is_vector
    BY <1>7, <2>1
  <2>2. CASE ~st[l].is_vector
    <3> DEFINE g == Inserted(st[l], first, last)
    <3>1. /\ g.cache = <<>> /\ Len(g.pool[first]) = last - first + 1
          /\ \A w \in Wires : w # first => g.pool[w] = st[l].pool[w]
          /\ g.args = st[l].args /\ g.vector = st[l].vector
          /\ g.unallocated = st[l].unallocated /\ g.is_vector = st[l].is_vector
      BY <1>0, <1>2, InsertedParts
    <3>2. ts[l] = g
      BY <1>7, <2>2
    <3> HIDE DEF g
    <3> QED BY <3>1, <3>2
  <2> QED BY <2>1, <2>2
<1>9. OwnRanges(ds[l]) = E
  <2>1. first >= Len(cs[l].args)
    BY <1>0 DEF Fresh
  <2> QED BY <1>3, <1>5, <2>1 DEF OwnRanges
<1>10. ASSUME NEW r \in D
       PROVE  /\ last < r[1] \/ r[2] < first
              /\ r[1] \in Nat /\ r[2] \in Nat /\ r[1] <= r[2] /\ r[1] \in Wires
  <2>1. r \in cs[l].declared
    BY DEF OwnRanges
  <2>2. r[1] \in Nat /\ r[2] \in Nat /\ r[1] <= r[2] /\ r[1] \in Wires
    BY <1>2, FrameAssumption DEF Disjoint, Wires
  <2>3. \A w \in first .. last : w < r[1] \/ r[2] < w
    BY <2>1 DEF Fresh
  <2>4. r[1] \in first .. last => FALSE
    BY <2>2, <2>3
  <2> QED BY <1>0, <2>2, <2>3, <2>4
<1>11. Disjoint(E)
  BY <1>0, <1>2, <1>10 DEF Disjoint
<1>12. Matches(ts[l], E)
  <2> SUFFICES ASSUME ~st[l].is_vector
               PROVE  /\ ts[l].cache = <<>>
                      /\ \A r \in E : Len(ts[l].pool[r[1]]) = r[2] - r[1] + 1
                      /\ \A w \in Wires : ts[l].pool[w] # <<>> => \E r \in E : r[1] = w
    BY <1>8 DEF Matches
  <2>1. /\ \A r \in D : Len(st[l].pool[r[1]]) = r[2] - r[1] + 1
        /\ \A w \in Wires : st[l].pool[w] # <<>> => \E r \in D : r[1] = w
    BY <1>2 DEF Matches
  <2>2. \A r \in D : r[1] \in Wires /\ r[1] # first
    BY <1>0, <1>10
  <2>3. \A r \in D : Len(ts[l].pool[r[1]]) = r[2] - r[1] + 1
    BY <1>8, <2>1, <2>2
  <2>4. \A w \in Wires : ts[l].pool[w] # <<>> => \E r \in E : r[1] = w
    <3> TAKE w \in Wires
    <3>1. CASE w = first
      <4>1. <<first, last>> \in E /\ <<first, last>>[1] = first
        OBVIOUS
      <4> QED BY <3>1, <4>1
    <3>2. CASE w # first
      BY <1>8, <2>1, <3>2
    <3> QED BY <3>1, <3>2
  <2>5. \A r \in E : Len(ts[l].pool[r[1]]) = r[2] - r[1] + 1
    BY <1>8, <2>3
  <2> QED BY <1>8, <2>4, <2>5
<1> HIDE DEF D, E
<1>13. ASSUME NEW p, Own(cs, n, p), p[1] = l => p[2] \notin first .. last
       PROVE  /\ HomeOf(ts, ds, p) = HomeOf(st, cs, p)
              /\ Load(ts, HomeOf(st, cs, p)) = Load(st, HomeOf(st, cs, p))
  <2>1. p[1] \in 1 .. n /\ p[2] \in Wires /\ p[2] >= Len(cs[p[1]].args) /\ p[1] \in Nat
    BY <1>1, <1>13 DEF Own
  <2>2. CASE p[1] # l
    <3>1. ts[p[1]] = st[p[1]] /\ ds[p[1]] = cs[p[1]]
      BY <1>5, <1>7, <2>1, <2>2
    <3>2. HomeOf(ts, ds, p) = HomeOf(st, cs, p)
      BY <3>1 DEF HomeOf
    <3>3. HomeOf(st, cs, p) \in Addresses /\ HomeOf(st, cs, p).level = p[1]
      BY <1>13, OwnHome
    <3> QED BY <3>1, <3>2, <3>3, LoadsFrom
  <2>3. CASE p[1] = l
    <3> DEFINE k == Len(cs[l].args)
               w == p[2]
    <3>1. ~In(<<first, last>>, w) /\ w \in Wires /\ w >= k /\ k \in Nat
      BY <1>0, <1>2, <1>13, <2>1, <2>3, FrameAssumption DEF In, Wires
    <3>2. \A r : In(r, w) => (r \in D <=> r \in E)
      BY <3>1 DEF E
    <3>3. /\ HomeOf(st, cs, p) = Home(st[l], k, D, l, w)
          /\ HomeOf(ts, ds, p) = Home(ts[l], k, E, l, w)
      BY <1>3, <1>5, <1>9, <2>3 DEF HomeOf, HomeIn, D
    <3> HIDE DEF k, w
    <3>4. Home(st[l], k, D, l, w) = Home(ts[l], k, E, l, w)
      BY <1>2, <1>8, <1>11, <3>1, <3>2, SameHome
    <3>5. ASSUME NEW r \in D, ~st[l].is_vector PROVE ts[l].pool[r[1]] = st[l].pool[r[1]]
      BY <1>0, <1>8, <1>10, <3>5, SMTT(30)
    <3>6. Load(ts, Home(st[l], k, D, l, w)) = Load(st, Home(st[l], k, D, l, w))
      BY <1>0, <1>2, <1>8, <3>1, <3>5, HomeLoads
    <3> QED BY <3>3, <3>4, <3>6
  <2> QED BY <2>2, <2>3
<1>14. ASSUME NEW m \in 1 .. n
       PROVE  Pools(ts[m], ds[m])
  <2>1. CASE m = l
    BY <1>9, <1>11, <1>12, <2>1 DEF Pools
  <2>2. CASE m # l
    BY <1>5, <1>7, <2>2, LevelParts DEF Pools
  <2> QED BY <2>1, <2>2
<1>15. \A m \in 1 .. n : \A i \in DOMAIN cs[m].args :
          HomeOf(ts, ds, cs[m].args[i]) = HomeOf(st, cs, cs[m].args[i])
  BY <1>13, ArgsOwn DEF Fresh
<1>16. ASSUME NEW m \in 1 .. n, NEW w \in Wires, w >= Len(cs[m].args), ds[m].values[w] # Undefined
       PROVE  Load(ts, HomeOf(ts, ds, <<m, w>>)) = ds[m].values[w]
  <2> DEFINE q == <<m, w>>
  <2>1. Own(cs, n, q) /\ q[1] = m /\ q[2] = w
    BY <1>16 DEF Own
  <2>2. cs[m].values[w] # Undefined /\ ds[m].values[w] = cs[m].values[w]
    BY <1>6, <1>16
  <2>3. m = l => w \notin first .. last
    BY <2>2 DEF Fresh
  <2>4. ValuesRight(st, cs, m)
    BY LevelParts
  <2>5. Load(st, HomeOf(st, cs, q)) = cs[m].values[w]
    BY <1>16, <2>2, <2>4 DEF ValuesRight
  <2> QED BY <1>13, <2>1, <2>2, <2>3, <2>5
<1>17. \A m \in 1 .. n : ts[m].args = st[m].args
  BY <1>7, <1>8
<1>18. \A m \in 1 .. n : \A r \in ds[m].declared : r[1] < Len(cs[m].args) => r \in cs[m].declared
  <2>1. ~(first < Len(cs[l].args))
    BY <1>0, <1>2 DEF Fresh
  <2>2. <<first, last>>[1] = first
    OBVIOUS
  <2> QED BY <1>3, <1>5, <2>1, <2>2
<1>19. FramesRight(ts, ds, n)
  <2>1. ts \in Seq(Frames) /\ ds \in Seq(Circuits) /\ n <= Len(ts) /\ Len(ds) = n
    BY <1>1, <1>5, <1>7
  <2>2. \A m \in 1 .. n : /\ ts[m].args = st[m].args /\ ds[m].args = cs[m].args
                          /\ Pools(ts[m], ds[m])
                          /\ \A r \in ds[m].declared : r[1] < Len(cs[m].args) => r \in cs[m].declared
    BY <1>6, <1>14, <1>17, <1>18
  <2>3. \A m \in 1 .. n : \A w \in Wires :
           w >= Len(cs[m].args) /\ ds[m].values[w] # Undefined
             => Load(ts, HomeOf(ts, ds, <<m, w>>)) = ds[m].values[w]
    BY <1>16
  <2> HIDE DEF ts
  <2> QED BY <1>15, <2>1, <2>2, <2>3, Rebuilt
<1> QED BY <1>4, <1>7, <1>13, <1>19 DEF ts

(* Ranges that together are first .. last are given up.                    *)
WithoutRanges(st, n, T) ==
  IF st[n].is_vector THEN st ELSE [st EXCEPT ![n] = Removed(st[n], {r[1] : r \in T})]
GivenUp(cs, n, T, first, last) ==
  [cs EXCEPT ![n].declared = @ \ T,
             ![n].values = [w \in Wires |-> IF w \in first .. last THEN Undefined ELSE @[w]]]

LEMMA DeleteRight ==
  ASSUME NEW st, NEW cs, NEW n, FramesRight(st, cs, n), n >= 1,
         NEW first \in Wires, NEW last \in Wires,
         NEW T \in SUBSET cs[n].declared, \A r \in T : r[1] >= Len(cs[n].args),
         \A r \in T : r[1] .. r[2] \subseteq first .. last
  PROVE  FramesRight(WithoutRanges(st, n, T), GivenUp(cs, n, T, first, last), n)
<1> DEFINE firsts == {r[1] : r \in T}
           P == [w \in Wires |-> IF w \in firsts THEN <<>> ELSE st[n].pool[w]]
           g == [st[n] EXCEPT !.pool = P, !.cache = <<>>]
           ts == IF st[n].is_vector THEN st ELSE [st EXCEPT ![n] = g]
           V == [w \in Wires |-> IF w \in first .. last THEN Undefined ELSE cs[n].values[w]]
           c == [cs[n] EXCEPT !.declared = cs[n].declared \ T, !.values = V]
           ds == [cs EXCEPT ![n] = c]
           D == OwnRanges(cs[n])
           E == D \ T
<1>1. /\ st \in Seq(Frames) /\ cs \in Seq(Circuits) /\ n <= Len(st) /\ Len(cs) = n /\ n \in Nat
      /\ n \in 1 .. n /\ n \in DOMAIN st
  BY DEF FramesRight
<1>2. /\ cs[n] \in Circuits /\ n \in DOMAIN cs /\ st[n] \in Frames /\ Disjoint(D) /\ Matches(st[n], D)
      /\ Len(cs[n].args) \in Nat
  BY <1>1, LevelParts
<1>3. cs[n].values \in [Wires -> Vals] /\ cs[n].declared \in SUBSET (Nat \X Nat)
      /\ st[n].pool \in [Wires -> Seq(Vals)]
  BY <1>2 DEF Circuits, Frames
<1>4. /\ V \in [Wires -> Vals] /\ P \in [Wires -> Seq(Vals)]
      /\ cs[n].declared \ T \in SUBSET (Nat \X Nat)
  BY <1>3 DEF Vals
<1>5. \A w \in Wires : V[w] # Undefined => w \notin first .. last /\ V[w] = cs[n].values[w]
  OBVIOUS
<1>6. \A w \in Wires : /\ w \in firsts => P[w] = <<>>
                       /\ w \notin firsts => P[w] = st[n].pool[w]
  OBVIOUS
<1>7. Removed(st[n], firsts) = g
  BY DEF Removed
<1>8. GivenUp(cs, n, T, first, last) = ds
  BY <1>1, <1>2 DEF Circuits, GivenUp
<1> HIDE DEF V, P
<1>9. c \in Circuits /\ c.args = cs[n].args /\ c.values = V /\ c.declared = cs[n].declared \ T
  BY <1>2, <1>4 DEF Circuits
<1>10. /\ g \in Frames /\ g.args = st[n].args /\ g.vector = st[n].vector /\ g.cache = <<>>
       /\ g.unallocated = st[n].unallocated /\ g.is_vector = st[n].is_vector /\ g.pool = P
  BY <1>2, <1>4 DEF Frames
<1> HIDE DEF c, g
<1>11. /\ ds \in Seq(Circuits) /\ Len(ds) = n /\ ds[n] = c
       /\ \A m \in 1 .. n : m # n => ds[m] = cs[m]
  BY <1>1, <1>2, <1>9
<1>12. /\ ts \in Seq(Frames) /\ Len(ts) = Len(st)
       /\ ts[n] = IF st[n].is_vector THEN st[n] ELSE g
       /\ \A m \in 1 .. n : m # n => ts[m] = st[m]
  BY <1>1, <1>2, <1>10
<1> HIDE DEF ds, ts
<1>13. /\ ts[n].args = st[n].args /\ ts[n].vector = st[n].vector
       /\ ts[n].unallocated = st[n].unallocated /\ ts[n].is_vector = st[n].is_vector
       /\ ~st[n].is_vector => ts[n].cache = <<>> /\ ts[n].pool = P
  BY <1>10, <1>12
<1>14. OwnRanges(ds[n]) = E
  BY <1>9, <1>11 DEF OwnRanges
<1>15. T \subseteq D
  BY DEF OwnRanges
<1>16. \A r \in D : r[1] \in Nat /\ r[2] \in Nat /\ r[1] <= r[2] /\ r[1] \in Wires
  BY <1>2, FrameAssumption DEF Disjoint, Wires
<1>17. \A r \in E : r[1] \notin firsts
  <2> SUFFICES ASSUME NEW r \in E, NEW q \in T, q[1] = r[1] PROVE FALSE
    OBVIOUS
  <2>1. q \in D /\ r \in D /\ q # r
    BY <1>15
  <2>2. q[2] < r[1] \/ r[2] < q[1]
    BY <1>2, <2>1 DEF Disjoint
  <2> QED BY <1>16, <2>1, <2>2
<1>18. Disjoint(E)
  BY <1>2 DEF Disjoint
<1>19. Matches(ts[n], E)
  <2> SUFFICES ASSUME ~st[n].is_vector
               PROVE  /\ ts[n].cache = <<>>
                      /\ \A r \in E : Len(ts[n].pool[r[1]]) = r[2] - r[1] + 1
                      /\ \A w \in Wires : ts[n].pool[w] # <<>> => \E r \in E : r[1] = w
    BY <1>13 DEF Matches
  <2>1. /\ \A r \in D : Len(st[n].pool[r[1]]) = r[2] - r[1] + 1
        /\ \A w \in Wires : st[n].pool[w] # <<>> => \E r \in D : r[1] = w
    BY <1>2 DEF Matches
  <2>2. \A r \in E : Len(ts[n].pool[r[1]]) = r[2] - r[1] + 1
    BY <1>6, <1>13, <1>16, <1>17, <2>1, ZenonT(60)
  <2>3. ASSUME NEW w \in Wires, ts[n].pool[w] # <<>>
        PROVE  \E r \in E : r[1] = w
    <3>1. w \notin firsts /\ st[n].pool[w] # <<>>
      BY <1>6, <1>13, <2>3
    <3>2. PICK r \in D : r[1] = w
      BY <2>1, <3>1
    <3> QED BY <3>1, <3>2
  <2> QED BY <1>13, <2>2, <2>3
<1>20. ASSUME NEW w \in Wires, w \notin first .. last, NEW r, In(r, w)
       PROVE  /\ r \in D <=> r \in E
              /\ r \in D => r[1] \notin firsts
  <2>1. ASSUME r \in T PROVE FALSE
    <3>1. r \in D /\ w \in Nat
      BY <1>15, <2>1, FrameAssumption DEF Wires
    <3>2. w \in r[1] .. r[2]
      BY <1>16, <1>20, <3>1 DEF In
    <3> QED BY <1>20, <2>1, <3>2
  <2> QED BY <1>17, <2>1
<1> HIDE DEF D, E, firsts
<1>21. ASSUME NEW p, Own(cs, n, p), p[1] = n => p[2] \notin first .. last
       PROVE  /\ HomeOf(ts, ds, p) = HomeOf(st, cs, p)
              /\ Load(ts, HomeOf(st, cs, p)) = Load(st, HomeOf(st, cs, p))
  <2>1. p[1] \in 1 .. n /\ p[2] \in Wires /\ p[2] >= Len(cs[p[1]].args) /\ p[1] \in Nat
    BY <1>1, <1>21 DEF Own
  <2>2. CASE p[1] # n
    <3>1. ts[p[1]] = st[p[1]] /\ ds[p[1]] = cs[p[1]]
      BY <1>11, <1>12, <2>1, <2>2
    <3>2. HomeOf(ts, ds, p) = HomeOf(st, cs, p)
      BY <3>1 DEF HomeOf
    <3>3. HomeOf(st, cs, p) \in Addresses /\ HomeOf(st, cs, p).level = p[1]
      BY <1>21, OwnHome
    <3> QED BY <3>1, <3>2, <3>3, LoadsFrom
  <2>3. CASE p[1] = n
    <3> DEFINE k == Len(cs[n].args)
               w == p[2]
    <3>1. w \in Wires /\ w >= k /\ k \in Nat /\ w \notin first .. last
      BY <1>2, <1>21, <2>1, <2>3
    <3>2. \A r : In(r, w) => (r \in D <=> r \in E)
      BY <1>20, <3>1
    <3>3. /\ HomeOf(st, cs, p) = Home(st[n], k, D, n, w)
          /\ HomeOf(ts, ds, p) = Home(ts[n], k, E, n, w)
      BY <1>9, <1>11, <1>14, <2>3 DEF HomeOf, HomeIn, D
    <3> HIDE DEF k, w
    <3>4. Home(st[n], k, D, n, w) = Home(ts[n], k, E, n, w)
      BY <1>2, <1>13, <1>18, <3>1, <3>2, SameHome
    <3>5. ASSUME NEW r \in D, ~st[n].is_vector, In(r, w) PROVE ts[n].pool[r[1]] = st[n].pool[r[1]]
      BY <1>6, <1>13, <1>16, <1>20, <3>1, <3>5
    <3>6. Load(ts, Home(st[n], k, D, n, w)) = Load(st, Home(st[n], k, D, n, w))
      <4>1. n \in Nat /\ k \in Nat /\ Disjoint(D) /\ w \in Wires /\ w >= k
        BY <1>1, <1>2, <3>1
      <4>2. ts[n].vector = st[n].vector /\ ts[n].unallocated = st[n].unallocated
        BY <1>13
      <4>3. \A r \in D : ~st[n].is_vector /\ In(r, w) => ts[n].pool[r[1]] = st[n].pool[r[1]]
        BY <3>5
      <4> HIDE DEF D
      <4> QED BY <4>1, <4>2, <4>3, HomeLoads
    <3> QED BY <3>3, <3>4, <3>6
  <2> QED BY <2>2, <2>3
<1>22. ASSUME NEW m \in 1 .. n
       PROVE  Pools(ts[m], ds[m])
  <2>1. CASE m = n
    BY <1>14, <1>18, <1>19, <2>1 DEF Pools
  <2>2. CASE m # n
    BY <1>11, <1>12, <2>2, LevelParts DEF Pools
  <2> QED BY <2>1, <2>2
<1>23. \A m \in 1 .. n : \A i \in DOMAIN cs[m].args :
          HomeOf(ts, ds, cs[m].args[i]) = HomeOf(st, cs, cs[m].args[i])
  <2> TAKE m \in 1 .. n
  <2> TAKE i \in DOMAIN cs[m].args
  <2>1. Own(cs, n, cs[m].args[i]) /\ cs[m].args[i][1] < m
    BY ArgsOwn
  <2>2. cs[m].args[i][1] # n
    BY <1>1, <2>1 DEF Own
  <2> QED BY <1>21, <2>1, <2>2
<1>24. ASSUME NEW m \in 1 .. n, NEW w \in Wires, w >= Len(cs[m].args), ds[m].values[w] # Undefined
       PROVE  Load(ts, HomeOf(ts, ds, <<m, w>>)) = ds[m].values[w]
  <2> DEFINE q == <<m, w>>
  <2>1. Own(cs, n, q) /\ q[1] = m /\ q[2] = w
    BY <1>24 DEF Own
  <2>2. cs[m].values[w] # Undefined /\ ds[m].values[w] = cs[m].values[w]
        /\ (m = n => w \notin first .. last)
    BY <1>5, <1>9, <1>11, <1>24
  <2>3. ValuesRight(st, cs, m)
    BY LevelParts
  <2>4. Load(st, HomeOf(st, cs, q)) = cs[m].values[w]
    BY <1>24, <2>2, <2>3 DEF ValuesRight
  <2> QED BY <1>21, <2>1, <2>2, <2>4
<1>25. \A m \in 1 .. n : ts[m].args = st[m].args /\ ds[m].args = cs[m].args
  BY <1>9, <1>11, <1>12, <1>13
<1>26. \A m \in 1 .. n : \A r \in ds[m].declared : r[1] < Len(cs[m].args) => r \in cs[m].declared
  BY <1>9, <1>11
<1>27. FramesRight(ts, ds, n)
  <2>1. n <= Len(ts)
    BY <1>1, <1>12
  <2> QED BY <1>11, <1>12, <2>1, <1>22, <1>23, <1>24, <1>25, <1>26, Rebuilt
<1>28. WithoutRanges(st, n, T) = ts
  BY <1>7 DEF WithoutRanges, ts, firsts
<1> QED BY <1>8, <1>27, <1>28

(* A frame nobody has put anything into.                                   *)
Empty(f) == /\ f \in Frames /\ f.args = <<>>
            /\ ~f.is_vector => f.cache = <<>> /\ \A w \in Wires : f.pool[w] = <<>>

LEMMA NewIsEmpty == NewFrame \in Frames /\ Empty(NewFrame)
<1> DEFINE P == [w \in Wires |-> <<>>]
           U == [w \in Wires |-> Undefined]
           V == [w \in Wires |-> Default]
<1>1. P \in [Wires -> Seq(Vals)] /\ U \in [Wires -> Vals] /\ V \in [Wires -> Vals]
      /\ \A w \in Wires : P[w] = <<>>
  BY DEF Vals
<1>2. NewFrame = [args |-> <<>>, pool |-> P, cache |-> <<>>, unallocated |-> U, vector |-> V,
                  is_vector |-> FALSE, counter |-> 0]
  BY DEF NewFrame
<1> HIDE DEF P, U, V
<1> QED BY <1>1, <1>2 DEF Empty, Frames

(* What push_frame puts on the stack is empty, however old it is.          *)
LEMMA PushedParts ==
  ASSUME stack \in Seq(Frames), top \in Nat, 1 <= top, top <= Len(stack), NEW is_vector \in BOOLEAN
  PROVE  LET ts == Pushed(is_vector)
         IN  /\ ts \in Seq(Frames) /\ top + 1 <= Len(ts) /\ Empty(ts[top + 1])
             /\ \A l \in 1 .. top : ts[l] = stack[l]
<1> DEFINE old == IF Len(stack) = top THEN NewFrame ELSE stack[top + 1]
           P == IF is_vector THEN old.pool ELSE NewFrame.pool
           C == IF is_vector THEN old.cache ELSE <<>>
           U == IF is_vector THEN old.unallocated ELSE NewFrame.unallocated
           cleared == [old EXCEPT !.args = <<>>, !.is_vector = is_vector, !.pool = P,
                                  !.cache = C, !.unallocated = U]
           f == Ticked(cleared)
           rest == SubSeq(stack, top + 2, Len(stack))
<1>1. old \in Frames
  BY NewIsEmpty
<1>2. Pushed(is_vector) = SubSeq(stack, 1, top) \o <<f>> \o rest
  BY DEF Pushed
<1> HIDE DEF old
<1>3. /\ P \in [Wires -> Seq(Vals)] /\ C \in {<<>>} \cup (Wires \X Wires) /\ U \in [Wires -> Vals]
      /\ ~is_vector => C = <<>> /\ \A w \in Wires : P[w] = <<>>
  <2>1. /\ old.pool \in [Wires -> Seq(Vals)] /\ old.cache \in {<<>>} \cup (Wires \X Wires)
        /\ old.unallocated \in [Wires -> Vals]
    BY <1>1 DEF Frames
  <2>2. /\ NewFrame.pool \in [Wires -> Seq(Vals)] /\ NewFrame.unallocated \in [Wires -> Vals]
        /\ \A w \in Wires : NewFrame.pool[w] = <<>>
    <3>1. ~NewFrame.is_vector
      BY DEF NewFrame
    <3> QED BY <3>1, NewIsEmpty DEF Empty, Frames
  <2> QED BY <2>1, <2>2
<1> HIDE DEF P, C, U
<1>4. /\ cleared \in Frames /\ cleared.args = <<>> /\ (cleared.is_vector <=> is_vector)
      /\ cleared.cache = C /\ cleared.pool = P
  <2>1. <<>> \in Seq(Addresses)
    OBVIOUS
  <2>2. \A flag \in BOOLEAN :
          LET g == [old EXCEPT !.args = <<>>, !.is_vector = flag, !.pool = P,
                               !.cache = C, !.unallocated = U]
          IN  /\ g \in Frames /\ g.args = <<>> /\ g.is_vector = flag /\ g.cache = C /\ g.pool = P
    BY <1>1, <1>3, <2>1 DEF Frames
  <2> QED BY <2>2
<1> HIDE DEF cleared
<1>5. Empty(cleared)
  BY <1>3, <1>4 DEF Empty
<1>6. Empty(f) /\ f \in Frames
  <2>1. CASE cleared.counter + 1 < TickLimit
    <3> DEFINE g == [cleared EXCEPT !.counter = cleared.counter + 1]
    <3>0. cleared.counter + 1 \in Nat
      BY <1>4, SMTT(30) DEF Frames
    <3>1. /\ g \in Frames /\ g.args = cleared.args /\ g.is_vector = cleared.is_vector
          /\ g.cache = cleared.cache /\ g.pool = cleared.pool
      BY <1>4, <3>0 DEF Frames
    <3>2. f = g
      BY <2>1 DEF Ticked
    <3> HIDE DEF g, f
    <3>3. Empty(g)
      BY <1>5, <3>1 DEF Empty
    <3> QED BY <3>1, <3>2, <3>3
  <2>2. CASE ~(cleared.counter + 1 < TickLimit)
    <3>1. f = NewFrame
      BY <2>2 DEF Ticked
    <3> QED BY <3>1, NewIsEmpty
  <2> QED BY <2>1, <2>2
<1> HIDE DEF f
<1>7. SubSeq(stack, 1, top) \in Seq(Frames) /\ Len(SubSeq(stack, 1, top)) = top
      /\ \A l \in 1 .. top : SubSeq(stack, 1, top)[l] = stack[l]
  OBVIOUS
<1>8. rest \in Seq(Frames)
  OBVIOUS
<1> HIDE DEF rest
<1> DEFINE low == SubSeq(stack, 1, top)
<1>9. low \o <<f>> \in Seq(Frames) /\ Len(low \o <<f>>) = top + 1
      /\ (low \o <<f>>)[top + 1] = f /\ \A l \in 1 .. top : (low \o <<f>>)[l] = stack[l]
  BY <1>6, <1>7
<1> DEFINE most == low \o <<f>>
<1> HIDE DEF most
<1>10. most \in Seq(Frames) /\ Len(most) = top + 1 /\ most[top + 1] = f
       /\ \A l \in 1 .. top : most[l] = stack[l]
  BY <1>9 DEF most
<1>11. most \o rest \in Seq(Frames) /\ Len(most \o rest) >= top + 1
       /\ \A l \in 1 .. top + 1 : (most \o rest)[l] = most[l]
  BY <1>8, <1>10
<1>12. Pushed(is_vector) = most \o rest
  BY <1>2 DEF most
<1> QED BY <1>6, <1>10, <1>11, <1>12

(* The frames with a new circuit on top.                                   *)
LEMMA PushRight ==
  ASSUME NEW st, NEW cs, NEW n, FramesRight(st, cs, n), NEW ts \in Seq(Frames), n + 1 <= Len(ts),
         \A l \in 1 .. n : ts[l] = st[l], Empty(ts[n + 1])
  PROVE  FramesRight(ts, Append(cs, NewCircuit(<<>>, {})), n + 1)
<1> DEFINE c == NewCircuit(<<>>, {})
           ds == Append(cs, c)
<1>1. st \in Seq(Frames) /\ cs \in Seq(Circuits) /\ n \in Nat /\ n <= Len(st) /\ Len(cs) = n
  BY DEF FramesRight
<1>2. c \in Circuits /\ c.args = <<>> /\ c.declared = {} /\ \A w \in Wires : c.values[w] = Undefined
  <2> DEFINE V == [w \in Wires |-> Undefined]
  <2>1. V \in [Wires -> Vals] /\ \A w \in Wires : V[w] = Undefined
    BY DEF Vals
  <2>2. c = [args |-> <<>>, values |-> V, declared |-> {}]
    BY DEF NewCircuit
  <2> HIDE DEF V
  <2>3. <<>> \in Seq(Nat \X Wires) /\ {} \in SUBSET (Nat \X Nat)
    OBVIOUS
  <2>4. c.args = <<>> /\ c.declared = {} /\ c.values = V
    BY <2>2
  <2>5. c \in Circuits
    <3>1. \A a \in Seq(Nat \X Wires) : \A d \in SUBSET (Nat \X Nat) :
            [args |-> a, values |-> V, declared |-> d] \in Circuits
      BY <2>1 DEF Circuits
    <3> QED BY <2>2, <2>3, <3>1
  <2> QED BY <2>1, <2>4, <2>5
<1> HIDE DEF c
<1>3. ds \in Seq(Circuits) /\ Len(ds) = n + 1 /\ ds[n + 1] = c /\ \A l \in 1 .. n : ds[l] = cs[l]
  BY <1>1, <1>2
<1> HIDE DEF ds
<1>4. \A p : p[1] \in 1 .. n => HomeOf(ts, ds, p) = HomeOf(st, cs, p)
  BY <1>3 DEF HomeOf
<1>5. ASSUME NEW l \in 1 .. n
      PROVE  Pools(ts[l], ds[l]) /\ GivenRight(ts[l], ds[l]) /\ ArgsRight(ts, ds, l) /\ ValuesRight(ts, ds, l)
  <2>1. ts[l] = st[l] /\ ds[l] = cs[l] /\ l \in Nat
    BY <1>1, <1>3
  <2>2. ArgsRight(st, cs, l) /\ Pools(st[l], cs[l]) /\ GivenRight(st[l], cs[l]) /\ ValuesRight(st, cs, l)
    BY LevelParts DEF Pools
  <2>3. ArgsRight(ts, ds, l)
    <3>1. \A m \in 1 .. l - 1 : m \in 1 .. n
      BY <1>1
    <3>2. \A i \in DOMAIN cs[l].args : /\ cs[l].args[i][1] \in 1 .. l - 1
                                       /\ cs[l].args[i][1] \in 1 .. n
                                       /\ cs[l].args[i][2] >= Len(cs[cs[l].args[i][1]].args)
                                       /\ st[l].args[i] = HomeOf(st, cs, cs[l].args[i])
      BY <2>2, <3>1 DEF ArgsRight
    <3>3. \A i \in DOMAIN cs[l].args : /\ ds[cs[l].args[i][1]] = cs[cs[l].args[i][1]]
                                       /\ HomeOf(ts, ds, cs[l].args[i]) = HomeOf(st, cs, cs[l].args[i])
      BY <1>3, <1>4, <3>2
    <3> QED BY <2>1, <2>2, <3>2, <3>3 DEF ArgsRight
  <2>4. ValuesRight(ts, ds, l)
    <3> SUFFICES ASSUME NEW w \in Wires, w >= Len(cs[l].args), cs[l].values[w] # Undefined
                 PROVE  Load(ts, HomeOf(ts, ds, <<l, w>>)) = cs[l].values[w]
      BY <2>1 DEF ValuesRight
    <3>1. Own(cs, n, <<l, w>>) /\ HomeOf(ts, ds, <<l, w>>) = HomeOf(st, cs, <<l, w>>)
      BY <1>4 DEF Own
    <3>2. HomeOf(st, cs, <<l, w>>) \in Addresses /\ HomeOf(st, cs, <<l, w>>).level = l
      BY <3>1, OwnHome
    <3>3. Load(st, HomeOf(st, cs, <<l, w>>)) = Load(ts, HomeOf(st, cs, <<l, w>>))
      BY <2>1, <3>2, LoadsFrom
    <3> QED BY <2>2, <3>1, <3>3 DEF ValuesRight
  <2> QED BY <2>1, <2>2, <2>3, <2>4
<1>6. OwnRanges(c) = {}
  BY <1>2 DEF OwnRanges
<1>7. /\ Pools(ts[n + 1], ds[n + 1]) /\ GivenRight(ts[n + 1], ds[n + 1])
      /\ ArgsRight(ts, ds, n + 1) /\ ValuesRight(ts, ds, n + 1)
  <2>1. Pools(ts[n + 1], c)
    BY <1>6 DEF Pools, Disjoint, Matches, Empty
  <2>2. GivenRight(ts[n + 1], c)
    BY <1>2 DEF GivenRight
  <2>3. ArgsRight(ts, ds, n + 1)
    BY <1>2, <1>3 DEF ArgsRight, Empty
  <2>4. ValuesRight(ts, ds, n + 1)
    BY <1>2, <1>3 DEF ValuesRight
  <2> QED BY <1>3, <2>1, <2>2, <2>3, <2>4
<1>8. \A l \in 1 .. n + 1 : l \in 1 .. n \/ l = n + 1
  BY <1>1
<1>9. FramesRight(ts, ds, n + 1)
  BY <1>1, <1>3, <1>5, <1>7, <1>8 DEF FramesRight
<1> QED BY <1>9 DEF ds, c

(* The top circuit, which has done nothing yet, is given more wires.       *)
Untouched(c) == /\ \A w \in Wires : c.values[w] = Undefined
                /\ \A r \in c.declared : r[1] < Len(c.args)
GivenMore(c, W) == [args |-> c.args \o W, values |-> c.values,
                    declared |-> c.declared \cup {<<Len(c.args), Len(c.args) + Len(W) - 1>>}]

LEMMA Joined ==
  ASSUME NEW S, NEW s \in Seq(S), NEW t \in Seq(S)
  PROVE  /\ s \o t \in Seq(S) /\ Len(s \o t) = Len(s) + Len(t)
         /\ \A i \in 1 .. Len(s) : (s \o t)[i] = s[i]
         /\ \A i \in 1 .. Len(t) : (s \o t)[Len(s) + i] = t[i]
  OBVIOUS

LEMMA PassRight ==
  ASSUME NEW st, NEW cs, NEW n, FramesRight(st, cs, n), n >= 1, Untouched(cs[n]),
         NEW A \in Seq(Addresses), NEW W \in Seq(Nat \X Wires), Len(A) = Len(W), Len(W) >= 1,
         \A i \in 1 .. Len(W) : /\ Own(cs, n - 1, W[i]) /\ A[i] = HomeOf(st, cs, W[i])
                                /\ A[i] = Shift(A[1], i - 1),
         Len(W) > 1 => A[1].kind # "single"
  PROVE  /\ FramesRight([st EXCEPT ![n].args = @ \o A], [cs EXCEPT ![n] = GivenMore(cs[n], W)], n)
         /\ Untouched(GivenMore(cs[n], W))
         /\ Len([st EXCEPT ![n].args = @ \o A]) = Len(st)
<1> DEFINE as == st[n].args \o A
           g == [st[n] EXCEPT !.args = as]
           ts == [st EXCEPT ![n] = g]
           c == GivenMore(cs[n], W)
           ds == [cs EXCEPT ![n] = c]
           k == Len(cs[n].args)
           ms == cs[n].args \o W
           new == <<k, k + Len(W) - 1>>
<1>1. /\ st \in Seq(Frames) /\ cs \in Seq(Circuits) /\ n <= Len(st) /\ Len(cs) = n /\ n \in Nat
      /\ n \in 1 .. n /\ n \in DOMAIN st /\ n \in DOMAIN cs
  BY DEF FramesRight
<1>2. /\ st[n] \in Frames /\ cs[n] \in Circuits /\ k \in Nat /\ Len(st[n].args) = k
      /\ Len(W) \in Nat
  <2>1. /\ st[n] \in Frames /\ cs[n] \in Circuits
        /\ Len(cs[n].args) \in Nat /\ Len(st[n].args) = Len(cs[n].args)
    BY <1>1, LevelParts
  <2>2. Len(W) \in Nat
    OBVIOUS
  <2> QED BY <2>1, <2>2
<1>3. /\ st[n].args \in Seq(Addresses) /\ cs[n].args \in Seq(Nat \X Wires)
      /\ cs[n].values \in [Wires -> Vals] /\ cs[n].declared \in SUBSET (Nat \X Nat)
  BY <1>2 DEF Frames, Circuits
<1>4. /\ as \in Seq(Addresses) /\ Len(as) = k + Len(W)
      /\ \A i \in 1 .. k : as[i] = st[n].args[i]
      /\ \A i \in 1 .. Len(W) : as[k + i] = A[i]
  <2>1. /\ as \in Seq(Addresses) /\ Len(as) = Len(st[n].args) + Len(A)
        /\ \A i \in 1 .. Len(st[n].args) : as[i] = st[n].args[i]
        /\ \A i \in 1 .. Len(A) : as[Len(st[n].args) + i] = A[i]
    <3>1. st[n].args \in Seq(Addresses) /\ A \in Seq(Addresses)
      BY <1>3
    <3>2. \A s, t \in Seq(Addresses) :
            /\ s \o t \in Seq(Addresses) /\ Len(s \o t) = Len(s) + Len(t)
            /\ \A i \in 1 .. Len(s) : (s \o t)[i] = s[i]
            /\ \A i \in 1 .. Len(t) : (s \o t)[Len(s) + i] = t[i]
      BY Joined
    <3> QED BY <3>1, <3>2
  <2> HIDE DEF as, k
  <2> QED BY <1>2, <2>1
<1>5. /\ ms \in Seq(Nat \X Wires) /\ Len(ms) = k + Len(W)
      /\ \A i \in 1 .. k : ms[i] = cs[n].args[i]
      /\ \A i \in 1 .. Len(W) : ms[k + i] = W[i]
  BY <1>2, <1>3, Joined
<1> HIDE DEF as, ms
<1>6. /\ g \in Frames /\ g.args = as /\ g.cache = st[n].cache /\ g.pool = st[n].pool
      /\ g.vector = st[n].vector /\ g.unallocated = st[n].unallocated
      /\ g.is_vector = st[n].is_vector
  BY <1>2, <1>4 DEF Frames
<1>7. new \in Nat \X Nat /\ new[1] = k /\ new[2] = k + Len(W) - 1
  BY <1>2
<1>8. c.args = ms /\ c.values = cs[n].values /\ c.declared = cs[n].declared \cup {new}
  BY DEF GivenMore, ms
<1>9. c \in Circuits
  <2>1. \A a \in Seq(Nat \X Wires) : \A v \in [Wires -> Vals] : \A d \in SUBSET (Nat \X Nat) :
          [args |-> a, values |-> v, declared |-> d] \in Circuits
    BY DEF Circuits
  <2>2. cs[n].declared \cup {new} \in SUBSET (Nat \X Nat)
    BY <1>3, <1>7
  <2> QED BY <1>3, <1>5, <2>1, <2>2 DEF GivenMore, ms
<1> HIDE DEF g, c, k, new
<1>10. /\ ds \in Seq(Circuits) /\ Len(ds) = n /\ ds[n] = c
       /\ \A m \in 1 .. n : m # n => ds[m] = cs[m]
  BY <1>1, <1>9
<1>11. /\ ts \in Seq(Frames) /\ Len(ts) = Len(st) /\ ts[n] = g
       /\ \A m \in 1 .. n : m # n => ts[m] = st[m]
  BY <1>1, <1>6
<1>12. [st EXCEPT ![n].args = @ \o A] = ts
  BY <1>1 DEF g, as
<1> HIDE DEF ds, ts
<1>13. \A r \in c.declared : r[1] < Len(c.args)
  <2>1. \A r \in cs[n].declared : r[1] < k /\ r[1] \in Nat
    BY <1>3 DEF Untouched, k
  <2>2. Len(c.args) = k + Len(W)
    BY <1>5, <1>8
  <2>3. new[1] < k + Len(W) /\ \A r \in cs[n].declared : r[1] < k + Len(W)
    BY <1>2, <1>7, <2>1
  <2> QED BY <1>8, <2>2, <2>3
<1>14. Untouched(c)
  BY <1>8, <1>13 DEF Untouched
<1>15. OwnRanges(c) = {} /\ OwnRanges(cs[n]) = {}
  <2>1. \A r \in c.declared : r[1] \in Nat
    BY <1>9 DEF Circuits
  <2>2. \A r \in cs[n].declared : r[1] < k /\ r[1] \in Nat
    BY <1>3 DEF Untouched, k
  <2>3. Len(c.args) \in Nat
    BY <1>2, <1>5, <1>8
  <2>4. \A r \in c.declared : ~(r[1] >= Len(c.args))
    BY <1>13, <2>1, <2>3
  <2>5. \A r \in cs[n].declared : ~(r[1] >= Len(cs[n].args))
    BY <1>2, <2>2 DEF k
  <2> QED BY <2>4, <2>5 DEF OwnRanges
<1>16. ASSUME NEW p, p[1] \in 1 .. n - 1
       PROVE  HomeOf(ts, ds, p) = HomeOf(st, cs, p)
  <2>1. p[1] \in 1 .. n /\ p[1] # n
    BY <1>1, <1>16
  <2> QED BY <1>10, <1>11, <2>1 DEF HomeOf
<1>17. ASSUME NEW l \in 1 .. n - 1
       PROVE  Pools(ts[l], ds[l]) /\ GivenRight(ts[l], ds[l]) /\ ArgsRight(ts, ds, l) /\ ValuesRight(ts, ds, l)
  <2>1. l \in 1 .. n /\ l # n /\ l \in Nat
    BY <1>1
  <2>2. ts[l] = st[l] /\ ds[l] = cs[l]
    BY <1>10, <1>11, <2>1
  <2>3. ArgsRight(st, cs, l) /\ Pools(st[l], cs[l]) /\ GivenRight(st[l], cs[l]) /\ ValuesRight(st, cs, l)
    BY <2>1, LevelParts DEF Pools
  <2>4. ArgsRight(ts, ds, l)
    <3>1. \A m \in 1 .. l - 1 : m \in 1 .. n /\ m \in 1 .. n - 1 /\ m # n
      BY <1>1
    <3>2. \A i \in DOMAIN cs[l].args : /\ cs[l].args[i][1] \in 1 .. l - 1
                                       /\ cs[l].args[i][1] \in 1 .. n /\ cs[l].args[i][1] # n
                                       /\ cs[l].args[i][1] \in 1 .. n - 1
                                       /\ cs[l].args[i][2] >= Len(cs[cs[l].args[i][1]].args)
                                       /\ st[l].args[i] = HomeOf(st, cs, cs[l].args[i])
      BY <2>3, <3>1 DEF ArgsRight
    <3>3. \A i \in DOMAIN cs[l].args : /\ ds[cs[l].args[i][1]] = cs[cs[l].args[i][1]]
                                       /\ HomeOf(ts, ds, cs[l].args[i]) = HomeOf(st, cs, cs[l].args[i])
      BY <1>10, <1>16, <3>2
    <3> QED BY <2>2, <2>3, <3>2, <3>3 DEF ArgsRight
  <2>5. ValuesRight(ts, ds, l)
    <3> SUFFICES ASSUME NEW w \in Wires, w >= Len(cs[l].args), cs[l].values[w] # Undefined
                 PROVE  Load(ts, HomeOf(ts, ds, <<l, w>>)) = cs[l].values[w]
      BY <2>2 DEF ValuesRight
    <3>1. Own(cs, n, <<l, w>>) /\ HomeOf(ts, ds, <<l, w>>) = HomeOf(st, cs, <<l, w>>)
      BY <1>16, <2>1 DEF Own
    <3>2. HomeOf(st, cs, <<l, w>>) \in Addresses /\ HomeOf(st, cs, <<l, w>>).level = l
      BY <3>1, OwnHome
    <3>3. Load(st, HomeOf(st, cs, <<l, w>>)) = Load(ts, HomeOf(st, cs, <<l, w>>))
      BY <2>2, <3>2, LoadsFrom
    <3> QED BY <2>3, <3>1, <3>3 DEF ValuesRight
  <2> QED BY <2>2, <2>3, <2>4, <2>5
<1>18. Pools(ts[n], ds[n])
  <2>1. Disjoint({}) /\ Matches(st[n], {})
    <3>1. Disjoint(OwnRanges(cs[n])) /\ Matches(st[n], OwnRanges(cs[n]))
      BY <1>1, LevelParts
    <3> QED BY <1>15, <3>1
  <2>2. Matches(g, {})
    BY <1>6, <2>1 DEF Matches
  <2> QED BY <1>10, <1>11, <1>15, <2>1, <2>2 DEF Pools
<1>19. ArgsRight(ts, ds, n)
  <2>1. Len(as) = Len(c.args)
    BY <1>4, <1>5, <1>8
  <2>2. ASSUME NEW i \in DOMAIN c.args
        PROVE  /\ c.args[i][1] \in 1 .. n - 1
               /\ c.args[i][2] >= Len(ds[c.args[i][1]].args)
               /\ as[i] = HomeOf(ts, ds, c.args[i])
    <3>1. i \in 1 .. k + Len(W)
      BY <1>2, <1>5, <1>8, <2>2
    <3>2. CASE i \in 1 .. k
      <4>0. DOMAIN cs[n].args = 1 .. k
        BY <1>1, LevelParts DEF k
      <4>1. i \in DOMAIN cs[n].args /\ c.args[i] = cs[n].args[i] /\ as[i] = st[n].args[i]
        BY <1>4, <1>5, <1>8, <3>2, <4>0
      <4>2. /\ cs[n].args[i][1] \in 1 .. n - 1 /\ cs[n].args[i][2] >= Len(cs[cs[n].args[i][1]].args)
            /\ st[n].args[i] = HomeOf(st, cs, cs[n].args[i])
        <5>1. ArgsRight(st, cs, n)
          BY <1>1, LevelParts
        <5> QED BY <4>1, <5>1 DEF ArgsRight
      <4>3. ds[cs[n].args[i][1]] = cs[cs[n].args[i][1]]
        BY <1>1, <1>10, <4>2
      <4> QED BY <1>16, <4>1, <4>2, <4>3
    <3>3. CASE i \notin 1 .. k
      <4> DEFINE j == i - k
      <4>1. j \in 1 .. Len(W) /\ i = k + j
        BY <1>2, <3>1, <3>3
      <4> HIDE DEF j
      <4>2. c.args[i] = W[j] /\ as[i] = A[j]
        BY <1>4, <1>5, <1>8, <4>1
      <4>3. Own(cs, n - 1, W[j]) /\ A[j] = HomeOf(st, cs, W[j])
        BY <4>1
      <4>4. W[j][1] \in 1 .. n - 1 /\ W[j][2] >= Len(cs[W[j][1]].args)
        BY <4>3 DEF Own
      <4>5. ds[W[j][1]] = cs[W[j][1]]
        BY <1>1, <1>10, <4>4
      <4> QED BY <1>16, <4>2, <4>3, <4>4, <4>5
    <3> QED BY <3>2, <3>3
  <2> QED BY <1>6, <1>10, <1>11, <2>1, <2>2 DEF ArgsRight
<1>20. GivenRight(ts[n], ds[n])
  <2>1. ASSUME NEW r \in cs[n].declared
        PROVE  Consecutive(as, r)
    <3>1. Consecutive(st[n].args, r) /\ r[1] \in Nat /\ r[2] \in Nat
      BY <1>1, <1>3, LevelParts DEF GivenRight, Untouched
    <3>2. r[2] < k /\ r[1] <= r[2]
      BY <1>2, <3>1 DEF Consecutive
    <3>3. \A w \in r[1] .. r[2] : w + 1 \in 1 .. k
      BY <1>2, <3>1, <3>2
    <3>4. \A w \in r[1] .. r[2] : as[w + 1] = st[n].args[w + 1]
      BY <1>4, <3>3
    <3>5. as[r[1] + 1] = st[n].args[r[1] + 1]
      <4>1. r[1] \in r[1] .. r[2]
        BY <3>1, <3>2
      <4> QED BY <3>4, <4>1
    <3>6. r[2] < Len(as)
      BY <1>2, <1>4, <3>1, <3>2
    <3> QED BY <3>1, <3>2, <3>4, <3>5, <3>6 DEF Consecutive
  <2>2. Consecutive(as, new)
    <3>1. new[2] < Len(as) /\ new[1] <= new[2]
      BY <1>2, <1>4, <1>7
    <3>2. as[k + 1] = A[1]
      <4>1. 1 \in 1 .. Len(W)
        BY <1>2
      <4> QED BY <1>4, <4>1
    <3>3. ASSUME NEW w \in new[1] .. new[2]
          PROVE  as[w + 1] = Shift(A[1], w - k)
      <4> DEFINE i == w - k + 1
      <4>1. i \in 1 .. Len(W) /\ w + 1 = k + i /\ i - 1 = w - k
        BY <1>2, <1>7
      <4> HIDE DEF i
      <4>2. as[k + i] = A[i] /\ A[i] = Shift(A[1], i - 1)
        BY <1>4, <4>1
      <4> QED BY <4>1, <4>2
    <3>4. new[1] # new[2] => Len(W) > 1
      BY <1>2, <1>7
    <3> QED BY <1>7, <3>1, <3>2, <3>3, <3>4 DEF Consecutive
  <2> QED BY <1>6, <1>8, <1>10, <1>11, <2>1, <2>2 DEF GivenRight
<1>21. ValuesRight(ts, ds, n)
  BY <1>10, <1>14 DEF ValuesRight, Untouched
<1>22. \A l \in 1 .. n : l \in 1 .. n - 1 \/ l = n
  BY <1>1
<1>23. FramesRight(ts, ds, n)
  BY <1>1, <1>10, <1>11, <1>17, <1>18, <1>19, <1>20, <1>21, <1>22 DEF FramesRight
<1> QED BY <1>11, <1>12, <1>14, <1>23 DEF ds, c

(* Consecutive addresses.                                                  *)
LEMMA Shifted ==
  ASSUME NEW a \in Addresses, NEW i \in Nat, NEW j \in Nat
  PROVE  /\ Shift(a, i) \in Addresses /\ Shift(a, i).kind = a.kind
         /\ Shift(Shift(a, i), j) = Shift(a, i + j) /\ Shift(a, 0) = a
<1>1. CASE a.kind = "single"
  BY <1>1 DEF Shift
<1>2. CASE a.kind # "single"
  <2> DEFINE b(m) == [a EXCEPT !.index = a.index + m]
  <2>1. \A m \in Nat : Shift(a, m) = b(m)
    BY <1>2 DEF Shift
  <2>2. \A m \in Nat : b(m) \in Addresses /\ b(m).kind = a.kind /\ b(m).index = a.index + m
                       /\ b(m).level = a.level /\ b(m).first = a.first
    BY DEF Addresses
  <2>3. a.index \in Nat /\ i + j \in Nat /\ 0 \in Nat
    BY DEF Addresses
  <2>4. Shift(b(i), j) = [b(i) EXCEPT !.index = b(i).index + j]
    BY <1>2, <2>2 DEF Shift
  <2>5. [b(i) EXCEPT !.index = b(i).index + j] = b(i + j)
    <3>1. b(i).index + j = a.index + (i + j)
      BY <2>2, <2>3
    <3> QED BY <3>1 DEF Addresses
  <2>6. b(0) = a
    <3>1. b(0) \in Addresses /\ b(0).index = a.index /\ b(0).kind = a.kind
          /\ b(0).level = a.level /\ b(0).first = a.first
      BY <2>2, <2>3
    <3> HIDE DEF b
    <3> QED BY <3>1, SameAddress
  <2> HIDE DEF b
  <2> QED BY <2>1, <2>2, <2>3, <2>4, <2>5, <2>6
<1> QED BY <1>1, <1>2

Slices == [src : Wires, end : Wires, output : BOOLEAN]
UndeclaredIn(c, w) == \A r \in c.declared : w < r[1] \/ r[2] < w
Passable(c, s) ==
  \/ s.src = s.end
  \/ \E r \in c.declared : r[1] <= s.src /\ s.end <= r[2]
  \/ s.output /\ \A w \in s.src .. s.end : w >= Len(c.args) /\ UndeclaredIn(c, w)
MeantIn(c, w) == IF w < Len(c.args) THEN c.args[w + 1] ELSE <<top, w>>
NewRange(c, s) == s.src # s.end /\ UndeclaredIn(c, s.src)
WithNewRange(cs, s) ==
  IF NewRange(cs[top], s) THEN [cs EXCEPT ![top].declared = @ \cup {<<s.src, s.end>>}] ELSE cs

(* What the callee gets are the homes of the wires meant.                  *)
Handed(st, cs, c, s, a) ==
  /\ a \in Addresses
  /\ s.src # s.end => a.kind # "single"
  /\ \A i \in 1 .. s.end - s.src + 1 : /\ Own(cs, top, MeantIn(c, s.src + i - 1))
                              /\ Shift(a, i - 1) = HomeOf(st, cs, MeantIn(c, s.src + i - 1))

MaySlice(st, cs, n, s) ==
  /\ FramesRight(st, cs, n) /\ top \in 1 .. n
  /\ s \in Slices /\ s.src <= s.end
  /\ Passable(cs[top], s)
  /\ s.output => /\ \A w \in s.src .. s.end : w >= Len(cs[top].args) => cs[top].values[w] = Undefined
                 /\ \A m \in 1 .. n : \A i \in DOMAIN cs[m].args :
                      cs[m].args[i][1] = top => cs[m].args[i][2] \notin s.src .. s.end

LEMMA SliceFacts ==
  ASSUME NEW st, NEW cs, NEW n, NEW s, MaySlice(st, cs, n, s)
  PROVE  /\ s.src \in Wires /\ s.end \in Wires /\ s.src \in Nat /\ s.end \in Nat /\ s.src <= s.end
         /\ \A i \in 1 .. s.end - s.src + 1 : /\ s.src + i - 1 \in s.src .. s.end /\ i - 1 \in Nat
                                     /\ s.src + i - 1 \in Wires /\ s.src + i - 1 \in Nat
         /\ top \in 1 .. n /\ top \in Nat
         /\ \A r \in cs[top].declared : r[1] \in Nat /\ r[2] \in Nat
<1>1. s.src \in Wires /\ s.end \in Wires /\ s.src <= s.end /\ top \in 1 .. n
  BY DEF MaySlice, Slices
<1>2. MaxWire \in Nat
  BY FrameAssumption
<1>3. s.src \in Nat /\ s.end \in Nat /\ top \in Nat /\ s.end <= MaxWire
  BY <1>1, <1>2 DEF Wires
<1>4. cs[top] \in Circuits
  BY <1>1, LevelParts DEF MaySlice
<1>5. cs[top].declared \in SUBSET (Nat \X Nat)
  BY <1>4 DEF Circuits
<1>6. s.end - s.src + 1 \in Nat
  BY <1>1, <1>3
<1>7. \A i \in 1 .. s.end - s.src + 1 : /\ s.src + i - 1 \in s.src .. s.end /\ i - 1 \in Nat
                               /\ s.src + i - 1 \in Wires /\ s.src + i - 1 \in Nat
  BY <1>2, <1>3, <1>6 DEF Wires
<1> QED BY <1>1, <1>3, <1>5, <1>6, <1>7

(* A slice of the caller's own arguments.                                  *)
LEMMA PassArguments ==
  ASSUME NEW st, NEW cs, NEW n, NEW s, MaySlice(st, cs, n, s), s.src < Len(cs[top].args)
  PROVE  /\ ~Refused(st[top], s) /\ Looked(st[top], s) = st[top] /\ ~NewRange(cs[top], s)
         /\ Handed(st, cs, cs[top], s, Found(st[top], s))
<1> DEFINE f == st[top]
           c == cs[top]
           k == Len(c.args)
           a == f.args[s.src + 1]
<1>1. /\ s.src \in Nat /\ s.end \in Nat /\ s.src <= s.end /\ top \in 1 .. n /\ top \in Nat
      /\ s.src \in s.src .. s.end
      /\ \A i \in 1 .. s.end - s.src + 1 : s.src + i - 1 \in s.src .. s.end /\ i - 1 \in Nat
  BY SliceFacts
<1>2. /\ f \in Frames /\ Len(f.args) = k /\ k \in Nat /\ DOMAIN c.args = 1 .. k
      /\ GivenRight(f, c)
  BY <1>1, LevelParts DEF MaySlice
<1>3. f.args \in Seq(Addresses)
  BY <1>2 DEF Frames
<1>4. a \in Addresses
  BY <1>1, <1>2, <1>3
<1>5. Found(f, s) = a /\ Looked(f, s) = f
  BY <1>2 DEF Found, Looked
<1>6. ASSUME s.src # s.end
      PROVE  /\ ~UndeclaredIn(c, s.src) /\ a.kind # "single" /\ s.end < k
             /\ \A i \in 1 .. s.end - s.src + 1 : f.args[s.src + i] = Shift(a, i - 1)
  <2>1. ~ \A w \in s.src .. s.end : w >= k /\ UndeclaredIn(c, w)
    BY <1>1, <1>2
  <2>2. PICK r \in c.declared : r[1] <= s.src /\ s.end <= r[2]
    BY <1>6, <2>1 DEF MaySlice, Passable
  <2>3. r[1] \in Nat /\ r[2] \in Nat
    BY SliceFacts
  <2>4. r[1] < k
    BY <1>1, <1>2, <2>2, <2>3
  <2>5. Consecutive(f.args, r)
    BY <1>2, <2>4 DEF GivenRight
  <2> DEFINE b == f.args[r[1] + 1]
             d == s.src - r[1]
  <2>6. b \in Addresses /\ d \in Nat
    <3>1. r[1] + 1 \in 1 .. k
      BY <1>2, <2>3, <2>4
    <3> QED BY <1>1, <1>2, <1>3, <2>2, <2>3, <3>1
  <2>7. s.end < k /\ r[1] # r[2] /\ b.kind # "single"
    BY <1>1, <1>2, <1>6, <2>2, <2>3, <2>5 DEF Consecutive
  <2>8. ~UndeclaredIn(c, s.src)
    BY <1>1, <2>2, <2>3 DEF UndeclaredIn
  <2>9. a = Shift(b, d)
    <3>1. s.src \in r[1] .. r[2]
      BY <1>1, <2>2, <2>3
    <3> QED BY <2>5, <3>1 DEF Consecutive
  <2>10. a.kind # "single"
    BY <2>6, <2>7, <2>9, Shifted
  <2>11. ASSUME NEW i \in 1 .. s.end - s.src + 1
         PROVE  f.args[s.src + i] = Shift(a, i - 1)
    <3>0. i \in Nat /\ s.src + i - 1 \in s.src .. s.end /\ i - 1 \in Nat
      BY <1>1
    <3>1. s.src + i - 1 \in r[1] .. r[2] /\ (s.src + i - 1) + 1 = s.src + i
          /\ (s.src + i - 1) - r[1] = d + (i - 1) /\ i - 1 \in Nat
      <4> HIDE DEF b, a, k, f, c
      <4>1. s.src + i - 1 \in r[1] .. r[2]
        BY <1>1, <2>2, <2>3, <3>0, SMTT(30)
      <4>2. (s.src + i - 1) + 1 = s.src + i
        BY <1>1, <3>0
      <4>3. (s.src + i - 1) - r[1] = d + (i - 1)
        BY <1>1, <2>3, <3>0
      <4> QED BY <3>0, <4>1, <4>2, <4>3
    <3>2. f.args[s.src + i] = Shift(b, d + (i - 1))
      BY <2>5, <3>1 DEF Consecutive
    <3> HIDE DEF a, b, d
    <3>3. Shift(Shift(b, d), i - 1) = Shift(b, d + (i - 1))
      BY <2>6, <3>1, Shifted
    <3> QED BY <2>9, <3>2, <3>3
  <2> QED BY <2>7, <2>8, <2>10, <2>11
<1>7. \A i \in 1 .. s.end - s.src + 1 : s.src + i \in 1 .. k /\ s.src + i - 1 < k /\ f.args[s.src + i] = Shift(a, i - 1)
  <2>1. CASE s.src = s.end
    <3>1. s.end - s.src + 1 = 1 /\ Shift(a, 0) = a
      <4> HIDE DEF a, k, f, c
      <4>1. s.end - s.src + 1 = 1
        BY <1>1, <2>1
      <4>2. Shift(a, 0) = a
        BY <1>4, Shifted
      <4> QED BY <4>1, <4>2
    <3>2. \A i \in 1 .. s.end - s.src + 1 : i = 1
      BY <3>1
    <3>3. s.src + 1 \in 1 .. k /\ s.src + 1 - 1 < k /\ 1 - 1 = 0
      BY <1>1, <1>2
    <3> QED BY <3>1, <3>2, <3>3
  <2>2. CASE s.src # s.end
    <3> TAKE i \in 1 .. s.end - s.src + 1
    <3>1. i \in Nat /\ s.src + i - 1 \in s.src .. s.end
      BY <1>1
    <3>2. s.end < k /\ f.args[s.src + i] = Shift(a, i - 1)
      BY <1>6, <2>2
    <3> HIDE DEF a, k, f, c
    <3>3. s.src + i \in 1 .. k /\ s.src + i - 1 < k
      BY <1>1, <1>2, <3>1, <3>2
    <3> QED BY <3>2, <3>3
  <2> QED BY <2>1, <2>2
<1> HIDE DEF a
<1>8. ASSUME NEW i \in 1 .. s.end - s.src + 1
      PROVE  /\ Own(cs, top, MeantIn(c, s.src + i - 1))
             /\ Shift(a, i - 1) = HomeOf(st, cs, MeantIn(c, s.src + i - 1))
  <2>1. s.src + i \in DOMAIN c.args /\ MeantIn(c, s.src + i - 1) = c.args[s.src + i]
    BY <1>1, <1>2, <1>7, SMTT(30) DEF MeantIn
  <2>2. /\ Own(cs, n, c.args[s.src + i]) /\ c.args[s.src + i][1] < top
        /\ f.args[s.src + i] = HomeOf(st, cs, c.args[s.src + i])
    <3>1. FramesRight(st, cs, n) /\ top \in 1 .. n
      BY DEF MaySlice
    <3> QED BY <2>1, <3>1, ArgsOwn
  <2>3. Own(cs, top, c.args[s.src + i])
    BY <1>1, <2>2, SMTT(30) DEF Own
  <2> QED BY <1>7, <2>1, <2>2, <2>3
<1>9. ~Refused(f, s) /\ ~NewRange(c, s)
  BY <1>2, <1>6 DEF Refused, NewRange, a
<1>10. Handed(st, cs, c, s, a)
  BY <1>4, <1>6, <1>8 DEF Handed
<1> QED BY <1>5, <1>9, <1>10

(* Declaring ranges changes nothing else.                                  *)
LEMMA Redeclared ==
  ASSUME NEW cs \in Seq(Circuits), NEW l \in DOMAIN cs, NEW R
  PROVE  LET ds == [cs EXCEPT ![l].declared = @ \cup R]
         IN  /\ ds[l].args = cs[l].args /\ ds[l].values = cs[l].values
             /\ ds[l].declared = cs[l].declared \cup R
             /\ Len(ds) = Len(cs) /\ \A m \in DOMAIN cs : m # l => ds[m] = cs[m]
<1> DEFINE c == [cs[l] EXCEPT !.declared = cs[l].declared \cup R]
<1>1. [cs EXCEPT ![l].declared = @ \cup R] = [cs EXCEPT ![l] = c]
  OBVIOUS
<1>2. c.args = cs[l].args /\ c.values = cs[l].values /\ c.declared = cs[l].declared \cup R
  BY DEF Circuits
<1> HIDE DEF c
<1> DEFINE ds == [cs EXCEPT ![l] = c]
<1>3. ds[l] = c /\ Len(ds) = Len(cs) /\ \A m \in DOMAIN cs : m # l => ds[m] = cs[m]
  OBVIOUS
<1> HIDE DEF ds
<1>4. /\ ds[l].args = cs[l].args /\ ds[l].values = cs[l].values
      /\ ds[l].declared = cs[l].declared \cup R
      /\ Len(ds) = Len(cs) /\ \A m \in DOMAIN cs : m # l => ds[m] = cs[m]
  BY <1>2, <1>3
<1>5. [cs EXCEPT ![l].declared = @ \cup R] = ds
  BY <1>1 DEF ds
<1> QED BY <1>4, <1>5

OwnSlice(cs, s) == s.src >= Len(cs[top].args)

(* A range that is new may be allocated.                                   *)
LEMMA NewIsFresh ==
  ASSUME NEW st, NEW cs, NEW n, NEW s, MaySlice(st, cs, n, s), NewRange(cs[top], s)
  PROVE  /\ Fresh(cs, n, top, s.src, s.end) /\ s.output
         /\ \A r \in OwnRanges(cs[top]) : ~In(r, s.src)
         /\ OwnSlice(cs, s)
<1>1. /\ s.src \in Wires /\ s.end \in Wires /\ s.src \in Nat /\ s.end \in Nat /\ s.src <= s.end
      /\ s.src \in s.src .. s.end /\ top \in 1 .. n
  BY SliceFacts
<1>2. \A r \in cs[top].declared : r[1] \in Nat /\ r[2] \in Nat /\ (s.src < r[1] \/ r[2] < s.src)
  BY SliceFacts DEF NewRange, UndeclaredIn
<1>3. ~ \E r \in cs[top].declared : r[1] <= s.src /\ s.end <= r[2]
  BY <1>1, <1>2
<1>4. s.output /\ \A w \in s.src .. s.end : w >= Len(cs[top].args) /\ UndeclaredIn(cs[top], w)
  BY <1>3 DEF MaySlice, Passable, NewRange
<1>5. \A r \in OwnRanges(cs[top]) : ~In(r, s.src)
  BY <1>1, <1>2 DEF OwnRanges, In
<1>6. /\ \A w \in s.src .. s.end : w >= Len(cs[top].args) => cs[top].values[w] = Undefined
      /\ \A m \in 1 .. n : \A i \in DOMAIN cs[m].args :
           cs[m].args[i][1] = top => cs[m].args[i][2] \notin s.src .. s.end
  BY <1>4 DEF MaySlice
<1> QED BY <1>1, <1>4, <1>5, <1>6 DEF Fresh, UndeclaredIn, OwnSlice

(* Otherwise all of it is in a range that the circuit has, or is one wire. *)
LEMMA OldIsOwn ==
  ASSUME NEW st, NEW cs, NEW n, NEW s, MaySlice(st, cs, n, s), ~NewRange(cs[top], s),
         OwnSlice(cs, s)
  PROVE  \/ s.src = s.end
         \/ \E r \in OwnRanges(cs[top]) : r[1] <= s.src /\ s.end <= r[2]
<1> SUFFICES ASSUME s.src # s.end
             PROVE  \E r \in OwnRanges(cs[top]) : r[1] <= s.src /\ s.end <= r[2]
  OBVIOUS
<1>1. /\ s.src \in Nat /\ s.end \in Nat /\ s.src <= s.end
      /\ s.src \in s.src .. s.end /\ top \in 1 .. n
  BY SliceFacts
<1>2. ~UndeclaredIn(cs[top], s.src)
  BY DEF NewRange
<1>3. PICK r \in cs[top].declared : r[1] <= s.src /\ s.end <= r[2]
  BY <1>1, <1>2 DEF MaySlice, Passable
<1>4. r[1] \in Nat /\ r[2] \in Nat
  BY SliceFacts
<1>5. /\ Len(cs[top].args) \in Nat /\ Len(st[top].args) = Len(cs[top].args)
      /\ GivenRight(st[top], cs[top])
  BY <1>1, LevelParts DEF MaySlice
<1>6. ASSUME r[1] < Len(cs[top].args) PROVE FALSE
  <2>1. r[2] < Len(cs[top].args)
    BY <1>5, <1>6 DEF GivenRight, Consecutive
  <2> QED BY <1>1, <1>3, <1>4, <1>5, <2>1 DEF OwnSlice
<1>7. r[1] >= Len(cs[top].args)
  BY <1>4, <1>5, <1>6
<1> QED BY <1>3, <1>7 DEF OwnRanges

(* Handing over the caller's own wires.                                    *)
LEMMA HandOwn ==
  ASSUME NEW st, NEW cs, NEW n, NEW s, MaySlice(st, cs, n, s), OwnSlice(cs, s),
         NEW ts, NEW ds, ds[top].args = cs[top].args, NEW a \in Addresses,
         s.src # s.end => a.kind # "single",
         \A w \in s.src .. s.end : Shift(a, w - s.src) = HomeOf(ts, ds, <<top, w>>)
  PROVE  Handed(ts, ds, cs[top], s, a)
<1>1. /\ s.src \in Nat /\ s.end \in Nat /\ top \in 1 .. n /\ top \in Nat /\ top \in 1 .. top
  BY SliceFacts
<1>2. Len(cs[top].args) \in Nat
  BY <1>1, LevelParts DEF MaySlice
<1>3. ASSUME NEW i \in 1 .. s.end - s.src + 1
      PROVE  /\ Own(ds, top, MeantIn(cs[top], s.src + i - 1))
             /\ Shift(a, i - 1) = HomeOf(ts, ds, MeantIn(cs[top], s.src + i - 1))
  <2> DEFINE w == s.src + i - 1
  <2>1. w \in s.src .. s.end /\ w \in Wires /\ w \in Nat /\ i \in Nat
    BY SliceFacts
  <2>2. w - s.src = i - 1 /\ w >= s.src
    BY <1>1, <2>1
  <2> HIDE DEF w
  <2>3. w >= Len(cs[top].args)
    BY <1>1, <1>2, <2>1, <2>2, SMTT(30) DEF OwnSlice
  <2>4. MeantIn(cs[top], w) = <<top, w>>
    BY <1>2, <2>1, <2>3 DEF MeantIn
  <2>5. Own(ds, top, <<top, w>>)
    BY <1>1, <2>1, <2>3 DEF Own
  <2>6. Shift(a, i - 1) = HomeOf(ts, ds, <<top, w>>)
    BY <2>1, <2>2
  <2> QED BY <2>4, <2>5, <2>6 DEF w
<1> QED BY <1>3 DEF Handed

(* In a vector.                                                            *)
LEMMA PassVector ==
  ASSUME NEW st, NEW cs, NEW n, NEW s, MaySlice(st, cs, n, s), OwnSlice(cs, s),
         st[top].is_vector
  PROVE  /\ ~Refused(st[top], s) /\ Looked(st[top], s) = st[top]
         /\ FramesRight(st, WithNewRange(cs, s), n)
         /\ Handed(st, WithNewRange(cs, s), cs[top], s, Found(st[top], s))
<1> DEFINE k == Len(cs[top].args)
           ds == WithNewRange(cs, s)
           a == InVector(top, s.src - k)
<1>1. /\ s.src \in Nat /\ s.end \in Nat /\ top \in 1 .. n /\ top \in Nat
      /\ s.src \in Wires /\ s.end \in Wires
  BY SliceFacts
<1>2. FramesRight(st, cs, n) /\ k \in Nat /\ Len(st[top].args) = k /\ ~(s.src < k)
      /\ s.src - k \in Nat
  <2>1. FramesRight(st, cs, n) /\ k \in Nat /\ Len(st[top].args) = k
    BY <1>1, LevelParts DEF MaySlice
  <2> QED BY <1>1, <2>1 DEF OwnSlice
<1>3. FramesRight(st, ds, n) /\ ds[top].args = cs[top].args
  <2>1. CASE NewRange(cs[top], s)
    <3>1. Fresh(cs, n, top, s.src, s.end)
      BY <2>1, NewIsFresh
    <3>2. WithRange(st, top, s.src, s.end) = st
      BY DEF WithRange
    <3>3. ds = [cs EXCEPT ![top].declared = @ \cup {<<s.src, s.end>>}]
      BY <2>1 DEF WithNewRange
    <3>4. top \in DOMAIN cs
      BY <1>1, <1>2, LevelParts
    <3> HIDE DEF ds
    <3>5. ds[top].args = cs[top].args
      BY <1>2, <3>3, <3>4, Redeclared, ZenonT(60) DEF FramesRight
    <3>6. FramesRight(WithRange(st, top, s.src, s.end),
                      [cs EXCEPT ![top].declared = @ \cup {<<s.src, s.end>>}], n)
      BY <1>2, <3>1, RangeRight
    <3>7. FramesRight(st, ds, n)
      BY <3>2, <3>3, <3>6
    <3> QED BY <3>5, <3>7
  <2>2. CASE ~NewRange(cs[top], s)
    BY <1>2, <2>2 DEF WithNewRange
  <2> QED BY <2>1, <2>2
<1>4. Found(st[top], s) = a /\ Looked(st[top], s) = st[top] /\ ~Refused(st[top], s)
  BY <1>2 DEF Found, Looked, Refused
<1>5. a \in Addresses /\ a.kind # "single"
  BY <1>1, <1>2 DEF InVector, Addresses, Kinds
<1> HIDE DEF ds
<1>6. ASSUME NEW w \in s.src .. s.end
      PROVE  Shift(a, w - s.src) = HomeOf(st, ds, <<top, w>>)
  <2>1. w \in Nat /\ w \in Wires
    BY <1>1, FrameAssumption DEF Wires
  <2>2. Disjoint(OwnRanges(ds[top]))
    BY <1>1, <1>3, LevelParts
  <2>3. HomeOf(st, ds, <<top, w>>) = InVector(top, w - k)
    BY <1>3, <2>1, <2>2, HomeCases DEF HomeOf, HomeIn
  <2>4. Shift(a, w - s.src) = [a EXCEPT !.index = (s.src - k) + (w - s.src)]
    BY DEF Shift, InVector
  <2>5. (s.src - k) + (w - s.src) = w - k
    <3> HIDE DEF k, a
    <3> QED BY <1>1, <1>2, <2>1
  <2>6. [a EXCEPT !.index = w - k] = InVector(top, w - k)
    BY DEF InVector
  <2> QED BY <2>3, <2>4, <2>5, <2>6
<1>7. Handed(st, ds, cs[top], s, a)
  BY <1>3, <1>5, <1>6, HandOwn
<1> QED BY <1>3, <1>4, <1>7 DEF ds

(* In a range of a pool, wherever in it the slice begins.                  *)
LEMMA HandRange ==
  ASSUME NEW st, NEW cs, NEW n, NEW s, MaySlice(st, cs, n, s), OwnSlice(cs, s),
         NEW ts, NEW ds, FramesRight(ts, ds, n), ds[top].args = cs[top].args,
         ~ts[top].is_vector,
         NEW r \in OwnRanges(ds[top]), r[1] <= s.src, s.end <= r[2]
  PROVE  Handed(ts, ds, cs[top], s, InPool(top, r[1], s.src - r[1]))
<1> DEFINE a == InPool(top, r[1], s.src - r[1])
<1>1. /\ s.src \in Nat /\ s.end \in Nat /\ top \in 1 .. n /\ top \in Nat
      /\ s.src \in Wires /\ s.end \in Wires
  BY SliceFacts
<1>2. Disjoint(OwnRanges(ds[top]))
  BY <1>1, LevelParts
<1>3. r[1] \in Nat /\ r[2] \in Nat
  BY <1>2, FrameAssumption DEF Disjoint, Wires
<1>4. a \in Addresses /\ a.kind # "single"
  BY <1>1, <1>3 DEF InPool, Addresses, Kinds
<1>5. ASSUME NEW w \in s.src .. s.end
      PROVE  Shift(a, w - s.src) = HomeOf(ts, ds, <<top, w>>)
  <2>1. w \in Nat /\ w \in Wires
    BY <1>1, FrameAssumption DEF Wires
  <2>2. In(r, w)
    BY <1>1, <1>3, <2>1 DEF In
  <2>3. HomeOf(ts, ds, <<top, w>>) = InPool(top, r[1], w - r[1])
    BY <1>2, <2>1, <2>2, HomeCases DEF HomeOf, HomeIn
  <2>4. Shift(a, w - s.src) = [a EXCEPT !.index = (s.src - r[1]) + (w - s.src)]
    BY DEF Shift, InPool
  <2>5. (s.src - r[1]) + (w - s.src) = w - r[1]
    BY <1>1, <1>3, <2>1
  <2>6. [a EXCEPT !.index = w - r[1]] = InPool(top, r[1], w - r[1])
    BY DEF InPool
  <2> QED BY <2>3, <2>4, <2>5, <2>6
<1> HIDE DEF a
<1>6. Handed(ts, ds, cs[top], s, a)
  BY <1>4, <1>5, HandOwn
<1> QED BY <1>6 DEF a

(* allocate_slice looks at the caller, may allocate there, and has found   *)
(* the homes of the wires meant; it does not panic.                        *)
LookedFor(st, s) == [st EXCEPT ![top] = Looked(st[top], s)]

LEMMA PassOld ==
  ASSUME NEW st, NEW cs, NEW n, NEW s, MaySlice(st, cs, n, s), OwnSlice(cs, s),
         ~st[top].is_vector, ~NewRange(cs[top], s)
  PROVE  /\ ~Refused(st[top], s)
         /\ FramesRight(LookedFor(st, s), cs, n)
         /\ Handed(LookedFor(st, s), cs, cs[top], s, Found(st[top], s))
<1> DEFINE f == st[top]
           D == OwnRanges(cs[top])
           g == Cached(f, s.src)
           ts == [st EXCEPT ![top] = g]
<1>1. /\ s.src \in Nat /\ s.end \in Nat /\ top \in 1 .. n /\ top \in Nat
      /\ s.src \in Wires /\ s.end \in Wires /\ s.src <= s.end
  BY SliceFacts
<1>2. FramesRight(st, cs, n)
  BY DEF MaySlice
<1>3. /\ f \in Frames /\ Disjoint(D) /\ Matches(f, D) /\ Len(cs[top].args) \in Nat
      /\ Len(f.args) = Len(cs[top].args) /\ top \in DOMAIN st
  BY <1>1, <1>2, LevelParts
<1>4. ~(s.src < Len(f.args))
  BY <1>1, <1>3 DEF OwnSlice
<1>5. Recached(f, g) /\ Matches(g, D) /\ ~g.is_vector
  BY <1>1, <1>3, LookupKeeps, RecachedParts
<1>6. FramesRight(ts, cs, n) /\ ts[top] = g
  BY <1>1, <1>2, <1>3, <1>5, RecachedRight
<1>7. CASE \E r \in D : r[1] <= s.src /\ s.end <= r[2]
  <2>1. PICK r \in D : r[1] <= s.src /\ s.end <= r[2]
    BY <1>7
  <2>2. In(r, s.src)
    BY <1>1, <1>3, <2>1, FrameAssumption DEF In, Disjoint, Wires
  <2>3. Present(f, s.src) /\ g = [f EXCEPT !.cache = r]
    BY <1>1, <1>3, <2>2, Finds
  <2>4. g.cache[1] = r[1]
    BY <1>3, <2>3 DEF Frames
  <2>5. Found(f, s) = InPool(top, r[1], s.src - r[1])
    BY <1>4, <2>3, <2>4 DEF Found
  <2>6. Looked(f, s) = g /\ ~Refused(f, s)
    BY <1>4, <2>3 DEF Looked, Refused
  <2>7. Handed(ts, cs, cs[top], s, InPool(top, r[1], s.src - r[1]))
    BY <1>5, <1>6, <2>1, HandRange
  <2> QED BY <1>6, <2>5, <2>6, <2>7 DEF LookedFor
<1>8. CASE ~ \E r \in D : r[1] <= s.src /\ s.end <= r[2]
  <2>1. s.src = s.end
    BY <1>8, OldIsOwn
  <2>2. \A r \in D : ~In(r, s.src)
    BY <1>8, <2>1 DEF In
  <2>3. ~Present(f, s.src)
    BY <1>1, <1>3, <2>2, Finds
  <2>4. Found(f, s) = Single(top, s.src) /\ Looked(f, s) = g /\ ~Refused(f, s)
    BY <1>4, <2>1, <2>3 DEF Found, Looked, Refused
  <2>5. Single(top, s.src) \in Addresses
    BY <1>1 DEF Single, Addresses, Kinds
  <2>6. HomeOf(ts, cs, <<top, s.src>>) = Single(top, s.src)
    BY <1>1, <1>3, <1>5, <1>6, <2>2, HomeCases DEF HomeOf, HomeIn
  <2>7. ASSUME NEW w \in s.src .. s.end
        PROVE  Shift(Single(top, s.src), w - s.src) = HomeOf(ts, cs, <<top, w>>)
    <3>1. w = s.src
      BY <1>1, <2>1
    <3> QED BY <2>6, <3>1 DEF Shift, Single
  <2>8. Handed(ts, cs, cs[top], s, Single(top, s.src))
    BY <2>1, <2>5, <2>7, HandOwn
  <2> QED BY <1>6, <2>4, <2>8 DEF LookedFor
<1> QED BY <1>7, <1>8

LEMMA PassNew ==
  ASSUME NEW st, NEW cs, NEW n, NEW s, MaySlice(st, cs, n, s),
         ~st[top].is_vector, NewRange(cs[top], s)
  PROVE  /\ ~Refused(st[top], s)
         /\ FramesRight(LookedFor(st, s), WithNewRange(cs, s), n)
         /\ Handed(LookedFor(st, s), WithNewRange(cs, s), cs[top], s, Found(st[top], s))
<1> DEFINE f == st[top]
           f1 == Inserted(f, s.src, s.end)
           st1 == WithRange(st, top, s.src, s.end)
           ds == WithNewRange(cs, s)
           E == OwnRanges(ds[top])
           g == Cached(f1, s.src)
           ts == [st EXCEPT ![top] = g]
           r == <<s.src, s.end>>
<1>1. /\ s.src \in Nat /\ s.end \in Nat /\ top \in 1 .. n /\ top \in Nat
      /\ s.src \in Wires /\ s.end \in Wires /\ s.src <= s.end
  BY SliceFacts
<1>2. FramesRight(st, cs, n) /\ cs \in Seq(Circuits) /\ st \in Seq(Frames)
  BY DEF MaySlice, FramesRight
<1>3. /\ f \in Frames /\ Disjoint(OwnRanges(cs[top])) /\ Matches(f, OwnRanges(cs[top]))
      /\ Len(cs[top].args) \in Nat
      /\ Len(f.args) = Len(cs[top].args) /\ top \in DOMAIN st /\ top \in DOMAIN cs
  BY <1>1, <1>2, LevelParts
<1>4. /\ Fresh(cs, n, top, s.src, s.end) /\ s.output /\ OwnSlice(cs, s)
      /\ \A q \in OwnRanges(cs[top]) : ~In(q, s.src)
  BY NewIsFresh
<1>5. ~(s.src < Len(f.args)) /\ s.src >= Len(cs[top].args) /\ s.src # s.end
  BY <1>1, <1>3, <1>4 DEF OwnSlice, NewRange
<1>6. ~Present(f, s.src)
  BY <1>1, <1>3, <1>4, Finds
<1>7. Found(f, s) = InPool(top, s.src, 0) /\ Looked(f, s) = g /\ ~Refused(f, s)
  BY <1>4, <1>5, <1>6 DEF Found, Looked, Refused
<1>8. ds = [cs EXCEPT ![top].declared = @ \cup {r}]
  BY DEF WithNewRange
<1> HIDE DEF ds
<1>9. ds[top].args = cs[top].args /\ ds[top].declared = cs[top].declared \cup {r}
  BY <1>2, <1>3, <1>8, Redeclared, ZenonT(60)
<1>10. FramesRight(st1, ds, n)
  <2>1. FramesRight(st1, [cs EXCEPT ![top].declared = @ \cup {r}], n)
    BY <1>2, <1>4, RangeRight
  <2> QED BY <1>8, <2>1
<1>11. st1 = [st EXCEPT ![top] = f1]
  BY DEF WithRange
<1>12. st1[top] = f1 /\ f1 \in Frames /\ ~f1.is_vector
  BY <1>1, <1>3, <1>11, InsertedParts
<1>13. Disjoint(E) /\ Matches(f1, E)
  <2>1. Disjoint(E) /\ Matches(st1[top], E)
    BY <1>1, <1>10, LevelParts
  <2> QED BY <1>12, <2>1
<1> HIDE DEF E, f1
<1>14. Recached(f1, g) /\ Matches(g, E)
  BY <1>1, <1>12, <1>13, LookupKeeps
<1>15. ~g.is_vector /\ g \in Frames
  BY <1>12, <1>14, RecachedParts
<1> HIDE DEF g
<1>16. FramesRight([st1 EXCEPT ![top] = g], ds, n)
  <2>1. Recached(st1[top], g) /\ Matches(g, OwnRanges(ds[top]))
    BY <1>12, <1>14 DEF E
  <2> HIDE DEF st1
  <2> QED BY <1>1, <1>10, <2>1, RecachedRight
<1>17. [st1 EXCEPT ![top] = g] = ts /\ ts[top] = g
  BY <1>2, <1>3, <1>11
<1>18. FramesRight(ts, ds, n) /\ ~ts[top].is_vector
  BY <1>15, <1>16, <1>17
<1>19. r \in OwnRanges(ds[top]) /\ r[1] = s.src /\ r[2] = s.end
  BY <1>5, <1>9 DEF OwnRanges
<1> HIDE DEF ts, r
<1>20. Handed(ts, ds, cs[top], s, InPool(top, r[1], s.src - r[1]))
  <2>1. r[1] <= s.src /\ s.end <= r[2]
    BY <1>1, <1>19
  <2> QED BY <1>4, <1>9, <1>18, <1>19, <2>1, HandRange
<1>21. InPool(top, r[1], s.src - r[1]) = InPool(top, s.src, 0)
  BY <1>1, <1>19
<1>22. Handed(ts, ds, cs[top], s, Found(f, s)) /\ LookedFor(st, s) = ts
  BY <1>7, <1>20, <1>21 DEF LookedFor, ts
<1> QED BY <1>7, <1>18, <1>22 DEF ds

LEMMA LookRight ==
  ASSUME NEW st, NEW cs, NEW n, NEW s, MaySlice(st, cs, n, s)
  PROVE  /\ ~Refused(st[top], s)
         /\ FramesRight(LookedFor(st, s), WithNewRange(cs, s), n)
         /\ Handed(LookedFor(st, s), WithNewRange(cs, s), cs[top], s, Found(st[top], s))
<1>1. FramesRight(st, cs, n) /\ st \in Seq(Frames) /\ top \in 1 .. n
  BY DEF MaySlice, FramesRight
<1>2. ASSUME Looked(st[top], s) = st[top] PROVE LookedFor(st, s) = st
  BY <1>1, <1>2, LevelParts DEF LookedFor
<1>3. CASE ~OwnSlice(cs, s)
  <2>1. s.src < Len(cs[top].args)
    BY <1>1, <1>3, SliceFacts, LevelParts DEF OwnSlice
  <2>2. ~NewRange(cs[top], s) /\ WithNewRange(cs, s) = cs
    BY <2>1, PassArguments DEF WithNewRange
  <2> QED BY <1>1, <1>2, <2>1, <2>2, PassArguments
<1>4. CASE OwnSlice(cs, s) /\ st[top].is_vector
  BY <1>2, <1>4, PassVector
<1>5. CASE ~st[top].is_vector /\ NewRange(cs[top], s)
  BY <1>5, PassNew
<1>6. CASE OwnSlice(cs, s) /\ ~st[top].is_vector /\ ~NewRange(cs[top], s)
  <2>1. WithNewRange(cs, s) = cs
    BY <1>6 DEF WithNewRange
  <2> QED BY <1>6, <2>1, PassOld
<1> QED BY <1>3, <1>4, <1>5, <1>6

(* One slice: the callee is given the homes of the wires it stands for.    *)
MeantBy(c, s) == [i \in 1 .. s.end - s.src + 1 |-> MeantIn(c, s.src + i - 1)]

LEMMA SliceRight ==
  ASSUME NEW st, NEW cs, NEW s, MaySlice(st, cs, top + 1, s), Untouched(cs[top + 1])
  PROVE  LET acc == Slice([stack |-> st, panicked |-> FALSE], s)
             W == MeantBy(cs[top], s)
         IN  /\ ~acc.panicked
             /\ FramesRight(acc.stack, [WithNewRange(cs, s) EXCEPT ![top + 1] = GivenMore(cs[top + 1], W)], top + 1)
             /\ Untouched(GivenMore(cs[top + 1], W))
             /\ W \in Seq(Nat \X Wires) /\ Len(W) = s.end - s.src + 1
<1> DEFINE n == top + 1
           len == s.end - s.src + 1
           ts == LookedFor(st, s)
           ds == WithNewRange(cs, s)
           a == Found(st[top], s)
           A == [i \in 1 .. len |-> Shift(a, i - 1)]
           W == MeantBy(cs[top], s)
           acc == Slice([stack |-> st, panicked |-> FALSE], s)
<1>1. /\ s.src \in Nat /\ s.end \in Nat /\ s.src <= s.end /\ top \in Nat /\ top \in 1 .. n
      /\ len \in Nat /\ len >= 1
  BY SliceFacts
<1>2. /\ ~Refused(st[top], s) /\ FramesRight(ts, ds, n) /\ Handed(ts, ds, cs[top], s, a)
  BY LookRight
<1>3. /\ st \in Seq(Frames) /\ cs \in Seq(Circuits) /\ n <= Len(st) /\ Len(cs) = n
      /\ top \in DOMAIN st /\ n \in DOMAIN st /\ top \in DOMAIN cs /\ n \in DOMAIN cs /\ n # top
  <2>1. /\ st \in Seq(Frames) /\ cs \in Seq(Circuits) /\ n <= Len(st) /\ Len(cs) = n
    BY DEF MaySlice, FramesRight
  <2> QED BY <1>1, <2>1
<1>4. ds[n] = cs[n]
  <2>1. CASE NewRange(cs[top], s)
    BY <1>3, <2>1, Redeclared DEF WithNewRange
  <2>2. CASE ~NewRange(cs[top], s)
    BY <2>2 DEF WithNewRange
  <2> QED BY <2>1, <2>2
<1>5. acc.stack = [st EXCEPT ![top] = Looked(st[top], s), ![n].args = @ \o A] /\ ~acc.panicked
  <2>1. Count(s) = len
    BY DEF Count
  <2> QED BY <1>2, <2>1 DEF Slice
<1>6. acc.stack = [ts EXCEPT ![n].args = @ \o A]
  <2> HIDE DEF A
  <2>1. [st EXCEPT ![top] = Looked(st[top], s), ![n].args = @ \o A] = [ts EXCEPT ![n].args = @ \o A]
    BY <1>3 DEF LookedFor
  <2> HIDE DEF acc, ts
  <2> QED BY <1>5, <2>1
<1>7. /\ a \in Addresses /\ (s.src # s.end => a.kind # "single")
      /\ \A i \in 1 .. len : /\ Own(ds, top, MeantIn(cs[top], s.src + i - 1))
                             /\ Shift(a, i - 1) = HomeOf(ts, ds, MeantIn(cs[top], s.src + i - 1))
  BY <1>2 DEF Handed
<1> HIDE DEF a, ts, ds, acc
<1>8. \A i \in 1 .. len : i \in Nat /\ i - 1 \in Nat
  <2> HIDE DEF len
  <2> QED BY <1>1
<1>9. A \in Seq(Addresses) /\ Len(A) = len /\ A[1] = a /\ \A i \in 1 .. len : A[i] = Shift(A[1], i - 1)
  <2> HIDE DEF len
  <2>1. \A i \in 1 .. len : Shift(a, i - 1) \in Addresses
    BY <1>7, <1>8, Shifted
  <2>2. A \in Seq(Addresses) /\ Len(A) = len
    BY <1>1, <2>1
  <2>3. A[1] = a
    <3>1. 1 \in 1 .. len /\ 1 - 1 = 0
      BY <1>1
    <3>2. A[1] = Shift(a, 0)
      BY <3>1
    <3> HIDE DEF A
    <3> QED BY <1>7, <3>2, Shifted
  <2>4. \A i \in 1 .. len : A[i] = Shift(a, i - 1)
    OBVIOUS
  <2> HIDE DEF A
  <2> QED BY <2>2, <2>3, <2>4
<1>10. W \in Seq(Nat \X Wires) /\ Len(W) = len /\ \A i \in 1 .. len : W[i] = MeantIn(cs[top], s.src + i - 1)
  <2>1. \A i \in 1 .. len : MeantIn(cs[top], s.src + i - 1) \in Nat \X Wires
    <3>1. \A m \in 1 .. top : m \in Nat
      BY <1>1
    <3> QED BY <1>7, <3>1 DEF Own
  <2>2. W = [i \in 1 .. len |-> MeantIn(cs[top], s.src + i - 1)]
    BY DEF MeantBy
  <2> HIDE DEF W, len
  <2> QED BY <1>1, <2>1, <2>2
<1>11. s.src = s.end => len = 1
  BY <1>1
<1> HIDE DEF A, W, len
<1>12. /\ FramesRight([ts EXCEPT ![n].args = @ \o A], [ds EXCEPT ![n] = GivenMore(ds[n], W)], n)
       /\ Untouched(GivenMore(ds[n], W))
  <2>1. \A i \in 1 .. Len(W) : /\ Own(ds, n - 1, W[i]) /\ A[i] = HomeOf(ts, ds, W[i])
                               /\ A[i] = Shift(A[1], i - 1)
    <3>1. n - 1 = top
      BY <1>1
    <3> QED BY <1>7, <1>9, <1>10, <3>1
  <2>2. Len(W) > 1 => A[1].kind # "single"
    BY <1>1, <1>7, <1>9, <1>10, <1>11
  <2>3. Len(A) = Len(W) /\ Len(W) >= 1 /\ n >= 1 /\ Untouched(ds[n])
    BY <1>1, <1>4, <1>9, <1>10
  <2> HIDE DEF n
  <2> QED BY <1>2, <1>9, <1>10, <2>1, <2>2, <2>3, PassRight
<1> QED BY <1>4, <1>5, <1>6, <1>10, <1>12 DEF acc, ds, W, len

(* How many arguments there are after so many slices.                      *)
SlicesOf(slices) == slices \in Seq(Slices) /\ \A k \in DOMAIN slices : slices[k].src <= slices[k].end

LEMMA OffsetSolves ==
  ASSUME NEW slices, SlicesOf(slices)
  PROVE  Offset(slices) = [k \in 0 .. Len(slices) |->
                             IF k = 0 THEN 0 ELSE Offset(slices)[k - 1] + Count(slices[k])]
<1> DEFINE Counts(o, n) == o = [k \in 0 .. n |-> IF k = 0 THEN 0 ELSE o[k - 1] + Count(slices[k])]
           S == {n \in Nat : \E o : Counts(o, n)}
<1>1. 0 \in S
  <2> DEFINE o == [k \in 0 .. 0 |-> 0]
  <2>1. \A k \in 0 .. 0 : k = 0
    OBVIOUS
  <2>2. Counts(o, 0)
    BY <2>1
  <2> QED BY <2>2
<1>2. ASSUME NEW n \in S PROVE n + 1 \in S
  <2>1. PICK o : Counts(o, n)
    OBVIOUS
  <2> DEFINE u == [k \in 0 .. n + 1 |-> IF k \in 0 .. n THEN o[k] ELSE o[n] + Count(slices[n + 1])]
  <2>2. \A k \in 0 .. n + 1 : k # 0 => k - 1 \in 0 .. n /\ k - 1 \in 0 .. n + 1 /\ (k \in 0 .. n \/ (k = n + 1 /\ k - 1 = n))
    OBVIOUS
  <2>3. \A k \in 0 .. n : o[k] = IF k = 0 THEN 0 ELSE o[k - 1] + Count(slices[k])
    BY <2>1
  <2>4. \A k \in 0 .. n : u[k] = o[k]
    OBVIOUS
  <2>5. u[n + 1] = o[n] + Count(slices[n + 1]) /\ 0 \in 0 .. n /\ n + 1 # 0 /\ n + 1 \in 0 .. n + 1
    OBVIOUS
  <2>6. u = [k \in 0 .. n + 1 |-> u[k]]
    OBVIOUS
  <2> HIDE DEF u
  <2>7. \A k \in 0 .. n + 1 : u[k] = IF k = 0 THEN 0 ELSE u[k - 1] + Count(slices[k])
    BY <2>2, <2>3, <2>4, <2>5
  <2>8. Counts(u, n + 1)
    BY <2>6, <2>7
  <2> HIDE DEF Counts
  <2> QED BY <2>8
<1>3. Len(slices) \in S
  <2>1. S = Nat
    <3> HIDE DEF Counts
    <3> QED BY <1>1, <1>2, ByInduction
  <2>2. Len(slices) \in Nat
    BY DEF SlicesOf
  <2> HIDE DEF S
  <2> QED BY <2>1, <2>2
<1>4. \E o : Counts(o, Len(slices))
  BY <1>3
<1>5. Offset(slices) = CHOOSE o : Counts(o, Len(slices))
  BY Zenon DEF Offset
<1>6. Counts(Offset(slices), Len(slices))
  <2> HIDE DEF Counts
  <2> QED BY <1>4, <1>5
<1> QED BY <1>6

LEMMA OffsetParts ==
  ASSUME NEW slices, SlicesOf(slices)
  PROVE  /\ Offset(slices)[0] = 0
         /\ \A k \in 1 .. Len(slices) :
              /\ Offset(slices)[k] = Offset(slices)[k - 1] + (slices[k].end - slices[k].src + 1)
              /\ slices[k].src \in Nat /\ slices[k].end \in Nat /\ slices[k].src <= slices[k].end
              /\ slices[k] \in Slices
         /\ \A k \in 0 .. Len(slices) : Offset(slices)[k] \in Nat
         /\ \A j, k \in 0 .. Len(slices) : j <= k => Offset(slices)[j] <= Offset(slices)[k]
<1> DEFINE o == Offset(slices)
           len == Len(slices)
<1>0. len \in Nat /\ DOMAIN slices = 1 .. len
  BY DEF SlicesOf
<1>1. \A k \in 1 .. len : /\ slices[k].src \in Nat /\ slices[k].end \in Nat
                          /\ slices[k].src <= slices[k].end /\ slices[k] \in Slices
  <2>1. \A k \in 1 .. len : slices[k] \in Slices /\ slices[k].src <= slices[k].end
    BY <1>0 DEF SlicesOf
  <2>2. \A s \in Slices : s.src \in Nat /\ s.end \in Nat
    BY FrameAssumption DEF Slices, Wires
  <2> QED BY <2>1, <2>2
<1>2. o[0] = 0 /\ \A k \in 1 .. len : o[k] = o[k - 1] + (slices[k].end - slices[k].src + 1)
  <2>1. o = [k \in 0 .. len |-> IF k = 0 THEN 0 ELSE o[k - 1] + Count(slices[k])]
    BY OffsetSolves
  <2>2. 0 \in 0 .. len /\ \A k \in 1 .. len : k \in 0 .. len /\ k # 0
    BY <1>0
  <2> HIDE DEF o, len
  <2> QED BY <2>1, <2>2 DEF Count
<1> HIDE DEF o, len
<1>3. \A k \in Nat : k <= len => /\ o[k] \in Nat
                                 /\ \A j \in 0 .. k : o[j] \in Nat /\ o[j] <= o[k]
  <2> DEFINE S == {k \in Nat : k <= len => o[k] \in Nat /\ \A j \in 0 .. k : o[j] \in Nat /\ o[j] <= o[k]}
  <2>1. 0 \in S
    <3>1. \A j \in 0 .. 0 : j = 0
      OBVIOUS
    <3> QED BY <1>2, <3>1
  <2>2. ASSUME NEW k \in S PROVE k + 1 \in S
    <3> SUFFICES ASSUME k + 1 <= len
                 PROVE  o[k + 1] \in Nat /\ \A j \in 0 .. k + 1 : o[j] \in Nat /\ o[j] <= o[k + 1]
      OBVIOUS
    <3>1. k + 1 \in 1 .. len /\ (k + 1) - 1 = k /\ k <= len
      BY <1>0
    <3>2. o[k + 1] = o[k] + (slices[k + 1].end - slices[k + 1].src + 1)
          /\ slices[k + 1].end - slices[k + 1].src + 1 \in Nat
      BY <1>1, <1>2, <3>1
    <3>3. o[k] \in Nat /\ \A j \in 0 .. k : o[j] \in Nat /\ o[j] <= o[k]
      BY <3>1
    <3>5. o[k + 1] \in Nat /\ o[k] <= o[k + 1]
      BY <3>2, <3>3
    <3>6. ASSUME NEW j \in 0 .. k + 1 PROVE o[j] \in Nat /\ o[j] <= o[k + 1]
      <4>1. CASE j = k + 1
        BY <3>5, <4>1
      <4>2. CASE j \in 0 .. k
        <5>1. o[j] \in Nat /\ o[j] <= o[k]
          BY <3>3, <4>2
        <5> QED BY <3>3, <3>5, <5>1
      <4> QED BY <4>1, <4>2
    <3> QED BY <3>5, <3>6
  <2>3. S = Nat
    BY <2>1, <2>2, ByInduction
  <2> QED BY <2>3
<1>4. \A k \in 0 .. len : o[k] \in Nat
  BY <1>0, <1>3
<1>5. \A j, k \in 0 .. len : j <= k => o[j] <= o[k]
  <2>1. \A j, k \in 0 .. len : j <= k => j \in 0 .. k /\ k \in Nat /\ k <= len
    BY <1>0
  <2> QED BY <1>3, <2>1
<1> QED BY <1>1, <1>2, <1>4, <1>5 DEF o, len

(* An argument comes from one slice.                                       *)
LEMMA FromRight ==
  ASSUME NEW slices, SlicesOf(slices), NEW k \in 1 .. Len(slices), NEW m \in Nat,
         Offset(slices)[k - 1] < m, m <= Offset(slices)[k]
  PROVE  From(slices, m) = k
<1> DEFINE o == Offset(slices)
           len == Len(slices)
           j == From(slices, m)
<1>1. len \in Nat /\ DOMAIN slices = 1 .. len
  BY DEF SlicesOf
<1>2. j \in 1 .. len /\ o[j - 1] < m /\ m <= o[j]
  BY <1>1 DEF From
<1>3. /\ \A i \in 0 .. len : o[i] \in Nat
      /\ \A i, l \in 0 .. len : i <= l => o[i] <= o[l]
  BY OffsetParts
<1> HIDE DEF o, j
<1>4. k \in Nat /\ j \in Nat /\ k - 1 \in 0 .. len /\ j - 1 \in 0 .. len /\ k \in 0 .. len /\ j \in 0 .. len
  BY <1>1, <1>2
<1>5. ASSUME j < k PROVE FALSE
  <2>1. o[j] <= o[k - 1]
    BY <1>3, <1>4, <1>5
  <2>2. o[k - 1] < m
    BY DEF o
  <2> QED BY <1>2, <1>3, <1>4, <2>1, <2>2
<1>6. ASSUME k < j PROVE FALSE
  <2>1. o[k] <= o[j - 1]
    BY <1>3, <1>4, <1>6
  <2>2. m <= o[k]
    BY DEF o
  <2> QED BY <1>2, <1>3, <1>4, <2>1, <2>2
<1>7. j = k
  BY <1>4, <1>5, <1>6
<1> QED BY <1>7 DEF j

(* The frames after each slice.                                            *)
LEMMA SlicedSolves ==
  ASSUME NEW slices, SlicesOf(slices), NEW is_vector \in BOOLEAN
  PROVE  Sliced(slices, is_vector) =
           [k \in 0 .. Len(slices) |->
              IF k = 0 THEN [stack |-> Pushed(is_vector), panicked |-> FALSE]
              ELSE Slice(Sliced(slices, is_vector)[k - 1], slices[k])]
<1> DEFINE a == [stack |-> Pushed(is_vector), panicked |-> FALSE]
           Counts(o, n) == o = [k \in 0 .. n |-> IF k = 0 THEN a ELSE Slice(o[k - 1], slices[k])]
           S == {n \in Nat : \E o : Counts(o, n)}
<1>5. Sliced(slices, is_vector) = CHOOSE o : Counts(o, Len(slices))
  BY Zenon DEF Sliced
<1> HIDE DEF a
<1>1. 0 \in S
  <2> DEFINE o == [k \in 0 .. 0 |-> a]
  <2>1. \A k \in 0 .. 0 : k = 0
    OBVIOUS
  <2>2. Counts(o, 0)
    BY <2>1
  <2> QED BY <2>2
<1>2. ASSUME NEW n \in S PROVE n + 1 \in S
  <2>1. PICK o : Counts(o, n)
    OBVIOUS
  <2> DEFINE u == [k \in 0 .. n + 1 |-> IF k \in 0 .. n THEN o[k] ELSE Slice(o[n], slices[n + 1])]
  <2>2. \A k \in 0 .. n + 1 : k # 0 => k - 1 \in 0 .. n /\ k - 1 \in 0 .. n + 1 /\ (k \in 0 .. n \/ (k = n + 1 /\ k - 1 = n))
    OBVIOUS
  <2>3. \A k \in 0 .. n : o[k] = IF k = 0 THEN a ELSE Slice(o[k - 1], slices[k])
    BY <2>1
  <2>4. \A k \in 0 .. n : u[k] = o[k]
    OBVIOUS
  <2>5. u[n + 1] = Slice(o[n], slices[n + 1]) /\ 0 \in 0 .. n /\ n + 1 # 0 /\ n + 1 \in 0 .. n + 1
    OBVIOUS
  <2>6. u = [k \in 0 .. n + 1 |-> u[k]]
    OBVIOUS
  <2> HIDE DEF u
  <2>7. \A k \in 0 .. n + 1 : u[k] = IF k = 0 THEN a ELSE Slice(u[k - 1], slices[k])
    BY <2>2, <2>3, <2>4, <2>5
  <2>8. Counts(u, n + 1)
    BY <2>6, <2>7
  <2> HIDE DEF Counts
  <2> QED BY <2>8
<1>3. Len(slices) \in S
  <2>1. S = Nat
    <3> HIDE DEF Counts
    <3> QED BY <1>1, <1>2, ByInduction
  <2>2. Len(slices) \in Nat
    BY DEF SlicesOf
  <2> HIDE DEF S
  <2> QED BY <2>1, <2>2
<1>4. \E o : Counts(o, Len(slices))
  BY <1>3
<1>6. Counts(Sliced(slices, is_vector), Len(slices))
  <2> HIDE DEF Counts
  <2> QED BY <1>4, <1>5
<1> QED BY <1>6 DEF a

(* A call under way: the frames and the circuits after so many slices.     *)
MayCall(slices) == /\ SlicesOf(slices) /\ slices \in Calls
                   /\ \A k \in DOMAIN slices : MayPass(slices[k])
DeclaredBy(slices, k) ==
  {<<slices[j].src, slices[j].end>> : j \in {i \in 1 .. k : NewRange(circuit[top], slices[i])}}
PassedBy(slices, k, args) ==
  /\ Len(args) = Offset(slices)[k]
  /\ \A m \in 1 .. Offset(slices)[k] : \E j \in 1 .. k :
       /\ Offset(slices)[j - 1] < m /\ m <= Offset(slices)[j]
       /\ args[m] = Meant(slices[j].src + m - Offset(slices)[j - 1] - 1)
CallState(slices, k, st, cs) ==
  /\ FramesRight(st, cs, top + 1)
  /\ \A l \in 1 .. top : l # top => cs[l] = circuit[l]
  /\ cs[top].args = circuit[top].args /\ cs[top].values = circuit[top].values
  /\ cs[top].declared = circuit[top].declared \cup DeclaredBy(slices, k)
  /\ Untouched(cs[top + 1])
  /\ cs[top + 1].declared = {<<Offset(slices)[j - 1], Offset(slices)[j] - 1>> : j \in 1 .. k}
  /\ PassedBy(slices, k, cs[top + 1].args)

(* A new range is an output that nobody else has.                          *)
LEMMA NewIsOutput ==
  ASSUME NEW s \in Slices, s.src <= s.end, MayPass(s), NewRange(circuit[top], s),
         \A r \in circuit[top].declared : r[1] \in Nat /\ r[2] \in Nat
  PROVE  s.output /\ \A w \in s.src .. s.end : w >= Len(circuit[top].args) /\ Undeclared(w)
<1>1. s.src \in Nat /\ s.end \in Nat
  BY FrameAssumption DEF Slices, Wires
<1>2. ~ \E r \in circuit[top].declared : r[1] <= s.src /\ s.end <= r[2]
  BY <1>1 DEF NewRange, UndeclaredIn
<1> QED BY <1>2 DEF MayPass, NewRange

LEMMA OutputsApart ==
  ASSUME NEW slices, MayCall(slices), NEW i \in DOMAIN slices, NEW j \in DOMAIN slices, i # j,
         slices[i].output, slices[j].output
  PROVE  slices[i].end < slices[j].src \/ slices[j].end < slices[i].src
  BY FrameAssumption DEF MayCall

(* The wires meant by the slices of a call.                                *)
LEMMA MeantParts ==
  ASSUME FramesRight(stack, circuit, top), top >= 1, NEW w \in Wires
  PROVE  /\ Own(circuit, top, Meant(w))
         /\ Meant(w) = MeantIn(circuit[top], w)
         /\ w >= Len(circuit[top].args) => Meant(w) = <<top, w>>
         /\ Meant(w)[1] = top => Meant(w) = <<top, w>>
<1>1. top \in 1 .. top /\ top \in Nat /\ w \in Nat
  BY FrameAssumption DEF FramesRight, Wires
<1>2. Meant(w) = MeantIn(circuit[top], w)
  BY DEF Meant, MeantIn
<1>3. Len(circuit[top].args) \in Nat /\ DOMAIN circuit[top].args = 1 .. Len(circuit[top].args)
  BY <1>1, LevelParts
<1>4. CASE w < Len(circuit[top].args)
  <2>1. w + 1 \in DOMAIN circuit[top].args
    BY <1>1, <1>3, <1>4
  <2>2. Meant(w) = circuit[top].args[w + 1]
    BY <1>2, <1>4 DEF MeantIn
  <2>3. Own(circuit, top, circuit[top].args[w + 1]) /\ circuit[top].args[w + 1][1] < top
    BY <1>1, <2>1, ArgsOwn
  <2>4. circuit[top].args[w + 1][1] # top
    BY <1>1, <2>3
  <2>5. ~(w >= Len(circuit[top].args))
    BY <1>1, <1>3, <1>4
  <2> QED BY <1>2, <2>2, <2>3, <2>4, <2>5
<1>5. CASE ~(w < Len(circuit[top].args))
  <2>1. Meant(w) = <<top, w>>
    BY <1>2, <1>5 DEF MeantIn
  <2>2. w >= Len(circuit[top].args)
    BY <1>1, <1>3, <1>5
  <2>3. Own(circuit, top, <<top, w>>)
    BY <1>1, <2>2 DEF Own
  <2> QED BY <1>2, <2>1, <2>3
<1> QED BY <1>4, <1>5

(* The next slice of a call may be passed.                                 *)
LEMMA NextMaySlice ==
  ASSUME FramesRight(stack, circuit, top), top >= 1, NEW slices, MayCall(slices),
         NEW k \in 1 .. Len(slices), NEW st, NEW cs, CallState(slices, k - 1, st, cs)
  PROVE  /\ MaySlice(st, cs, top + 1, slices[k])
         /\ NewRange(cs[top], slices[k]) <=> NewRange(circuit[top], slices[k])
<1> DEFINE s == slices[k]
<1>1. /\ top \in Nat /\ top \in 1 .. top /\ top \in 1 .. top + 1
      /\ k \in Nat /\ k \in DOMAIN slices /\ \A j \in 1 .. k - 1 : j \in DOMAIN slices /\ j # k
  BY DEF FramesRight, MayCall, SlicesOf
<1>2. \A j \in DOMAIN slices : /\ slices[j] \in Slices /\ slices[j].src <= slices[j].end /\ MayPass(slices[j])
                               /\ slices[j].src \in Nat /\ slices[j].end \in Nat
  <2>1. \A j \in DOMAIN slices : slices[j] \in Slices /\ slices[j].src <= slices[j].end /\ MayPass(slices[j])
    BY DEF MayCall, SlicesOf
  <2>2. \A q \in Slices : q.src \in Nat /\ q.end \in Nat
    BY FrameAssumption DEF Slices, Wires
  <2> QED BY <2>1, <2>2
<1>3. \A r \in circuit[top].declared : r[1] \in Nat /\ r[2] \in Nat
  <2>1. circuit[top] \in Circuits
    BY <1>1, LevelParts
  <2> QED BY <2>1 DEF Circuits
<1>4. /\ FramesRight(st, cs, top + 1)
      /\ cs[top].args = circuit[top].args /\ cs[top].values = circuit[top].values
      /\ cs[top].declared = circuit[top].declared \cup DeclaredBy(slices, k - 1)
  BY DEF CallState
<1>5. ASSUME s.output, NEW w \in s.src .. s.end, Undeclared(w)
      PROVE  UndeclaredIn(cs[top], w)
  <2>1. \A r \in circuit[top].declared : w < r[1] \/ r[2] < w
    BY <1>5 DEF Undeclared
  <2>2. ASSUME NEW j \in 1 .. k - 1, NewRange(circuit[top], slices[j])
        PROVE  w < slices[j].src \/ slices[j].end < w
    <3>1. slices[j].output
      BY <1>1, <1>2, <1>3, <2>2, NewIsOutput
    <3>2. slices[j].end < s.src \/ s.end < slices[j].src
      BY <1>1, <1>5, <3>1, OutputsApart
    <3> QED BY <1>1, <1>2, <3>2, SMTT(30)
  <2>3. \A r \in DeclaredBy(slices, k - 1) : w < r[1] \/ r[2] < w
    BY <2>2 DEF DeclaredBy
  <2> QED BY <1>4, <2>1, <2>3 DEF UndeclaredIn
<1>6. NewRange(cs[top], s) <=> NewRange(circuit[top], s)
  <2>1. ASSUME NewRange(cs[top], s) PROVE NewRange(circuit[top], s)
    BY <1>4, <2>1 DEF NewRange, UndeclaredIn
  <2>2. ASSUME NewRange(circuit[top], s) PROVE NewRange(cs[top], s)
    <3>1. s.output /\ \A w \in s.src .. s.end : Undeclared(w)
      BY <1>1, <1>2, <1>3, <2>2, NewIsOutput
    <3>2. s.src \in s.src .. s.end
      BY <1>1, <1>2
    <3>3. UndeclaredIn(cs[top], s.src)
      BY <1>5, <3>1, <3>2
    <3> QED BY <2>2, <3>3 DEF NewRange
  <2> QED BY <2>1, <2>2
<1>7. Passable(cs[top], s)
  <2>1. CASE s.src = s.end
    BY <2>1 DEF Passable
  <2>2. CASE \E r \in circuit[top].declared : r[1] <= s.src /\ s.end <= r[2]
    BY <1>4, <2>2 DEF Passable
  <2>3. CASE s.output /\ \A w \in s.src .. s.end : w >= Len(circuit[top].args) /\ Undeclared(w)
    BY <1>4, <1>5, <2>3 DEF Passable
  <2>4. MayPass(s)
    BY <1>1, <1>2
  <2> QED BY <2>1, <2>2, <2>3, <2>4 DEF MayPass
<1>8. ASSUME s.output, NEW w \in s.src .. s.end
      PROVE  /\ Given(Meant(w)) = Undefined /\ w \in Wires
             /\ w >= Len(cs[top].args) => cs[top].values[w] = Undefined
  <2>1. w \in Wires
    BY <1>1, <1>2, FrameAssumption DEF Slices, Wires
  <2>2. Given(Meant(w)) = Undefined
    BY <1>1, <1>2, <1>8 DEF MayPass
  <2>3. w >= Len(circuit[top].args) => Meant(w) = <<top, w>>
    BY <2>1, MeantParts
  <2> QED BY <1>4, <2>1, <2>2, <2>3 DEF Given
<1>9. ASSUME s.output, NEW m \in 1 .. top + 1, NEW i \in DOMAIN cs[m].args, cs[m].args[i][1] = top,
             cs[m].args[i][2] \in s.src .. s.end
      PROVE  FALSE
  <2>1. cs[m].args[i][1] < m
    BY <1>4, ArgsOwn
  <2>2. m = top + 1
    BY <1>1, <1>9, <2>1
  <2>3. DOMAIN cs[top + 1].args = 1 .. Offset(slices)[k - 1]
    <3>1. top + 1 \in 1 .. top + 1
      BY <1>1
    <3>2. DOMAIN cs[top + 1].args = 1 .. Len(cs[top + 1].args)
      BY <1>4, <3>1, LevelParts
    <3> QED BY <3>2 DEF CallState, PassedBy
  <2>4. PICK j \in 1 .. k - 1 :
          /\ Offset(slices)[j - 1] < i /\ i <= Offset(slices)[j]
          /\ cs[top + 1].args[i] = Meant(slices[j].src + i - Offset(slices)[j - 1] - 1)
    BY <2>2, <2>3 DEF CallState, PassedBy
  <2> DEFINE o == Offset(slices)[j - 1]
             w == slices[j].src + i - o - 1
  <2>5. /\ Offset(slices)[j] = o + (slices[j].end - slices[j].src + 1) /\ o \in Nat
        /\ Offset(slices)[k - 1] \in Nat
    <3>1. SlicesOf(slices) /\ Len(slices) \in Nat
      BY DEF MayCall, SlicesOf
    <3>2. j \in 1 .. Len(slices) /\ j - 1 \in 0 .. Len(slices) /\ k - 1 \in 0 .. Len(slices)
      BY <1>1, <3>1
    <3> QED BY <3>1, <3>2, OffsetParts
  <2>6. i \in Nat /\ slices[j].src \in Nat /\ slices[j].end \in Nat /\ slices[j].src <= slices[j].end
    BY <1>1, <1>2, <2>2, <2>3, <2>5
  <2>a. o < i /\ i <= o + (slices[j].end - slices[j].src + 1)
    BY <2>4, <2>5
  <2>b. w = slices[j].src + i - o - 1 /\ o \in Nat
    BY <2>5
  <2> HIDE DEF w, o
  <2>7. w \in slices[j].src .. slices[j].end
    <3>1. \A a, b, c, d \in Nat : c < d /\ d <= c + (b - a + 1) => a + d - c - 1 \in a .. b
      OBVIOUS
    <3> QED BY <2>6, <2>a, <2>b, <3>1
  <2>8. w \in Wires
    <3>1. slices[j].src \in Wires /\ slices[j].end \in Wires
      BY <1>1, <1>2 DEF Slices
    <3>2. \A a, b \in Wires : a .. b \subseteq Wires
      BY FrameAssumption DEF Wires
    <3> QED BY <2>7, <3>1, <3>2
  <2>9. Meant(w) = cs[m].args[i]
    BY <2>2, <2>4, <2>b DEF o
  <2>10. Meant(w) = <<top, w>>
    BY <1>9, <2>8, <2>9, MeantParts
  <2>11. w \in s.src .. s.end
    BY <1>9, <2>9, <2>10
  <2>12. CASE slices[j].output
    <3>1. slices[j].end < s.src \/ s.end < slices[j].src
      BY <1>1, <1>9, <2>12, OutputsApart
    <3>2. s.src \in Nat /\ s.end \in Nat
      BY <1>1, <1>2
    <3> QED BY <2>6, <2>7, <2>11, <3>1, <3>2
  <2>13. CASE ~slices[j].output
    <3>1. Given(Meant(w)) # Undefined
      BY <1>1, <1>2, <2>7, <2>13 DEF MayPass
    <3>2. Given(Meant(w)) = Undefined
      BY <1>8, <1>9, <2>11
    <3> QED BY <3>1, <3>2
  <2> QED BY <2>12, <2>13
<1>10. MaySlice(st, cs, top + 1, s)
  BY <1>1, <1>2, <1>4, <1>7, <1>8, <1>9 DEF MaySlice
<1> QED BY <1>6, <1>10

(* A new range is added to the caller and changes nothing else.            *)
LEMMA WithNewRangeParts ==
  ASSUME NEW cs \in Seq(Circuits), top \in DOMAIN cs, NEW s
  PROVE  LET ds == WithNewRange(cs, s)
         IN  /\ ds[top].args = cs[top].args /\ ds[top].values = cs[top].values
             /\ ds[top].declared = cs[top].declared \cup
                  {r \in {<<s.src, s.end>>} : NewRange(cs[top], s)}
             /\ Len(ds) = Len(cs) /\ \A m \in DOMAIN cs : m # top => ds[m] = cs[m]
<1>1. CASE NewRange(cs[top], s)
  <2> DEFINE ds == [cs EXCEPT ![top].declared = @ \cup {<<s.src, s.end>>}]
  <2>1. /\ ds[top].args = cs[top].args /\ ds[top].values = cs[top].values
        /\ ds[top].declared = cs[top].declared \cup {<<s.src, s.end>>}
        /\ Len(ds) = Len(cs) /\ \A m \in DOMAIN cs : m # top => ds[m] = cs[m]
    BY Redeclared, ZenonT(60)
  <2>2. WithNewRange(cs, s) = ds
    BY <1>1 DEF WithNewRange
  <2>3. {r \in {<<s.src, s.end>>} : NewRange(cs[top], s)} = {<<s.src, s.end>>}
    BY <1>1
  <2> HIDE DEF ds
  <2> QED BY <2>1, <2>2, <2>3
<1>2. CASE ~NewRange(cs[top], s)
  BY <1>2 DEF WithNewRange
<1> QED BY <1>1, <1>2

(* The ranges new to the caller, one slice after the other.                *)
LEMMA DeclaredNext ==
  ASSUME NEW slices, NEW k \in Nat, k >= 1
  PROVE  DeclaredBy(slices, k) = DeclaredBy(slices, k - 1) \cup
           {r \in {<<slices[k].src, slices[k].end>>} : NewRange(circuit[top], slices[k])}
<1>1. 1 .. k = (1 .. k - 1) \cup {k}
  OBVIOUS
<1> QED BY <1>1 DEF DeclaredBy

(* The arguments, one slice after the other.                               *)
LEMMA ArgumentsNext ==
  ASSUME FramesRight(stack, circuit, top), top >= 1, NEW slices, MayCall(slices),
         NEW k \in 1 .. Len(slices), NEW st, NEW cs, CallState(slices, k - 1, st, cs),
         MeantBy(cs[top], slices[k]) \in Seq(Nat \X Wires), cs[top + 1].args \in Seq(Nat \X Wires),
         Len(MeantBy(cs[top], slices[k])) = slices[k].end - slices[k].src + 1
  PROVE  /\ PassedBy(slices, k, cs[top + 1].args \o MeantBy(cs[top], slices[k]))
         /\ Len(cs[top + 1].args) = Offset(slices)[k - 1]
         /\ Len(cs[top + 1].args) + Len(MeantBy(cs[top], slices[k])) - 1 = Offset(slices)[k] - 1
<1> DEFINE W == MeantBy(cs[top], slices[k])
<1>0. /\ W = MeantBy(cs[top], slices[k]) /\ W \in Seq(Nat \X Wires)
      /\ Len(W) = slices[k].end - slices[k].src + 1
  OBVIOUS
<1> HIDE DEF W
<1> DEFINE before == cs[top + 1].args
           args == before \o W
           o == Offset(slices)[k - 1]
           n == slices[k].end - slices[k].src + 1
<1>1. /\ Offset(slices)[k] = o + n /\ o \in Nat /\ k \in Nat /\ k >= 1
      /\ slices[k].src \in Nat /\ slices[k].end \in Nat /\ slices[k].src <= slices[k].end
  <2>1. SlicesOf(slices) /\ Len(slices) \in Nat
    BY DEF MayCall, SlicesOf
  <2>2. k - 1 \in 0 .. Len(slices)
    BY <2>1
  <2> QED BY <2>1, <2>2, OffsetParts
<1>2. Len(before) = o
  BY DEF CallState, PassedBy
<1>3. /\ args \in Seq(Nat \X Wires) /\ Len(args) = o + n
      /\ \A i \in 1 .. o : args[i] = before[i]
      /\ \A i \in 1 .. n : args[o + i] = W[i]
  <2>1. Len(W) = n /\ W \in Seq(Nat \X Wires) /\ before \in Seq(Nat \X Wires)
    BY <1>0
  <2> HIDE DEF o, n, before, args
  <2>2. /\ before \o W \in Seq(Nat \X Wires) /\ Len(before \o W) = Len(before) + Len(W)
        /\ \A i \in 1 .. Len(before) : (before \o W)[i] = before[i]
        /\ \A i \in 1 .. Len(W) : (before \o W)[Len(before) + i] = W[i]
    <3> DEFINE S == Nat \X Wires
    <3> HIDE DEF S
    <3>1. W \in Seq(S) /\ before \in Seq(S)
      BY <2>1 DEF S
    <3>2. /\ before \o W \in Seq(S) /\ Len(before \o W) = Len(before) + Len(W)
          /\ \A i \in 1 .. Len(before) : (before \o W)[i] = before[i]
          /\ \A i \in 1 .. Len(W) : (before \o W)[Len(before) + i] = W[i]
      BY <3>1, Joined
    <3> QED BY <3>2 DEF S
  <2> QED BY <1>2, <2>1, <2>2 DEF args
<1>4. \A w : MeantIn(cs[top], w) = Meant(w)
  <2>1. cs[top].args = circuit[top].args
    BY DEF CallState
  <2> QED BY <2>1 DEF MeantIn, Meant
<1>5. ASSUME NEW m \in 1 .. o
      PROVE  \E j \in 1 .. k :
               /\ Offset(slices)[j - 1] < m /\ m <= Offset(slices)[j]
               /\ args[m] = Meant(slices[j].src + m - Offset(slices)[j - 1] - 1)
  <2>1. PICK j \in 1 .. k - 1 :
               /\ Offset(slices)[j - 1] < m /\ m <= Offset(slices)[j]
               /\ before[m] = Meant(slices[j].src + m - Offset(slices)[j - 1] - 1)
    BY DEF CallState, PassedBy
  <2>2. j \in 1 .. k
    BY <1>1
  <2>3. args[m] = before[m]
    BY <1>3
  <2> HIDE DEF args, before
  <2> QED BY <2>1, <2>2, <2>3
<1>6. ASSUME NEW m \in Nat, o < m, m <= o + n
      PROVE  args[m] = Meant(slices[k].src + m - o - 1)
  <2>0. n \in Int
    BY <1>1
  <2> HIDE DEF o, n, args, before
  <2>1. m - o \in 1 .. n /\ o + (m - o) = m
    BY <1>1, <1>6, <2>0
  <2>2. args[o + (m - o)] = W[m - o]
    BY <1>3, <2>1
  <2>3. W[m - o] = MeantIn(cs[top], slices[k].src + (m - o) - 1)
    BY <1>0, <2>1 DEF MeantBy, n
  <2>4. slices[k].src + (m - o) - 1 = slices[k].src + m - o - 1
    BY <1>1
  <2> QED BY <1>4, <2>1, <2>2, <2>3, <2>4
<1>7. ASSUME NEW m \in 1 .. Offset(slices)[k]
      PROVE  \E j \in 1 .. k :
               /\ Offset(slices)[j - 1] < m /\ m <= Offset(slices)[j]
               /\ args[m] = Meant(slices[j].src + m - Offset(slices)[j - 1] - 1)
  <2>0. m \in Nat /\ m >= 1 /\ m <= o + n /\ n \in Int
    <3>1. n \in Int
      BY <1>1
    <3> HIDE DEF o, n
    <3> QED BY <1>1, <3>1
  <2>1. CASE m <= o
    <3>1. m \in 1 .. o
      <4> HIDE DEF o
      <4> QED BY <1>1, <2>0, <2>1
    <3> HIDE DEF args, o
    <3> QED BY <1>5, <3>1
  <2>2. CASE o < m
    <3>1. args[m] = Meant(slices[k].src + m - o - 1)
      <4> HIDE DEF args, o, n
      <4> QED BY <1>6, <2>0, <2>2
    <3>2. Offset(slices)[k - 1] < m /\ m <= Offset(slices)[k]
      BY <2>2
    <3>3. args[m] = Meant(slices[k].src + m - Offset(slices)[k - 1] - 1)
      BY <3>1
    <3>4. k \in 1 .. k
      BY <1>1
    <3> HIDE DEF args, o, n
    <3> QED BY <3>2, <3>3, <3>4
  <2>3. m <= o \/ o < m
    <3> HIDE DEF o
    <3> QED BY <1>1, <2>0
  <2> QED BY <2>1, <2>2, <2>3
<1>8. /\ Len(args) = Offset(slices)[k] /\ Len(before) = Offset(slices)[k - 1]
      /\ Len(before) + Len(W) - 1 = Offset(slices)[k] - 1
  <2>1. Len(W) = n
    BY <1>0
  <2>2. Len(before) = Offset(slices)[k - 1]
    BY <1>2
  <2> HIDE DEF args, before, n
  <2>3. Len(before) = o
    BY <2>2
  <2> HIDE DEF o
  <2> QED BY <1>1, <1>3, <2>1, <2>2, <2>3
<1>9. PassedBy(slices, k, args)
  <2> HIDE DEF args
  <2> QED BY <1>7, <1>8 DEF PassedBy
<1> HIDE DEF o, n
<1> QED BY <1>8, <1>9 DEF W

(* One slice of a call: it does not panic, and the callee has its wires.   *)
LEMMA NextState ==
  ASSUME FramesRight(stack, circuit, top), top >= 1, NEW slices, MayCall(slices),
         NEW k \in 1 .. Len(slices), NEW st, NEW cs, CallState(slices, k - 1, st, cs)
  PROVE  LET acc == Slice([stack |-> st, panicked |-> FALSE], slices[k])
         IN  ~acc.panicked /\ \E ds : CallState(slices, k, acc.stack, ds)
<1> DEFINE s == slices[k]
           acc == Slice([stack |-> st, panicked |-> FALSE], s)
           W == MeantBy(cs[top], s)
           es == WithNewRange(cs, s)
           callee == GivenMore(cs[top + 1], W)
           ds == [es EXCEPT ![top + 1] = callee]
<1>1. /\ FramesRight(st, cs, top + 1) /\ Untouched(cs[top + 1])
      /\ cs[top].args = circuit[top].args /\ cs[top].values = circuit[top].values
      /\ cs[top].declared = circuit[top].declared \cup DeclaredBy(slices, k - 1)
      /\ \A l \in 1 .. top : l # top => cs[l] = circuit[l]
      /\ cs[top + 1].declared = {<<Offset(slices)[j - 1], Offset(slices)[j] - 1>> : j \in 1 .. k - 1}
  BY DEF CallState
<1>2. /\ cs \in Seq(Circuits) /\ DOMAIN cs = 1 .. top + 1 /\ Len(cs) = top + 1 /\ top \in Nat
      /\ top \in DOMAIN cs /\ top + 1 \in DOMAIN cs /\ k \in Nat /\ k >= 1
  BY <1>1 DEF FramesRight
<1>3. MaySlice(st, cs, top + 1, s) /\ (NewRange(cs[top], s) <=> NewRange(circuit[top], s))
  BY NextMaySlice
<1>4. /\ ~acc.panicked /\ FramesRight(acc.stack, ds, top + 1) /\ Untouched(callee)
      /\ W \in Seq(Nat \X Wires) /\ Len(W) = s.end - s.src + 1
  <2> HIDE DEF s
  <2> QED BY <1>1, <1>3, SliceRight
<1>5. /\ es[top].args = cs[top].args /\ es[top].values = cs[top].values
      /\ es[top].declared = cs[top].declared \cup {r \in {<<s.src, s.end>>} : NewRange(cs[top], s)}
      /\ Len(es) = Len(cs) /\ \A m \in DOMAIN cs : m # top => es[m] = cs[m]
  BY <1>2, WithNewRangeParts
<1>6. /\ ds[top + 1] = callee /\ ds[top] = es[top]
      /\ \A l \in 1 .. top : l # top => ds[l] = cs[l]
  <2>1. top + 1 \in DOMAIN es
    <3>1. ds \in Seq(Circuits) /\ Len(ds) = top + 1
      BY <1>4 DEF FramesRight
    <3>2. DOMAIN ds = DOMAIN es /\ DOMAIN ds = 1 .. top + 1
      BY <3>1
    <3> QED BY <1>2, <3>2
  <2>2. \A l \in 1 .. top : l # top + 1 /\ l \in DOMAIN cs
    BY <1>2
  <2>3. top # top + 1
    BY <1>2
  <2>4. ds[top + 1] = callee /\ \A l : l # top + 1 => ds[l] = es[l]
    <3> HIDE DEF es, callee
    <3> QED BY <2>1
  <2> HIDE DEF ds, es, callee
  <2> QED BY <1>5, <2>2, <2>3, <2>4
<1>7. ds[top].declared = circuit[top].declared \cup DeclaredBy(slices, k)
  <2>1. DeclaredBy(slices, k) = DeclaredBy(slices, k - 1) \cup
           {r \in {<<s.src, s.end>>} : NewRange(circuit[top], s)}
    BY <1>2, DeclaredNext
  <2>2. {r \in {<<s.src, s.end>>} : NewRange(circuit[top], s)}
          = {r \in {<<s.src, s.end>>} : NewRange(cs[top], s)}
    BY <1>3
  <2> HIDE DEF ds, es, s
  <2> QED BY <1>1, <1>5, <1>6, <2>1, <2>2
<1>8. cs[top + 1].args \in Seq(Nat \X Wires)
  <2>1. cs[top + 1] \in Circuits
    BY <1>2
  <2> QED BY <2>1 DEF Circuits
<1>9. /\ PassedBy(slices, k, cs[top + 1].args \o W)
      /\ Len(cs[top + 1].args) = Offset(slices)[k - 1]
      /\ Len(cs[top + 1].args) + Len(W) - 1 = Offset(slices)[k] - 1
  <2> HIDE DEF acc, es, callee, ds
  <2> QED BY <1>4, <1>8, ArgumentsNext
<1>10. callee.args = cs[top + 1].args \o W
  <2> HIDE DEF W
  <2> QED BY DEF GivenMore
<1>11. callee.declared = {<<Offset(slices)[j - 1], Offset(slices)[j] - 1>> : j \in 1 .. k}
  <2>1. callee.declared = cs[top + 1].declared
          \cup {<<Len(cs[top + 1].args), Len(cs[top + 1].args) + Len(W) - 1>>}
    <3> HIDE DEF W
    <3> QED BY DEF GivenMore
  <2>2. 1 .. k = (1 .. k - 1) \cup {k}
    BY <1>2
  <2>3. <<Len(cs[top + 1].args), Len(cs[top + 1].args) + Len(W) - 1>>
          = <<Offset(slices)[k - 1], Offset(slices)[k] - 1>>
    BY <1>9
  <2> HIDE DEF W, callee
  <2> QED BY <1>1, <2>1, <2>2, <2>3
<1>12. CallState(slices, k, acc.stack, ds)
  <2> HIDE DEF ds, es, callee, acc, W, s
  <2>1. ds[top].args = circuit[top].args /\ ds[top].values = circuit[top].values
    BY <1>1, <1>5, <1>6
  <2>2. \A l \in 1 .. top : l # top => ds[l] = circuit[l]
    BY <1>1, <1>6
  <2>3. /\ Untouched(ds[top + 1])
        /\ ds[top + 1].declared = {<<Offset(slices)[j - 1], Offset(slices)[j] - 1>> : j \in 1 .. k}
        /\ ds[top + 1].args = cs[top + 1].args \o W
    BY <1>4, <1>6, <1>10, <1>11
  <2> QED BY <1>4, <1>7, <1>9, <2>1, <2>2, <2>3 DEF CallState
<1> HIDE DEF ds, acc
<1> QED BY <1>4, <1>12 DEF s, acc

(* A call that has passed nothing yet.                                     *)
LEMMA FirstState ==
  ASSUME FramesRight(stack, circuit, top), top >= 1, NEW slices, MayCall(slices),
         NEW is_vector \in BOOLEAN
  PROVE  CallState(slices, 0, Pushed(is_vector), Append(circuit, NewCircuit(<<>>, {})))
<1> DEFINE c == NewCircuit(<<>>, {})
           ts == Pushed(is_vector)
           cs == Append(circuit, c)
<1>1. /\ stack \in Seq(Frames) /\ circuit \in Seq(Circuits) /\ top \in Nat /\ top <= Len(stack)
      /\ Len(circuit) = top
  BY DEF FramesRight
<1>2. /\ ts \in Seq(Frames) /\ top + 1 <= Len(ts) /\ Empty(ts[top + 1])
      /\ \A l \in 1 .. top : ts[l] = stack[l]
  BY <1>1, PushedParts
<1>3. FramesRight(ts, cs, top + 1)
  <2> HIDE DEF ts
  <2> QED BY <1>2, PushRight
<1>4. /\ c.args = <<>> /\ c.declared = {} /\ \A w \in Wires : c.values[w] = Undefined
  BY DEF NewCircuit
<1>5. cs[top + 1] = c /\ \A l \in 1 .. top : cs[l] = circuit[l]
  <2>1. \A S, e : \A q \in Seq(S) : /\ Append(q, e)[Len(q) + 1] = e
                                    /\ \A i \in 1 .. Len(q) : Append(q, e)[i] = q[i]
    OBVIOUS
  <2> HIDE DEF c
  <2> QED BY <1>1, <2>1
<1>6. DeclaredBy(slices, 0) = {} /\ top \in 1 .. top
  BY <1>1 DEF DeclaredBy
<1>7. PassedBy(slices, 0, <<>>)
  <2>1. Offset(slices)[0] = 0
    BY OffsetParts DEF MayCall
  <2> QED BY <2>1 DEF PassedBy
<1>8. {<<Offset(slices)[j - 1], Offset(slices)[j] - 1>> : j \in 1 .. 0} = {}
  OBVIOUS
<1> HIDE DEF c, cs, ts
<1>9. Untouched(c)
  BY <1>4 DEF Untouched
<1>10. CallState(slices, 0, ts, cs)
  BY <1>3, <1>4, <1>5, <1>6, <1>7, <1>8, <1>9 DEF CallState
<1> QED BY <1>10 DEF c, cs, ts

(* A call never panics on the way, however many slices it has.             *)
LEMMA CallSteps ==
  ASSUME FramesRight(stack, circuit, top), top >= 1, NEW slices, MayCall(slices),
         NEW is_vector \in BOOLEAN, NEW k \in 0 .. Len(slices)
  PROVE  /\ ~Sliced(slices, is_vector)[k].panicked
         /\ \E cs : CallState(slices, k, Sliced(slices, is_vector)[k].stack, cs)
<1> DEFINE after == Sliced(slices, is_vector)
           Good(j) == ~after[j].panicked /\ \E cs : CallState(slices, j, after[j].stack, cs)
           S == {j \in Nat : j <= Len(slices) => Good(j)}
<1>1. SlicesOf(slices) /\ Len(slices) \in Nat /\ Len(slices) >= 0
  BY DEF MayCall, SlicesOf
<1>2. after = [j \in 0 .. Len(slices) |->
                 IF j = 0 THEN [stack |-> Pushed(is_vector), panicked |-> FALSE]
                 ELSE Slice(after[j - 1], slices[j])]
  BY <1>1, SlicedSolves
<1> HIDE DEF after
<1>3. Good(0)
  <2>1. after[0] = [stack |-> Pushed(is_vector), panicked |-> FALSE]
    BY <1>1, <1>2
  <2>2. after[0].stack = Pushed(is_vector) /\ ~after[0].panicked
    BY <2>1
  <2> QED BY <2>2, FirstState
<1>4. ASSUME NEW j \in Nat, j + 1 <= Len(slices), Good(j)
      PROVE  Good(j + 1)
  <2>1. j + 1 \in 1 .. Len(slices) /\ (j + 1) - 1 = j /\ j + 1 \in 0 .. Len(slices) /\ j + 1 # 0
    BY <1>1, <1>4
  <2>2. after[j + 1] = Slice(after[j], slices[j + 1])
    BY <1>2, <2>1
  <2>3. PICK cs : CallState(slices, j, after[j].stack, cs)
    BY <1>4
  <2> DEFINE st == after[j].stack
             acc == Slice([stack |-> st, panicked |-> FALSE], slices[j + 1])
  <2>4. ~acc.panicked /\ \E ds : CallState(slices, j + 1, acc.stack, ds)
    <3>1. CallState(slices, (j + 1) - 1, st, cs)
      BY <2>1, <2>3
    <3> HIDE DEF st
    <3> QED BY <2>1, <3>1, NextState
  <2>5. after[j + 1].stack = acc.stack
    BY <2>2 DEF Slice
  <2>6. after[j + 1].panicked <=> acc.panicked
    <3>0. \A a, s : Slice(a, s).panicked = (a.panicked \/ Refused(a.stack[top], s))
      BY DEF Slice
    <3>1. after[j + 1].panicked = (after[j].panicked \/ Refused(st[top], slices[j + 1]))
      BY <2>2, <3>0
    <3>2. acc.panicked = (FALSE \/ Refused(st[top], slices[j + 1]))
      <4> DEFINE a == [stack |-> st, panicked |-> FALSE]
      <4>1. a.stack = st /\ a.panicked = FALSE
        OBVIOUS
      <4> HIDE DEF a, st
      <4>2. Slice(a, slices[j + 1]).panicked = (a.panicked \/ Refused(a.stack[top], slices[j + 1]))
        BY <3>0
      <4> QED BY <4>1, <4>2 DEF a
    <3> HIDE DEF acc, st
    <3> QED BY <1>4, <3>1, <3>2
  <2> HIDE DEF acc
  <2> QED BY <2>4, <2>5, <2>6
<1>5. S = Nat
  <2>1. 0 \in S
    BY <1>3
  <2>2. \A j \in S : j + 1 \in S
    <3> SUFFICES ASSUME NEW j \in S, j + 1 <= Len(slices) PROVE Good(j + 1)
      OBVIOUS
    <3>1. j \in Nat /\ j <= Len(slices)
      BY <1>1
    <3>2. Good(j)
      BY <3>1
    <3> HIDE DEF Good, S
    <3> QED BY <1>4, <3>1, <3>2
  <2> HIDE DEF S
  <2>3. S \in SUBSET Nat
    BY DEF S
  <2> QED BY <2>1, <2>2, <2>3, ByInduction
<1>6. Good(k)
  <2>1. k \in Nat /\ k <= Len(slices)
    BY <1>1
  <2>2. k \in S
    BY <1>5, <2>1
  <2> HIDE DEF Good
  <2> QED BY <2>1, <2>2
<1> QED BY <1>6 DEF after

LEMMA SameCircuit ==
  ASSUME NEW a \in Circuits, NEW b \in Circuits, a.args = b.args, a.values = b.values,
         a.declared = b.declared
  PROVE  a = b
  BY DEF Circuits

(* After the last slice the circuits are those of the model.               *)
LEMMA DeclaresAll ==
  ASSUME NEW slices, MayCall(slices)
  PROVE  /\ DeclaredBy(slices, Len(slices)) = Declares(slices)
         /\ Declares(slices) \subseteq Nat \X Nat
<1>1. slices \in Seq(Slices) /\ DOMAIN slices = 1 .. Len(slices)
  BY DEF MayCall, SlicesOf
<1>2. \A s : NewRange(circuit[top], s) <=> s.src # s.end /\ Undeclared(s.src)
  BY DEF NewRange, UndeclaredIn, Undeclared
<1>3. Range(slices) = {slices[j] : j \in 1 .. Len(slices)}
  BY <1>1 DEF Range
<1>4. DeclaredBy(slices, Len(slices)) = Declares(slices)
  BY <1>2, <1>3 DEF DeclaredBy, Declares
<1>5. \A s \in Slices : s.src \in Nat /\ s.end \in Nat
  BY FrameAssumption DEF Slices, Wires
<1>6. \A j \in 1 .. Len(slices) : slices[j].src \in Nat /\ slices[j].end \in Nat
  BY <1>1, <1>5
<1>7. DeclaredBy(slices, Len(slices)) \subseteq Nat \X Nat
  BY <1>6 DEF DeclaredBy
<1> QED BY <1>4, <1>7

LEMMA PassesAll ==
  ASSUME NEW slices, MayCall(slices), NEW args \in Seq(Nat \X Wires),
         PassedBy(slices, Len(slices), args)
  PROVE  args = Passed(slices)
<1> DEFINE n == Offset(slices)[Len(slices)]
<1>1. SlicesOf(slices) /\ Len(slices) \in Nat
  BY DEF MayCall, SlicesOf
<1>2. Len(args) = n /\ n \in Nat
  BY <1>1, OffsetParts DEF PassedBy
<1>3. ASSUME NEW m \in 1 .. n
      PROVE  args[m] = Meant(slices[From(slices, m)].src + m - Offset(slices)[From(slices, m) - 1] - 1)
  <2>1. PICK j \in 1 .. Len(slices) :
          /\ Offset(slices)[j - 1] < m /\ m <= Offset(slices)[j]
          /\ args[m] = Meant(slices[j].src + m - Offset(slices)[j - 1] - 1)
    BY DEF PassedBy
  <2>2. m \in Nat
    BY <1>2
  <2>3. From(slices, m) = j
    BY <1>1, <2>1, <2>2, FromRight
  <2> QED BY <2>1, <2>3
<1>4. args = [m \in 1 .. n |-> args[m]]
  <2> HIDE DEF n
  <2> QED BY <1>2
<1>5. [m \in 1 .. n |-> args[m]]
        = [m \in 1 .. n |-> Meant(slices[From(slices, m)].src + m - Offset(slices)[From(slices, m) - 1] - 1)]
  <2> HIDE DEF n
  <2> QED BY <1>3
<1> QED BY <1>4, <1>5 DEF Passed

LEMMA Appended ==
  ASSUME NEW S, NEW s \in Seq(S), NEW t \in Seq(S), Len(t) = Len(s) + 1,
         \A i \in 1 .. Len(s) : t[i] = s[i]
  PROVE  t = Append(s, t[Len(s) + 1])
  OBVIOUS

(* A circuit with more ranges is a circuit.                                *)
LEMMA DeclaringTyped ==
  ASSUME NEW cs \in Seq(Circuits), NEW l \in DOMAIN cs, NEW R, R \subseteq Nat \X Nat
  PROVE  [cs EXCEPT ![l].declared = @ \cup R] \in Seq(Circuits)
<1> DEFINE c == [cs[l] EXCEPT !.declared = cs[l].declared \cup R]
<1>1. [cs EXCEPT ![l].declared = @ \cup R] = [cs EXCEPT ![l] = c]
  OBVIOUS
<1>2. \A d \in Circuits : [d EXCEPT !.declared = d.declared \cup R] \in Circuits
  BY DEF Circuits
<1>3. cs[l] \in Circuits
  OBVIOUS
<1>4. c \in Circuits
  BY <1>2, <1>3
<1> HIDE DEF c
<1>5. [cs EXCEPT ![l] = c] \in Seq(Circuits)
  BY <1>4
<1> QED BY <1>1, <1>5

LEMMA LastState ==
  ASSUME FramesRight(stack, circuit, top), top >= 1, NEW slices, MayCall(slices),
         NEW st, NEW cs, CallState(slices, Len(slices), st, cs)
  PROVE  cs = Append([circuit EXCEPT ![top].declared = @ \cup Declares(slices)],
                     NewCircuit(Passed(slices), GivenTo(slices)))
<1> DEFINE ds == [circuit EXCEPT ![top].declared = @ \cup Declares(slices)]
           c == NewCircuit(Passed(slices), GivenTo(slices))
<1>1. /\ cs \in Seq(Circuits) /\ circuit \in Seq(Circuits) /\ top \in Nat
      /\ Len(cs) = top + 1 /\ Len(circuit) = top
  BY DEF CallState, FramesRight
<1>2. /\ top \in DOMAIN circuit /\ top \in DOMAIN cs /\ top + 1 \in DOMAIN cs
      /\ DOMAIN circuit = 1 .. top
  BY <1>1
<1>3. /\ ds[top].args = circuit[top].args /\ ds[top].values = circuit[top].values
      /\ ds[top].declared = circuit[top].declared \cup Declares(slices)
      /\ Len(ds) = top /\ \A m \in 1 .. top : m # top => ds[m] = circuit[m]
  BY <1>1, <1>2, Redeclared
<1>4. ds \in Seq(Circuits)
  BY <1>1, <1>2, DeclaresAll, DeclaringTyped
<1> HIDE DEF ds
<1>5. cs[top] = ds[top]
  <2>1. cs[top] \in Circuits /\ ds[top] \in Circuits
    BY <1>1, <1>2, <1>3, <1>4
  <2>2. /\ cs[top].args = circuit[top].args /\ cs[top].values = circuit[top].values
        /\ cs[top].declared = circuit[top].declared \cup Declares(slices)
    BY DeclaresAll DEF CallState
  <2> QED BY <1>3, <2>1, <2>2, SameCircuit
<1>6. \A l \in 1 .. top : cs[l] = ds[l]
  <2>1. \A l \in 1 .. top : l # top => cs[l] = circuit[l]
    BY DEF CallState
  <2> QED BY <1>3, <1>5, <2>1
<1>7. cs[top + 1] = c
  <2>1. cs[top + 1] \in Circuits
    BY <1>1, <1>2
  <2>2. /\ cs[top + 1].args \in Seq(Nat \X Wires) /\ cs[top + 1].values \in [Wires -> Vals]
    BY <2>1 DEF Circuits
  <2>3. cs[top + 1].args = Passed(slices)
    BY <2>2, PassesAll DEF CallState
  <2>4. \A w \in Wires : cs[top + 1].values[w] = Undefined
    BY DEF CallState, Untouched
  <2>5. cs[top + 1].values = [w \in Wires |-> Undefined]
    BY <2>2, <2>4
  <2>6. cs[top + 1].declared = GivenTo(slices)
    <3>1. DOMAIN slices = 1 .. Len(slices)
      BY DEF MayCall, SlicesOf
    <3> QED BY <3>1 DEF CallState, GivenTo
  <2>7. cs[top + 1] = [args |-> cs[top + 1].args, values |-> cs[top + 1].values,
                       declared |-> cs[top + 1].declared]
    BY <2>1 DEF Circuits
  <2> QED BY <2>3, <2>5, <2>6, <2>7 DEF NewCircuit
<1> HIDE DEF c
<1>8. cs = Append(ds, cs[top + 1])
  BY <1>1, <1>3, <1>4, <1>6, Appended
<1> QED BY <1>7, <1>8 DEF ds, c

LEMMA CallRight ==
  ASSUME FramesRight(stack, circuit, top), top >= 1, NEW slices \in Calls,
         NEW is_vector \in BOOLEAN, Call(slices, is_vector)
  PROVE  FramesRight(stack', circuit', top') /\ top' >= 1 /\ ~panicked'
<1>1. MayCall(slices)
  <2> DEFINE T == {s \in [src : 0 .. MaxWire, end : 0 .. MaxWire, output : BOOLEAN] : s.src <= s.end}
  <2>1. slices \in Seq(T)
    BY FrameAssumption
  <2>2. slices \in Seq(Slices) /\ \A k \in DOMAIN slices : slices[k].src <= slices[k].end
    <3>1. T \subseteq Slices /\ \A s \in T : s.src <= s.end
      BY DEF Slices, Wires
    <3> HIDE DEF T
    <3>2. \A k \in DOMAIN slices : slices[k] \in T
      BY <2>1
    <3>3. Len(slices) \in Nat /\ DOMAIN slices = 1 .. Len(slices) /\ slices = [k \in 1 .. Len(slices) |-> slices[k]]
      BY <2>1
    <3>4. slices \in Seq(Slices)
      BY <3>1, <3>2, <3>3
    <3> QED BY <3>1, <3>2, <3>4
  <2>3. \A k \in DOMAIN slices : slices[k] \in Range(slices)
    BY <2>2 DEF Range
  <2>4. \A k \in DOMAIN slices : MayPass(slices[k])
    BY <2>3 DEF Call
  <2> QED BY <2>2, <2>4 DEF MayCall, SlicesOf
<1> DEFINE acc == Sliced(slices, is_vector)[Len(slices)]
<1>2. Len(slices) \in 0 .. Len(slices)
  BY <1>1 DEF MayCall, SlicesOf
<1>3. ~acc.panicked
  BY <1>1, <1>2, CallSteps
<1>4. PICK cs : CallState(slices, Len(slices), acc.stack, cs)
  BY <1>1, <1>2, CallSteps
<1>5. /\ stack' = acc.stack /\ panicked' = acc.panicked /\ top' = top + 1
      /\ circuit' = Append([circuit EXCEPT ![top].declared = @ \cup Declares(slices)],
                           NewCircuit(Passed(slices), GivenTo(slices)))
  BY DEF Call
<1> HIDE DEF acc
<1>6. circuit' = cs
  BY <1>1, <1>4, <1>5, LastState
<1>7. FramesRight(acc.stack, cs, top + 1)
  BY <1>4 DEF CallState
<1>8. top + 1 >= 1
  BY DEF FramesRight
<1> QED BY <1>3, <1>5, <1>6, <1>7, <1>8

(* Where get and set find a wire is its home, and looking it up changes    *)
(* at most the cache.                                                      *)
LEMMA AddressRight ==
  ASSUME FramesRight(stack, circuit, top), top >= 1, NEW id \in Wires
  PROVE  /\ Address(Frame, id) = HomeOf(stack, circuit, Meant(id))
         /\ Own(circuit, top, Meant(id))
         /\ Recached(Frame, LookedUp(Frame, id))
         /\ Matches(LookedUp(Frame, id), OwnRanges(circuit[top]))
<1> DEFINE D == OwnRanges(circuit[top])
           n == Len(circuit[top].args)
<1>1. top \in 1 .. top /\ top \in Nat /\ id \in Nat
  BY FrameAssumption DEF FramesRight, Wires
<1>2. /\ Frame \in Frames /\ n \in Nat /\ Len(Frame.args) = n /\ DOMAIN circuit[top].args = 1 .. n
      /\ Disjoint(D) /\ Matches(Frame, D)
  BY <1>1, LevelParts DEF Frame
<1>3. /\ Own(circuit, top, Meant(id)) /\ (id >= n => Meant(id) = <<top, id>>)
      /\ Meant(id) = MeantIn(circuit[top], id)
  BY MeantParts
<1>4. Recached(Frame, Frame)
  BY <1>2 DEF Recached, Frames
<1>5. id >= n => HomeOf(stack, circuit, Meant(id)) = Home(Frame, n, D, top, id)
  <2>1. HomeOf(stack, circuit, <<top, id>>) = Home(stack[top], n, D, top, id)
    BY DEF HomeOf, HomeIn
  <2> HIDE DEF n, D
  <2> QED BY <1>3, <2>1 DEF Frame
<1> HIDE DEF n, D
<1>6. CASE id < n
  <2>1. id + 1 \in DOMAIN circuit[top].args /\ circuit[top].args[id + 1] = Meant(id)
    BY <1>1, <1>2, <1>3, <1>6 DEF MeantIn, n
  <2>2. Frame.args[id + 1] = HomeOf(stack, circuit, Meant(id))
    BY <1>1, <2>1, ArgsOwn DEF Frame
  <2>3. Address(Frame, id) = Frame.args[id + 1] /\ LookedUp(Frame, id) = Frame
    BY <1>2, <1>6 DEF Address, LookedUp
  <2> QED BY <1>2, <1>3, <1>4, <2>2, <2>3 DEF D
<1>7. CASE ~(id < n) /\ Frame.is_vector
  <2>1. Address(Frame, id) = InVector(top, id - n) /\ LookedUp(Frame, id) = Frame
    BY <1>2, <1>7 DEF Address, LookedUp
  <2>2. Home(Frame, n, D, top, id) = InVector(top, id - n)
    BY <1>2, <1>7, HomeCases
  <2>3. id >= n
    BY <1>1, <1>2, <1>7
  <2> QED BY <1>2, <1>3, <1>4, <1>5, <2>1, <2>2, <2>3 DEF D
<1>8. CASE ~(id < n) /\ ~Frame.is_vector
  <2>1. LookedUp(Frame, id) = Cached(Frame, id)
    BY <1>2, <1>8 DEF LookedUp
  <2>2. Recached(Frame, Cached(Frame, id)) /\ Matches(Cached(Frame, id), D)
    BY <1>2, <1>8, LookupKeeps
  <2>3. id >= n
    BY <1>1, <1>2, <1>8
  <2>4. ASSUME NEW r \in D, In(r, id)
        PROVE  Address(Frame, id) = Home(Frame, n, D, top, id)
    <3>1. Present(Frame, id) /\ Cached(Frame, id) = [Frame EXCEPT !.cache = r]
      BY <1>2, <1>8, <2>4, Finds
    <3>2. Cached(Frame, id).cache = r
      BY <1>2, <3>1 DEF Frames
    <3>3. Address(Frame, id) = InPool(top, r[1], id - r[1])
      BY <1>2, <1>8, <3>1, <3>2 DEF Address
    <3> QED BY <1>2, <1>8, <2>4, <3>3, HomeCases
  <2>5. ASSUME \A r \in D : ~In(r, id)
        PROVE  Address(Frame, id) = Home(Frame, n, D, top, id)
    <3>1. ~Present(Frame, id)
      BY <1>2, <1>8, <2>5, Finds
    <3>2. Address(Frame, id) = Single(top, id)
      BY <1>2, <1>8, <3>1 DEF Address
    <3> QED BY <1>2, <1>8, <2>5, <3>2, HomeCases
  <2>6. Address(Frame, id) = Home(Frame, n, D, top, id)
    BY <2>4, <2>5
  <2> QED BY <1>3, <1>5, <2>1, <2>2, <2>3, <2>6 DEF D
<1> QED BY <1>6, <1>7, <1>8

LEMMA GetKeeps ==
  ASSUME FramesRight(stack, circuit, top), top >= 1, NEW id \in Wires
  PROVE  LET st == [stack EXCEPT ![top] = LookedUp(Frame, id)]
         IN  /\ FramesRight(st, circuit, top)
             /\ HomeOf(st, circuit, Meant(id)) = Address(Frame, id)
<1>1. top \in 1 .. top
  BY DEF FramesRight
<1> DEFINE g == LookedUp(Frame, id)
           st == [stack EXCEPT ![top] = g]
<1>2. Recached(stack[top], g) /\ Matches(g, OwnRanges(circuit[top]))
  BY AddressRight DEF Frame
<1> HIDE DEF g
<1>3. FramesRight([stack EXCEPT ![top] = g], circuit, top)
  BY <1>1, <1>2, RecachedRight
<1>4. Own(circuit, top, Meant(id))
  BY AddressRight
<1>5. HomeOf([stack EXCEPT ![top] = g], circuit, Meant(id)) = HomeOf(stack, circuit, Meant(id))
  BY <1>1, <1>2, <1>4, RecachedRight
<1>6. FramesRight(st, circuit, top) /\ HomeOf(st, circuit, Meant(id)) = Address(Frame, id)
  BY <1>3, <1>5, AddressRight
<1> QED BY <1>6 DEF g

LEMMA SetKeeps ==
  ASSUME FramesRight(stack, circuit, top), top >= 1, NEW id \in Wires, NEW v \in Values
  PROVE  FramesRight(Store([stack EXCEPT ![top] = LookedUp(Frame, id)], Address(Frame, id), v),
                     [circuit EXCEPT ![Meant(id)[1]].values[Meant(id)[2]] = v], top)
<1> DEFINE st == [stack EXCEPT ![top] = LookedUp(Frame, id)]
<1>1. FramesRight(st, circuit, top) /\ HomeOf(st, circuit, Meant(id)) = Address(Frame, id)
  BY GetKeeps
<1>2. v \in Vals /\ Own(circuit, top, Meant(id))
  BY AddressRight DEF Vals
<1> HIDE DEF st
<1>3. FramesRight(Store(st, HomeOf(st, circuit, Meant(id)), v),
                  [circuit EXCEPT ![Meant(id)[1]].values[Meant(id)[2]] = v], top)
  BY <1>1, <1>2, SetRight
<1> QED BY <1>1, <1>3 DEF st

(* new.                                                                    *)
LEMMA NewKeeps ==
  ASSUME FramesRight(stack, circuit, top), top >= 1, NEW first \in Wires, NEW last \in Wires,
         first <= last, AllocationNew(first, last)
  PROVE  FramesRight(stack', circuit', top')
<1>1. top \in 1 .. top /\ top \in Nat
  BY DEF FramesRight
<1>2. ASSUME NEW m \in 1 .. top, NEW i \in DOMAIN circuit[m].args
      PROVE  circuit[m].args[i][1] # top
  <2>1. circuit[m].args[i][1] < m /\ Own(circuit, top, circuit[m].args[i])
    BY ArgsOwn
  <2>2. circuit[m].args[i][1] \in 1 .. top
    BY <2>1 DEF Own
  <2> QED BY <1>1, <2>1, <2>2
<1>3. \A w \in first .. last : /\ w >= Len(circuit[top].args)
                               /\ \A r \in circuit[top].declared : w < r[1] \/ r[2] < w
                               /\ circuit[top].values[w] = Undefined
  BY DEF AllocationNew, Undeclared
<1>4. Fresh(circuit, top, top, first, last)
  BY <1>1, <1>2, <1>3 DEF Fresh
<1>5. stack' = WithRange(stack, top, first, last)
  BY DEF AllocationNew, WithRange, Frame
<1>6. /\ circuit' = [circuit EXCEPT ![top].declared = @ \cup {<<first, last>>}]
      /\ top' = top
  BY DEF AllocationNew
<1>7. FramesRight(WithRange(stack, top, first, last),
                  [circuit EXCEPT ![top].declared = @ \cup {<<first, last>>}], top)
  BY <1>4, RangeRight
<1> QED BY <1>5, <1>6, <1>7

(* delete.                                                                 *)
LEMMA DeleteKeeps ==
  ASSUME FramesRight(stack, circuit, top), top >= 1, NEW first \in Wires, NEW last \in Wires,
         AllocationDelete(first, last)
  PROVE  FramesRight(stack', circuit', top')
<1> DEFINE T == Tiles(first, last)
<1>1. top \in 1 .. top /\ circuit[top] \in Circuits
  <2>1. top \in 1 .. top
    BY DEF FramesRight
  <2> QED BY <2>1, LevelParts
<1>2. \A r \in T : /\ r \in circuit[top].declared /\ r[1] >= Len(circuit[top].args)
                   /\ first <= r[1] /\ r[2] <= last
  BY DEF Tiles
<1>3. \A r \in circuit[top].declared : r[1] \in Nat /\ r[2] \in Nat
  BY <1>1 DEF Circuits
<1>4. first \in Nat /\ last \in Nat
  BY FrameAssumption DEF Wires
<1>5. /\ stack' = WithoutRanges(stack, top, T)
      /\ circuit' = GivenUp(circuit, top, T, first, last)
      /\ top' = top
  BY DEF AllocationDelete, Frame, WithoutRanges, GivenUp
<1> HIDE DEF T
<1>6. \A r \in T : r[1] .. r[2] \subseteq first .. last
  BY <1>2, <1>3, <1>4
<1>7. T \in SUBSET circuit[top].declared /\ \A r \in T : r[1] >= Len(circuit[top].args)
  BY <1>2
<1>8. FramesRight(WithoutRanges(stack, top, T), GivenUp(circuit, top, T, first, last), top)
  BY <1>6, <1>7, DeleteRight
<1> QED BY <1>5, <1>8

(* The frames below the top one depend on it in nothing.                   *)
LEMMA PopRight ==
  ASSUME NEW st, NEW cs, NEW n, FramesRight(st, cs, n), n >= 1,
         NEW ts \in Seq(Frames), NEW ds \in Seq(Circuits), n - 1 <= Len(ts), Len(ds) = n - 1,
         \A l \in 1 .. n - 1 : ts[l] = st[l] /\ ds[l] = cs[l]
  PROVE  FramesRight(ts, ds, n - 1)
<1>1. n \in Nat /\ n - 1 \in Nat /\ \A l \in 1 .. n - 1 : l \in 1 .. n
  BY DEF FramesRight
<1>2. ASSUME NEW l \in 1 .. n - 1, NEW p, Own(cs, n, p), p[1] = l
      PROVE  /\ HomeOf(ts, ds, p) = HomeOf(st, cs, p)
             /\ Load(ts, HomeOf(ts, ds, p)) = Load(st, HomeOf(st, cs, p))
  <2>1. HomeOf(ts, ds, p) = HomeOf(st, cs, p)
    BY <1>2 DEF HomeOf
  <2>2. HomeOf(st, cs, p) \in Addresses /\ HomeOf(st, cs, p).level = l
    BY <1>2, OwnHome
  <2> DEFINE a == HomeOf(st, cs, p)
  <2> HIDE DEF a
  <2>3. a \in Addresses /\ a.level = l
    BY <2>2 DEF a
  <2>4. ts[a.level] = st[a.level]
    BY <2>3
  <2>5. Load(ts, a) = Load(st, a)
    BY <2>3, <2>4, LoadsFrom
  <2> QED BY <2>1, <2>5 DEF a
<1>3. ASSUME NEW l \in 1 .. n - 1
      PROVE  /\ Pools(ts[l], ds[l]) /\ GivenRight(ts[l], ds[l])
             /\ ArgsRight(ts, ds, l) /\ ValuesRight(ts, ds, l)
  <2>0. l \in 1 .. n /\ l \in Nat
    BY <1>1
  <2>1. /\ Pools(st[l], cs[l]) /\ GivenRight(st[l], cs[l])
        /\ ArgsRight(st, cs, l) /\ ValuesRight(st, cs, l)
    BY <2>0 DEF FramesRight
  <2>2. ts[l] = st[l] /\ ds[l] = cs[l]
    OBVIOUS
  <2>3. ASSUME NEW i \in DOMAIN cs[l].args
        PROVE  /\ cs[l].args[i][1] \in 1 .. l - 1
               /\ cs[l].args[i][2] >= Len(ds[cs[l].args[i][1]].args)
               /\ ts[l].args[i] = HomeOf(ts, ds, cs[l].args[i])
    <3> DEFINE p == cs[l].args[i]
    <3>1. Own(cs, n, p) /\ p[1] \in 1 .. l - 1 /\ st[l].args[i] = HomeOf(st, cs, p)
      BY <2>0, <2>1, ArgsOwn DEF ArgsRight
    <3> HIDE DEF p
    <3>2. p[1] \in 1 .. n - 1
      BY <1>1, <2>0, <3>1
    <3>3. HomeOf(ts, ds, p) = HomeOf(st, cs, p)
      BY <1>2, <3>1, <3>2
    <3>4. p[2] >= Len(ds[p[1]].args)
      BY <3>1, <3>2 DEF Own
    <3> QED BY <2>2, <3>1, <3>3, <3>4 DEF p
  <2>4. ArgsRight(ts, ds, l)
    BY <2>1, <2>2, <2>3 DEF ArgsRight
  <2>5. ASSUME NEW w \in Wires, w >= Len(ds[l].args), ds[l].values[w] # Undefined
        PROVE  Load(ts, HomeOf(ts, ds, <<l, w>>)) = ds[l].values[w]
    <3>1. Own(cs, n, <<l, w>>)
      BY <2>0, <2>2, <2>5 DEF Own
    <3>2. Load(ts, HomeOf(ts, ds, <<l, w>>)) = Load(st, HomeOf(st, cs, <<l, w>>))
      <4> DEFINE p == <<l, w>>
      <4>1. p[1] = l /\ Own(cs, n, p)
        BY <3>1
      <4> HIDE DEF p
      <4>2. Load(ts, HomeOf(ts, ds, p)) = Load(st, HomeOf(st, cs, p))
        BY <1>2, <4>1
      <4> QED BY <4>2 DEF p
    <3> QED BY <2>1, <2>2, <2>5, <3>2 DEF ValuesRight
  <2> QED BY <2>1, <2>2, <2>4, <2>5 DEF ValuesRight
<1> QED BY <1>1, <1>3 DEF FramesRight

LEMMA ReturnKeeps ==
  ASSUME FramesRight(stack, circuit, top), top >= 1, Return
  PROVE  FramesRight(stack', circuit', top') /\ top' >= 1
<1>1. /\ top > 1 /\ stack' = [stack EXCEPT ![top].vector = NewFrame.vector]
      /\ top' = top - 1 /\ circuit' = Front(circuit)
  BY DEF Return
<1>2. /\ stack \in Seq(Frames) /\ circuit \in Seq(Circuits) /\ top \in Nat /\ top <= Len(stack)
      /\ Len(circuit) = top /\ top \in DOMAIN stack
  BY <1>1 DEF FramesRight
<1> DEFINE g == [stack[top] EXCEPT !.vector = NewFrame.vector]
<1>3. g \in Frames
  <2>1. NewFrame.vector \in [Wires -> Vals]
    BY DEF NewFrame, Vals
  <2>2. \A f \in Frames, v \in [Wires -> Vals] : [f EXCEPT !.vector = v] \in Frames
    BY DEF Frames
  <2>3. stack[top] \in Frames
    BY <1>2
  <2> QED BY <2>1, <2>2, <2>3
<1>4. stack' = [stack EXCEPT ![top] = g]
  BY <1>1
<1> HIDE DEF g
<1>5. /\ stack' \in Seq(Frames) /\ Len(stack') = Len(stack)
      /\ \A l \in 1 .. top - 1 : stack'[l] = stack[l]
  BY <1>2, <1>3, <1>4
<1>6. /\ Front(circuit) \in Seq(Circuits) /\ Len(Front(circuit)) = top - 1
      /\ \A l \in 1 .. top - 1 : Front(circuit)[l] = circuit[l]
  <2>1. Front(circuit) = [i \in 1 .. top - 1 |-> circuit[i]]
    BY <1>2 DEF Front
  <2>2. top - 1 \in Nat /\ \A i \in 1 .. top - 1 : circuit[i] \in Circuits
    BY <1>1, <1>2
  <2> QED BY <2>1, <2>2
<1>7. FramesRight(stack', circuit', top - 1)
  <2>1. top - 1 <= Len(stack') /\ Len(circuit') = top - 1 /\ circuit' \in Seq(Circuits)
    BY <1>1, <1>2, <1>5, <1>6
  <2>2. \A l \in 1 .. top - 1 : stack'[l] = stack[l] /\ circuit'[l] = circuit[l]
    BY <1>1, <1>5, <1>6
  <2> QED BY <1>5, <2>1, <2>2, PopRight
<1>8. top - 1 >= 1
  BY <1>1, <1>2
<1> QED BY <1>1, <1>7, <1>8

(* The inductive invariant.                                                *)
FrameInv == top >= 1 /\ FramesRight(stack, circuit, top) /\ ~panicked

LEMMA FrameInitRight == FrameInit => FrameInv
<1> SUFFICES ASSUME FrameInit PROVE FrameInv
  OBVIOUS
<1> DEFINE c == NewCircuit(<<>>, {})
           f == NewFrame
<1>1. stack = <<f>> /\ top = 1 /\ ~panicked /\ circuit = <<c>>
  BY DEF FrameInit
<1>2. Empty(f) /\ f \in Frames
  BY NewIsEmpty
<1> HIDE DEF f
<1>3. FramesRight(<<>>, <<>>, 0)
  BY DEF FramesRight
<1>4. <<f>> \in Seq(Frames) /\ 0 + 1 <= Len(<<f>>) /\ Empty(<<f>>[0 + 1]) /\ \A l \in 1 .. 0 : <<f>>[l] = <<>>[l]
  BY <1>2
<1>5. FramesRight(<<f>>, Append(<<>>, c), 0 + 1)
  BY <1>3, <1>4, PushRight
<1> HIDE DEF c
<1>6. Append(<<>>, c) = <<c>> /\ 0 + 1 = 1
  OBVIOUS
<1> QED BY <1>1, <1>5, <1>6 DEF FrameInv

LEMMA FrameStepRight == FrameInv /\ [FrameNext]_frameVars => FrameInv'
<1> SUFFICES ASSUME FrameInv, [FrameNext]_frameVars PROVE FrameInv'
  OBVIOUS
<1>0. top >= 1 /\ FramesRight(stack, circuit, top) /\ ~panicked
  BY DEF FrameInv
<1>1. ASSUME NEW id \in Wires, Get(id)
      PROVE  FrameInv'
  <2>1. /\ stack' = [stack EXCEPT ![top] = LookedUp(Frame, id)] /\ top' = top
        /\ panicked' = panicked /\ circuit' = circuit
    BY <1>1 DEF Get
  <2>2. FramesRight([stack EXCEPT ![top] = LookedUp(Frame, id)], circuit, top)
    BY <1>0, GetKeeps
  <2> QED BY <1>0, <2>1, <2>2 DEF FrameInv
<1>2. ASSUME NEW id \in Wires, NEW v \in Values, Set(id, v)
      PROVE  FrameInv'
  <2>1. /\ stack' = Store([stack EXCEPT ![top] = LookedUp(Frame, id)], Address(Frame, id), v)
        /\ circuit' = [circuit EXCEPT ![Meant(id)[1]].values[Meant(id)[2]] = v]
        /\ top' = top /\ panicked' = panicked
    BY <1>2 DEF Set
  <2>2. FramesRight(Store([stack EXCEPT ![top] = LookedUp(Frame, id)], Address(Frame, id), v),
                    [circuit EXCEPT ![Meant(id)[1]].values[Meant(id)[2]] = v], top)
    BY <1>0, SetKeeps
  <2> QED BY <1>0, <2>1, <2>2 DEF FrameInv
<1>3. ASSUME NEW r \in NewRanges, AllocationNew(r[1], r[2])
      PROVE  FrameInv'
  <2>1. r[1] \in Wires /\ r[2] \in Wires /\ r[1] <= r[2]
    BY FrameAssumption DEF Wires
  <2>2. FramesRight(stack', circuit', top')
    BY <1>0, <1>3, <2>1, NewKeeps
  <2>3. top' = top /\ panicked' = panicked
    BY <1>3 DEF AllocationNew
  <2> QED BY <1>0, <2>2, <2>3 DEF FrameInv
<1>4. ASSUME NEW first \in Wires, NEW last \in Wires, AllocationDelete(first, last)
      PROVE  FrameInv'
  <2>1. FramesRight(stack', circuit', top')
    BY <1>0, <1>4, DeleteKeeps
  <2>2. top' = top /\ panicked' = panicked
    BY <1>4 DEF AllocationDelete
  <2> QED BY <1>0, <2>1, <2>2 DEF FrameInv
<1>5. ASSUME NEW slices \in Calls, NEW is_vector \in BOOLEAN, Call(slices, is_vector)
      PROVE  FrameInv'
  BY <1>0, <1>5, CallRight DEF FrameInv
<1>6. ASSUME Return
      PROVE  FrameInv'
  <2>1. panicked' = panicked
    BY <1>6 DEF Return
  <2> QED BY <1>0, <1>6, <2>1, ReturnKeeps DEF FrameInv
<1>7. ASSUME UNCHANGED frameVars
      PROVE  FrameInv'
  BY <1>0, <1>7 DEF frameVars, FrameInv
<1> QED BY <1>1, <1>2, <1>3, <1>4, <1>5, <1>6, <1>7 DEF FrameNext

LEMMA InvReads == FrameInv => ReadsLastWrite
<1> SUFFICES ASSUME FrameInv, NEW id \in Wires, Given(Meant(id)) # Undefined
             PROVE  Load(stack, Address(Frame, id)) = Given(Meant(id))
  BY DEF ReadsLastWrite
<1>1. top >= 1 /\ FramesRight(stack, circuit, top)
  BY DEF FrameInv
<1> DEFINE p == Meant(id)
<1>2. Address(Frame, id) = HomeOf(stack, circuit, p) /\ Own(circuit, top, p)
  BY <1>1, AddressRight
<1> HIDE DEF p
<1>3. /\ p[1] \in 1 .. top /\ p[2] \in Wires /\ p = <<p[1], p[2]>>
      /\ p[2] >= Len(circuit[p[1]].args)
  BY <1>2 DEF Own
<1>4. ValuesRight(stack, circuit, p[1])
  BY <1>1, <1>3 DEF FramesRight
<1>5. circuit[p[1]].values[p[2]] # Undefined
  BY DEF Given, p
<1>6. Load(stack, HomeOf(stack, circuit, <<p[1], p[2]>>)) = circuit[p[1]].values[p[2]]
  BY <1>3, <1>4, <1>5 DEF ValuesRight
<1> QED BY <1>2, <1>3, <1>6 DEF Given, p

(* Whatever the calls and allocations of a circuit, get gives what was     *)
(* last stored in a wire (get, memory.rs 773-810).                         *)
THEOREM FrameReadsLastWrite == FrameSpec => []ReadsLastWrite
<1>1. FrameInit => FrameInv
  BY FrameInitRight
<1>2. FrameInv /\ [FrameNext]_frameVars => FrameInv'
  BY FrameStepRight
<1>3. FrameInv => ReadsLastWrite
  BY InvReads
<1> QED BY <1>1, <1>2, <1>3, PTL DEF FrameSpec

(* No call of a circuit that allocates what it passes panics               *)
(* (allocate_slice, memory.rs 1002-1007).                                  *)
THEOREM FrameCallsSucceed == FrameSpec => []CallsSucceed
<1>1. FrameInit => FrameInv
  BY FrameInitRight
<1>2. FrameInv /\ [FrameNext]_frameVars => FrameInv'
  BY FrameStepRight
<1>3. FrameInv => CallsSucceed
  BY DEF FrameInv, CallsSucceed
<1> QED BY <1>1, <1>2, <1>3, PTL DEF FrameSpec
=============================================================================
