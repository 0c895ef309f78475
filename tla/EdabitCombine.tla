---------------------------- MODULE EdabitCombine ----------------------------
(***************************************************************************)
(* The values of combine_private_into_global_edabits                       *)
(* (diet-mac-and-cheese/src/mpc_edabits_common.rs:619-846): two private    *)
(* edaBits, one known to each peer and both shared between them, become a  *)
(* shared edaBit of their sum.  Bits are added by a ripple carry whose     *)
(* products take a shared triple each; the last carry is converted to the  *)
(* field with a dabit and subtracted from the sum of the values.           *)
(*                                                                         *)
(* A share is the pair of the peers' summands.  Rows of a batch do not     *)
(* meet, so one is modelled.  The field is the integers: every operation   *)
(* here is one of a ring, so what holds of them holds modulo any prime.    *)
(* Triples and dabits are consistent, as fdabit and quicksilver check, and *)
(* so are the private edaBits, as conv checks.                             *)
(***************************************************************************)
EXTENDS Integers

CONSTANTS BitSize,   \* bits of an edaBit
          Masks      \* values that a random field share takes

ASSUME CombineAssumption == BitSize \in Nat /\ Masks \subseteq Int

Bit == {0, 1}
Xor(a, b) == IF a = b THEN 0 ELSE 1
Share(S) == [first : S, second : S]

(* open_shared_bit_batch and open_shared_field_batch: local plus remote.   *)
OpenBit(s) == Xor(s.first, s.second)
OpenField(s) == s.first + s.second

AddBits(s, t) == [first |-> Xor(s.first, t.first), second |-> Xor(s.second, t.second)]
AddFields(s, t) == [first |-> s.first + t.first, second |-> s.second + t.second]
Scale(k, s) == [first |-> k * s.first, second |-> k * s.second]

(* A constant goes to the first peer's summand, in both peers' views.      *)
AddBitConst(s, c) == IF c = 0 THEN s ELSE [s EXCEPT !.first = Xor(@, c)]
AddFieldConst(s, c) == IF c = 0 THEN s ELSE [s EXCEPT !.first = @ + c]

(* multiply_shared_bits.  Mutant: without the term of both masks.          *)
Product(triple, d, e) ==
  LET c1 == IF d = 1 THEN AddBits(triple.c, triple.b) ELSE triple.c
      c2 == IF e = 1 THEN AddBits(c1, triple.a) ELSE c1
  IN  IF d = 1 /\ e = 1 THEN AddBitConst(c2, 1) ELSE c2

NoConstant(x, y, triple) ==
  LET d == OpenBit(AddBits(x, triple.a))
      e == OpenBit(AddBits(y, triple.b))
      c1 == IF d = 1 THEN AddBits(triple.c, triple.b) ELSE triple.c
  IN  IF e = 1 THEN AddBits(c1, triple.a) ELSE c1

MultiplySharedBits(x, y, triple) ==
  Product(triple, OpenBit(AddBits(x, triple.a)), OpenBit(AddBits(y, triple.b)))

Triples == {t \in [a : Share(Bit), b : Share(Bit), c : Share(Bit)] :
              OpenBit(t.c) = OpenBit(t.a) * OpenBit(t.b)}

(* convert_shared_bits_to_field: one minus the dabit where the mask is 1.  *)
ConvertBit(s, dabit) ==
  IF OpenBit(AddBits(s, dabit.bit)) = 0 THEN dabit.value
  ELSE AddFieldConst(Scale(-1, dabit.value), 1)

Dabits == {[bit |-> b, value |-> [first |-> m, second |-> OpenBit(b) - m]] :
             b \in Share(Bit), m \in Masks}

VARIABLES bit_idx,    \* bits added so far
          weight,     \* 2 ^ bit_idx
          carry,      \* the shared carry
          x, y,       \* what the bits so far of the private edaBits amount to
          opened,     \* what the bits so far of the sum amount to, once opened
          value       \* the shared value, after the last step

vars == <<bit_idx, weight, carry, x, y, opened, value>>

Zero == [first |-> 0, second |-> 0]

Init == /\ bit_idx = 0
        /\ weight = 1
        /\ carry = Zero
        /\ x = 0
        /\ y = 0
        /\ opened = 0
        /\ value = Zero

(* A round of add_private_bit_contributions with the next bit of each.     *)
AddBit(xi, yi, triple) ==
  /\ bit_idx < BitSize
  /\ LET and1 == AddBits(xi, carry)
         and2 == AddBits(yi, carry)
         sum == AddBits(and1, yi)
     IN  /\ carry' = AddBits(carry, MultiplySharedBits(and1, and2, triple))
         /\ opened' = opened + weight * OpenBit(sum)
  /\ x' = x + weight * OpenBit(xi)
  /\ y' = y + weight * OpenBit(yi)
  /\ bit_idx' = bit_idx + 1
  /\ weight' = 2 * weight
  /\ UNCHANGED value

(* sum_private_arithmetic_shares and apply_overflow_correction.  Mutant:   *)
(* the weight of the last bit for that of the carry.                       *)
CorrectedOneBitShort(sum, carry_field) ==
  AddFields(sum, Scale(-(weight \div 2), carry_field))

Corrected(sum, carry_field) == AddFields(sum, Scale(-weight, carry_field))

(* The shares of the private values are masked by mx and my.               *)
Convert(dabit, mx, my) ==
  /\ bit_idx = BitSize
  /\ value' = Corrected(AddFields([first |-> mx, second |-> x - mx],
                                  [first |-> y - my, second |-> my]),
                        ConvertBit(carry, dabit))
  /\ bit_idx' = BitSize + 1
  /\ UNCHANGED <<weight, carry, x, y, opened>>

Next == \/ \E xi, yi \in Share(Bit), triple \in Triples : AddBit(xi, yi, triple)
        \/ \E dabit \in Dabits, mx, my \in Masks : Convert(dabit, mx, my)

Spec == Init /\ [][Next]_vars
-----------------------------------------------------------------------------
TypeOK == /\ bit_idx \in 0 .. BitSize + 1
          /\ weight \in Nat
          /\ carry \in Share(Bit)
          /\ x \in Int /\ y \in Int
          /\ opened \in Int
          /\ value \in Share(Int)

(* The bits and the carry are those of the sum of the private values, for  *)
(* all shares and triples (add_private_bit_contributions, 658-703).        *)
CarryExact == opened + weight * OpenBit(carry) = x + y

(* The combined edaBit is one: its value is what its bits amount to        *)
(* (combine_private_into_global_edabits, 807-846).                         *)
Consistent == bit_idx = BitSize + 1 => OpenField(value) = opened
=============================================================================
