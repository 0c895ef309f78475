---------------------------- MODULE MCWireDigits ----------------------------
(* Wires modulo every power of two that a u16 holds, read from any block.  *)
EXTENDS BaseDigits

VARIABLES q, block

Bits == 0 .. ByteBits * Positions - 1
Init == q \in {2 ^ k : k \in 2 .. WordBits - 1} /\ block = {}

(* Another hash: ones up to some bit.                                      *)
Next == \E last \in Bits : block' = 0 .. last /\ UNCHANGED q

Spec == Init /\ [][Next]_<<q, block>>
-----------------------------------------------------------------------------
(* The colour of a wire made from a block, its first digit, is below the   *)
(* modulus: "debug_assert!(color < self.q)" in color (wire.rs:634).        *)
ColorBelowModulus == SplitDigits(block, q)[1] < q
=============================================================================
