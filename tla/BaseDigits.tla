----------------------------- MODULE BaseDigits -----------------------------
(***************************************************************************)
(* Blocks as digits of a wire modulo q (fancy-garbling/src/wire.rs): for   *)
(* each byte of the block a row of a table is looked up and the rows are   *)
(* added with carries; small moduli go through _unrank, which subtracts    *)
(* powers of q.  Both keep the digits that fit whatever the block is.  For *)
(* a power of two the block is cut into digits of equal width.             *)
(***************************************************************************)
EXTENDS Integers, FiniteSetsExt, SequencesExt

CONSTANTS ByteBits,   \* bits of a byte: 8
          Positions   \* bytes of a block: 16

Byte == 2 ^ ByteBits
WordBits == 16   \* bits of a modulus, a u16

(* Digit i (from 0) of a number.                                           *)
Digit(x, q, i) == (x \div q ^ i) % q

(* NDIGITS_BASEq and BASEq_POSk: row x holds the digits of x * 256 ^ k, as *)
(* many as the last row needs.                                             *)
NumDigits(q, pos) ==
  LET last == (Byte - 1) * Byte ^ pos
      needed[x \in 0 .. last] == IF x = 0 THEN 0 ELSE 1 + needed[x \div q]
  IN  needed[last]
LookupDigits(x, q, pos) == [i \in 1 .. NumDigits(q, pos) |-> Digit(x * Byte ^ pos, q, i - 1)]

(* digits_per_u128: what fits when every digit takes whole bits.           *)
DigitsPerBlock(q) == (ByteBits * Positions) \div Min({b \in 1 .. WordBits : q <= 2 ^ b})

(* base_q_add_eq: the carry runs on past the end of ys while it can.       *)
Carries(xs, ys, q) ==
  LET y(i) == IF i \in DOMAIN ys THEN ys[i] ELSE 0
      c[i \in 0 .. Len(xs)] == IF i = 0 THEN 0 ELSE (xs[i] + y(i) + c[i - 1]) \div q
  IN  [i \in DOMAIN xs |-> (xs[i] + y(i) + c[i - 1]) % q]

(* Mutant: the carry stops where ys ends.                                  *)
StopsEarly(xs, ys, q) ==
  LET c[i \in 0 .. Len(xs)] == IF i = 0 \/ i \notin DOMAIN ys THEN 0
                               ELSE (xs[i] + ys[i] + c[i - 1]) \div q
  IN  [i \in DOMAIN xs |-> IF i \in DOMAIN ys THEN (xs[i] + ys[i] + c[i - 1]) % q ELSE xs[i]]

BaseQAdd(xs, ys, q) == Carries(xs, ys, q)

(* _from_block_lookup: the longest row first.                              *)
ByteAt(x, i) == (x \div Byte ^ i) % Byte
FromBlockLookup(x, q) ==
  LET top == Positions - 1
      sum == FoldLeft(LAMBDA ds, i : BaseQAdd(ds, LookupDigits(ByteAt(x, i), q, i), q),
                      LookupDigits(ByteAt(x, top), q, top),
                      [i \in 1 .. top |-> i - 1])
  IN  SubSeq(sum, 1, DigitsPerBlock(q))

(* _unrank: from the greatest digit down.                                  *)
Unrank(x, q) ==
  LET n == DigitsPerBlock(q)
      rest[i \in 0 .. n] == IF i = n THEN x % q ^ n
                            ELSE rest[i + 1] - (rest[i + 1] \div q ^ i) * q ^ i
  IN  [i \in 1 .. n |-> rest[i] \div q ^ (i - 1)]

(* from_block when q is a power of two, of a block given as the set of its *)
(* bits that are one: n digits, each of the block's n-th part.             *)
SplitDigits(block, q) ==
  LET n == DigitsPerBlock(q)
      width == (ByteBits * Positions) \div n
  IN  [i \in 1 .. n |->
         MapThenSumSet(LAMBDA j : 2 ^ j,
                       {j \in 0 .. width - 1 : width * (i - 1) + j \in block})]
-----------------------------------------------------------------------------
(* Both ways give a block the same digits, each below q, and together they *)
(* are the block modulo q ^ n (from_block, 675-700).                       *)
DigitsAgree(x, q) ==
  LET n == DigitsPerBlock(q)
      ds == FromBlockLookup(x, q)
  IN  /\ ds = Unrank(x, q)
      /\ \A i \in 1 .. n : ds[i] \in 0 .. q - 1
      /\ MapThenSumSet(LAMBDA i : ds[i] * q ^ (i - 1), 1 .. n) = x % q ^ n
=============================================================================
