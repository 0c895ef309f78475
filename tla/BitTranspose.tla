---------------------------- MODULE BitTranspose ----------------------------
(***************************************************************************)
(* sse_trans, the transposition of a bit matrix behind the oblivious       *)
(* transfer extensions (ocelot/cbits/transpose.c; ocelot/src/utils.rs).    *)
(*                                                                         *)
(* The code only moves bits, so a bit is named by the row and column it    *)
(* comes from, and one run of the loops covers every matrix of a shape.    *)
(* Memory is a function from byte addresses to the eight bits of a byte.   *)
(* Numbers of rows and columns wrap at Width, as uint64_t does.            *)
(***************************************************************************)
EXTENDS Integers, FiniteSets

Width == 1024   \* 2^64 in the code; a power of two above every product here

(* INP: bit b of the byte that holds row x from column y on.               *)
InputByte(x, y) == [b \in 0 .. 7 |-> <<x, (y - (y % 8)) + b>>]

(* The byte address behind OUT(x, y).                                      *)
OutputAddress(nrows, x, y) == (y * nrows) \div 8 + x \div 8

(* _mm_movemask_epi8 after 7 - i shifts to the left: bit i of each byte.   *)
Mask(vec, i) == [j \in 0 .. 15 |-> vec[j][i]]

Low(h) == [b \in 0 .. 7 |-> h[b]]
High(h) == [b \in 0 .. 7 |-> h[b + 8]]

(* A write of bytes: the address of each and what is written there.        *)
Written(out, ws) ==
  [a \in DOMAIN out \cup {w[1] : w \in ws} |->
     IF \E w \in ws : w[1] = a THEN (CHOOSE w \in ws : w[1] = a)[2] ELSE out[a]]

(* The main body: blocks of 16 rows and 8 columns.                         *)
Blocks(nrows, ncols) ==
  {<<rr, cc>> \in {16 * k : k \in 0 .. nrows \div 16} \X {8 * k : k \in 0 .. ncols \div 8} :
     rr <= (nrows - 16) % Width /\ cc < ncols}

BlockWrites(nrows, rr, cc) ==
  LET vec == [j \in 0 .. 15 |-> InputByte(rr + j, cc)]
  IN  UNION {{<<OutputAddress(nrows, rr, cc + i), Low(Mask(vec, i))>>,
              <<OutputAddress(nrows, rr, cc + i) + 1, High(Mask(vec, i))>>} : i \in 0 .. 7}

(* The remaining 8 rows, two blocks of 8 columns at a time.  The branch    *)
(* with _mm_set_epi16 is never taken: there nrows % 16 is always 8.        *)
PairColumns(ncols) ==
  {cc \in {16 * k : k \in 0 .. Width \div 16 - 1} : cc <= (ncols - 16) % Width}

(* Mutant: both blocks of a pair take the columns of the first.            *)
SameColumns(nrows, rr, cc) ==
  LET vec == [j \in 0 .. 15 |-> InputByte(rr + (j % 8), cc)]
  IN  UNION {{<<OutputAddress(nrows, rr, cc + i), Low(Mask(vec, i))>>,
              <<OutputAddress(nrows, rr, cc + i + 8), High(Mask(vec, i))>>} : i \in 0 .. 7}

PairWrites(nrows, rr, cc) ==
  LET vec == [j \in 0 .. 15 |-> InputByte(rr + (j % 8), cc + 8 * (j \div 8))]
  IN  UNION {{<<OutputAddress(nrows, rr, cc + i), Low(Mask(vec, i))>>,
              <<OutputAddress(nrows, rr, cc + i + 8), High(Mask(vec, i))>>} : i \in 0 .. 7}

(* The last 8 rows and columns.                                            *)
CornerWrites(nrows, rr, cc) ==
  {<<OutputAddress(nrows, rr, cc + i), [b \in 0 .. 7 |-> InputByte(rr + b, cc)[i]]>> : i \in 0 .. 7}

(* What sse_trans leaves in out, from nothing.                             *)
SseTrans(nrows, ncols) ==
  LET rr == nrows - (nrows % 16)
      pairs == PairColumns(ncols)
      cc == 16 * Cardinality(pairs)
      body == UNION {BlockWrites(nrows, b[1], b[2]) : b \in Blocks(nrows, ncols)}
      rest == UNION {PairWrites(nrows, rr, c) : c \in pairs}
  IN  Written(<<>>, body \cup (IF rr = nrows THEN {}
                              ELSE rest \cup IF cc = ncols THEN {} ELSE CornerWrites(nrows, rr, cc)))

(* _transpose: what the callers may pass.                                  *)
MayTranspose(nrows, ncols) == nrows >= 16 /\ nrows % 8 = 0 /\ ncols % 8 = 0

(* Every bit of the result is the one of the transposed place, and nothing *)
(* is written beside it (sse_trans, 40-107).                               *)
Transposed(nrows, ncols) ==
  LET out == SseTrans(nrows, ncols)
  IN  /\ DOMAIN out = 0 .. (nrows * ncols) \div 8 - 1
      /\ \A x \in 0 .. nrows - 1, y \in 0 .. ncols - 1 :
            out[OutputAddress(nrows, x, y)][x % 8] = <<x, y>>
=============================================================================
