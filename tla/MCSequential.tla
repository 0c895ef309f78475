---------------------------- MODULE MCSequential ----------------------------
(***************************************************************************)
(* The sequential parts of the system, checked side by side: a behaviour   *)
(* picks one of them and leaves the others as they start.                  *)
(***************************************************************************)
EXTENDS EdabitCombine, CircuitBuilder, FrameMemory, BitTranspose

VARIABLES part,                     \* the one that this behaviour is about
          maps, cells, outcome,     \* of WireMap
          input                     \* of BitTranspose and BaseDigits

combine == <<bit_idx, weight, carry, x, y, opened, value>>
wires == <<maps, cells, outcome>>

MCMasks == {0, 1, 3}

(* Three wires in the map, two in a child; two lanes, so that allocations  *)
(* are evicted; ranges that lie inside an allocation, span two, overlap.   *)
R(src, end, dst, mutable) == [src |-> src, end |-> end, dst |-> dst, mutable |-> mutable]
MCLists == {<<R(1, 2, 1, TRUE), R(0, 0, 0, FALSE)>>,
            <<R(0, 1, 0, TRUE), R(1, 1, 2, FALSE)>>,
            <<R(0, 1, 0, FALSE), R(1, 1, 1, FALSE)>>}

W == INSTANCE WireMap
       WITH Top <- 3, LastUsed <- <<2, 1>>, Lanes <- 2, AgeLimit <- 1, Bases <- 1 .. 8,
            Values <- {"v"}, Unset <- "unset", Lists <- MCLists, MaxDepth <- 2, MaxLending <- 2

(* Three frames of three wires; a frame is thrown away at the third push.  *)
Out(src, end) == [src |-> src, end |-> end, output |-> TRUE]
In(src, end) == [src |-> src, end |-> end, output |-> FALSE]
MCCalls == {<<Out(0, 1)>>, <<Out(2, 2), In(0, 1)>>, <<In(1, 2)>>}
MCNewRanges == {<<0, 1>>, <<2, 2>>}

B == INSTANCE BaseDigits WITH ByteBits <- 4, Positions <- 2

Shapes == {<<nrows, ncols>> \in {16, 24, 32, 40} \X {8, 16, 24, 32, 40} :
             /\ MayTranspose(nrows, ncols)
             /\ ncols >= 16 \/ nrows % 16 = 0}
Numbers == (0 .. 255) \X {3, 5, 6, 7, 9, 10, 11, 12, 13, 14, 15}

MCInit == /\ Init
          /\ W!Init
          /\ FrameInit
          /\ BuilderInit
          /\ \/ part \in {"combine", "wires", "frames", "builder"} /\ input = <<>>
             \/ part = "transpose" /\ input \in Shapes
             \/ part = "digits" /\ input \in Numbers

MCNext == /\ \/ part = "combine" /\ Next /\ UNCHANGED <<wires, frameVars, builderVars>>
             \/ part = "wires" /\ W!Next /\ UNCHANGED <<combine, frameVars, builderVars>>
             \/ part = "frames" /\ FrameNext /\ UNCHANGED <<combine, wires, builderVars>>
             \/ part = "builder" /\ BuilderNext /\ UNCHANGED <<combine, wires, frameVars>>
          /\ UNCHANGED <<part, input>>

MCSpec == MCInit /\ [][MCNext]_<<part, combine, wires, frameVars, builderVars, input>>

(* No step depends on the outcome of the last one.                         *)
View == <<part, combine, maps, cells, frameVars, builderVars, input>>
-----------------------------------------------------------------------------
(* Every get, set, allocation, free and borrow of the wire map does to the *)
(* cells of the wires what a map without cache and ages does (WireMap).    *)
WiresKeepContract ==
  W!ContractInit /\ [][part = "wires" => W!ContractStep]_wires

(* Every bit of the matrix goes to its place, each output byte is written  *)
(* and none beside the matrix (BitTranspose).                              *)
TransposesExactly == part = "transpose" => Transposed(input[1], input[2])

(* Both ways of reading a block as digits agree and lose nothing that fits *)
(* (BaseDigits).                                                           *)
DigitsExact == part = "digits" => B!DigitsAgree(input[1], input[2])
=============================================================================
