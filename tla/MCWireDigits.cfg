CONSTANTS ByteBits = 8
          Positions = 16
SPECIFICATION Spec
INVARIANT ColorBelowModulus
