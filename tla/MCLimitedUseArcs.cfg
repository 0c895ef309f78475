CONSTANTS h1 = h1
          h2 = h2
          h3 = h3
          a = a
          b = b
          c = c
          Threads <- MCThreads
          Tasks <- MCTasks
          Uses <- MCUses
SPECIFICATION Spec
SYMMETRY Symmetry
INVARIANTS NoPanic FreedByLastUse
PROPERTIES CountedSpec
CHECK_DEADLOCK FALSE
