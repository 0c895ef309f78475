CONSTANTS t1 = t1
          t2 = t2
          t3 = t3
          d1 = d1
          d2 = d2
          Threads <- MCThreads
          Daemons <- MCDaemons
          Failed = Failed
SPECIFICATION Spec
INVARIANT CountExact
PROPERTIES VerdictRight WaitEnds
CHECK_DEADLOCK FALSE
