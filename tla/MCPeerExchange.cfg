CONSTANTS Num = 1
          Bits = 2
          Buckets = 2
          Cut = 1
          Security = 1
          Degree <- MCDegree
          Fetch = 6
          Leftover = 1
          BufferSizes = {1, 20}
          SocketSize = 1
SPECIFICATION Spec
INVARIANTS NoMisread SameCorrelations CommittedBeforeChallenge
PROPERTY Terminates
CHECK_DEADLOCK FALSE
