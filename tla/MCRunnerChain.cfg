CONSTANTS NumTasks = 3
          Inputs <- MCInputs
          PartyA <- MCPartyA
          Sends <- MCSends
          Challenge = {0, 2}
          Chunk <- MCChunk
          Private = {0, 1}
          NumRunners <- OneRunner
          NumConns = 1
          NumDisks = 2
          OutCapacity = 2
SPECIFICATION Spec
INVARIANTS TypeOK RightRound Lockstep
PROPERTY TerminatesUnlessDiscarded
CHECK_DEADLOCK FALSE
