CONSTANTS NumTasks = 3
          Inputs <- MCInputs
          PartyA <- MCPartyA
          Sends <- MCSends
          Challenge = {2}
          Chunk <- MCChunk
          Private = {0, 1}
          NumRunners <- OneRunner
          NumConns = 1
          NumDisks = 1
          OutCapacity = 2
SPECIFICATION Spec
PROPERTY Terminates
CHECK_DEADLOCK FALSE
