CONSTANTS NumTasks = 4
          Inputs <- MCInputs
          PartyA <- MCPartyA
          Sends <- MCSends
          Challenge = {3}
          Chunk <- MCChunk
          Private = {}
          NumRunners <- TwoRunners
          NumConns = 2
          NumDisks = 1
          OutCapacity = 1
SPECIFICATION Spec
INVARIANT TopologicalOnWire
CHECK_DEADLOCK FALSE
