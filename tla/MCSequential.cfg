CONSTANTS BitSize = 2
          Masks <- MCMasks
          MaxPrototypes = 2
          MaxTasks = 3
          MaxSends = 3
          MaxSingle = 1
          MaxMulti = 2
          MaxWire = 2
          MaxTop = 2
          TickLimit = 3
          Values = {1}
          Default = 0
          Undefined = 9
          Calls <- MCCalls
          NewRanges <- MCNewRanges
SPECIFICATION MCSpec
VIEW View
INVARIANTS CarryExact Consistent ReadsLastWrite CallsSucceed TransposesExactly DigitsExact
           CountsMatch RoundsMatch WritesManifest RanksBelowDependents
PROPERTY WiresKeepContract
CHECK_DEADLOCK FALSE
