CONSTANTS p1 = p1
          p2 = p2
          c1 = c1
          c2 = c2
          Producers <- MCProducers
          Consumers <- MCConsumers
          Bound = 2
          MaxCalls = 4
SPECIFICATION Spec

PROPERTIES BlockedEnqueueReturns
CHECK_DEADLOCK FALSE
