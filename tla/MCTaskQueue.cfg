CONSTANTS w1 = w1
          w2 = w2
          Workers <- MCWorkers
          Entries <- MCEntries
SPECIFICATION Spec
INVARIANTS NoLostWakeup HandedOutOnce
PROPERTIES BestFirst EveryEntryHandedOut CloseEndsWorkers
CHECK_DEADLOCK FALSE
