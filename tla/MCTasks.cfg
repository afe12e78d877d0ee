\* tasks.c with the main thread and three task threads, each used over and over.
CONSTANTS
  Main = main
  Workers = {w1, w2, w3}
  NoOne = no_one
SPECIFICATION FairSpec
INVARIANTS CounterIsExact NoLostWakeup
PROPERTY KeepsPromise
