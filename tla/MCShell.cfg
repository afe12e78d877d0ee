SPECIFICATION FairSpec
CONSTANTS
  Calls <- MCCalls
  Programs <- MCPrograms
  Inputs <- MCInputs
  Fds <- MCFds
  Capacity = 1
  Failures <- MCFailures
  Careful = TRUE
  Nothing = Nothing
INVARIANT NothingLeaks
PROPERTY KeepsPromise
PROPERTY EveryCallEnds
