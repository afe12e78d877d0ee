\* Threads that cannot be created, bad delays, throwing callbacks, unlocked timers.
CONSTANTS
  Main = main
  Timers = {t1, t2, t3}
  Shells = {s1}
  NoOne = no_one
  MaxTimeouts = 2
  MaxIntervals = 1
  MaxTasks = 2
  Evals = 1
  MainNs = TRUE
  Delays = {"valid", "negative", "not_a_number"}
  Habits = {"sh_async", "clear", "interval_throws", "unlocked_timer"}
  ThreadsFail = TRUE
SPECIFICATION Spec
CHECK_DEADLOCK FALSE
SYMMETRY TimerSymmetry
INVARIANTS NoEarlyExit EveryTimeoutAccountedFor
