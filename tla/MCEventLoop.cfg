\* A script, then the function of -m: timers, an interval and a shell interaction.
CONSTANTS
  Main = main
  Timers = {t1, t2, t3, t4}
  Shells = {s1}
  NoOne = no_one
  MaxTimeouts = 2
  MaxIntervals = 1
  MaxTasks = 8
  Evals = 2
  MainNs = TRUE
  Delays = {"valid"}
  Habits = {"sh_async", "clear", "exit"}
  ThreadsFail = FALSE
SPECIFICATION FairSpec
INVARIANTS CounterIsExact NoOrphanTimer
INVARIANTS ClearedStaysSilent LockedEvaluation OnlyClearedTimersOutliveTheEngine
PROPERTIES KeepsPromise ScriptTerminates
