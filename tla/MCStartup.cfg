SPECIFICATION Spec
CONSTANTS
  Argvs <- MCArgvs
  Envs <- MCEnvs
  Wrong <- MCWrong
  Throwing <- MCThrowing
  MaxLines = 2
  MaxInterrupts = 2
  Hasty = FALSE
  None = None
INVARIANTS ReadsAsMeant RunsInOrder HandsOver InterruptsItsOwn
PROPERTY ReadyComes
CHECK_DEADLOCK FALSE
