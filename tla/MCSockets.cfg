SPECIFICATION Spec
CONSTANTS
  Outbound = {c1}
  Inbound = {c2}
  Bytes = {"a", "b"}
  Speech <- MCSpeech
  Leads = {}
  Trails = {}
  Texts <- MCTexts
  Capacity = 1
  Chunk = 2
  MaxSent = 2
  MaxEnds = 2
  MaxWrites = 2
  MaxEvaluations = 1
  MainLocks = TRUE
  None = None
  Main = Main
INVARIANTS TypeOK
PROPERTIES KeepsPromise ClosedIsTold
CHECK_DEADLOCK FALSE
