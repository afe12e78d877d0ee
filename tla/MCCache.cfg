SPECIFICATION FairSpec
CONSTANTS
  Procs = {"p", "q"}
  Path <- MCPath
  Jars <- MCJars
  Developing = FALSE
  InitialTrees <- MCTrees
  Texts = {"u", "v"}
  Opts = {"a", "b"}
  Edited <- MCEdited
  SourceMaps <- MCSettings
  Size <- MCSize
  FirstSecond = 2
  LastSecond = 3
  Customs <- MCCustoms
  None = None
INVARIANT RunsItsCode
INVARIANT BelongTogether
PROPERTY SettlesDown
