SPECIFICATION FilesSpec
CONSTANTS
  Chars = {"a", "n"}
  Newline = "n"
  Pushable <- MCPushable
  Kinds = {"file", "stdin", "string"}
  Limits = {1, 2, 4}
  Sources <- MCSources
  MaxText = 4
  AfterLine = FALSE
  Nil = Nil
  Closed = Closed
  Programs = {"reads", "writes", "copies", "pours"}
  Paths = {p, q}
  Nodes = {1, 2, 3}
  NodeOf <- MCNodeOf
  Contents <- MCContents
  Addresses = {x, y}
  MaxStreams = 2
  MaxFile = 3
  StdioBuffer = 1
  CopyBuffer = 2
  StaleUse = FALSE
  OntoItself = FALSE
INVARIANT WrittenIsKept
INVARIANT ClosedIsRefused
INVARIANT CopiesAreWhole
CHECK_DEADLOCK FALSE
PROPERTY KeepsText
SYMMETRY MCSymmetry
