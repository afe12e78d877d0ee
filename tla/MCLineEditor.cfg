SPECIFICATION EditorSpec
CONSTANTS
  Chars = {"a", "b", " ", ")", "P"}
  Brace = ")"
  ByteBefore = "a"
  buflen = 5
  SearchMax = 2
  history_max_len = 3
  PromptLen = 2
  SearchPromptLen = 3
  Indents = {0, 1}
  InitialHistories <- MCHistories
  LastRow = 14
  MaxKeys = 6
  Typists <- MCTypists
  None = None
CHECK_DEADLOCK FALSE
INVARIANT EditorTypeOK
INVARIANT HistoryIsKept
INVARIANT SearchShowsMatch
INVARIANT LineIsShown
