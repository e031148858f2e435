SPECIFICATION MCSpec
CONSTANTS
  Byte = 5
  Blank = " "
  Newline = "newline"
  Return = "return"
  VgaRows = 3
  VgaCols = 2
  Char = {"a", "b", "0"}
  Zero = "0"
  Texts <- KernelTexts
  HeaderText <- KernelHeader
  Corner <- Corners
  Drawn = {"a"}
  VgaScrollBound = 1
  Rows = 4
  Cols = 3
  AppChar = {"a", "b", "o", "z", ">", " "}
  Rect <- AppParts
  AppTexts <- PrintedByApps
  ScrollBound = 1
  ShellRect <- ShellPart
  Typed = {"a", "b"}
  Prompt <- PromptText
  QuitLine <- Quit
  Output <- Answers
  Junk <- Garbage
  LineBound = 6
  ShellScrollBound = 4
  Command <- Commands
  Quote = "quote"
  Space = "space"
  AppOf <- Registry
  QuitWord <- QuitName
  ListSize = 2
  ShellBound = 3
INVARIANTS RowsShown LineShown ArgumentsOwned
CHECK_DEADLOCK FALSE
