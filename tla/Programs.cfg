SPECIFICATION OneProgram
CONSTANTS
  Commands <- Names
  Lines <- AllLines
  Redirected <- Redirections
  MAX_FDS = 12
  PIPE_SIZE = 1
  MAX_OUTPUT = 2
  MAX_LINES = 4
  FORK_MAY_FAIL = TRUE
  Chars = {"a"}
  LINE = 4
  TEMP = 3
  HISTORY = 3
  WIN_WIDTH = 5
  Callers = {"p", "q", "r"}
  CALLS = 2
  WAITLIST = 4
  Shells = {"s"}
  Terminals = {"t", "u"}
  Old = {0, 1, 2}
  MAX_FOLDER = 6
  Bytes <- Letters
  Inputs <- Texts
  MAX_INPUT = 2
  BUFFER = 20
  MAX_CALLS = 20
  SMALL = 4
  LARGE = 9
  ROUND = 5
  MINSIZE = 4
  MAX_TOP = 9
INVARIANTS
  StdioRestored Plumbing CommandsRunInOrder LeakIsExact OnlyNewestIsWritten
  ColumnsAgree BehindTheEndOnlyAfter UndefinedOnlyAtLimits
  CountersFollow
  FoldersAreOwn ReadsOwnUnless
  WrittenAsFiltered
  CountIsLate
  DumpIsTrue NothingFits
PROPERTIES LineEnds ImplementsLine ImplementsPipelines SessionsStart
CHECK_DEADLOCK FALSE
