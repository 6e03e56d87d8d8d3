SPECIFICATION Spec
CONSTANTS
  Flow <- AllFlows
  Def <- Definitions
  Calls <- AllCalls
  MaxToken = 7
  MaxTask = 4
  MaxScope = 2
INVARIANTS TaskTokens ScopeCounts NotStuck TimersMatch TerminalClean
PROPERTIES JoinsComplete
CHECK_DEADLOCK FALSE
