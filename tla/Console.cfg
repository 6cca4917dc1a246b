SPECIFICATION FairSpec
CONSTANTS
  NumHosts = 3
  Script <- TheScript
  Output <- TheOutput
  Down <- Third
  Dying <- First
  Splitting <- Second
  MaxEmpty = 2
INVARIANTS Transcript Contained
PROPERTIES FilesPlayed ConsoleEnds
CHECK_DEADLOCK FALSE
