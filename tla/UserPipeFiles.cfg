SPECIFICATION FairSpec
CONSTANTS
  Users <- TwoUsers
  Lines <- SomeLines
  Size = 1
  MaxLines = 3
  MaxVisits = 2
INVARIANTS ReadWhole
PROPERTIES KeptUntilOpened LineEnds
CHECK_DEADLOCK FALSE
