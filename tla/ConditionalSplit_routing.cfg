CONSTANTS
  NCases = 2
  HasDefault = TRUE
  NRows = 3
  BatchSize = 2
  Values = {"yes", "no", "null", "error"}
  MayFail = TRUE
SPECIFICATION SplitSpec
INVARIANTS
  RoutedToFirstMatch
  PortsAreSound
