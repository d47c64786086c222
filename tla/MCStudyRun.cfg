SPECIFICATION Spec
CONSTANTS
  NumPaths = 3
  Content = {c1, c2}
  MaxCalls = 2
  MaxTokens = 2
INVARIANTS EveryFileCounted OneFailurePerContent SamplesBounded StatisticsAgree
PROPERTY RunEnds
CHECK_DEADLOCK FALSE
