SPECIFICATION FairSpec
CONSTANTS
  Queries = {q1}
  Paths = {p1}
  Tokens = {1}
  Reasons = {}
  Calls = {"unlisten"}
  MaxPuts = 1
  MaxSpecs = 1
  MaxTokens = 0
  MaxDrops = 1
PROPERTIES
  WritesAreAnswered
CHECK_DEADLOCK FALSE
