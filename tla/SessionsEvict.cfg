\* Two closings evict at the same time.
SPECIFICATION Spec
CONSTANTS
  h1 = h1
  h2 = h2
  d1 = d1
  NoCode = NoCode
  Handlers = {h1, h2}
  Codes = {}
  Limit = 1
  PerClose = 1
  MaxSessions = 2
  MaxLessons = 3
  MaxCrashes = 0
PROPERTY EvictsOnlyExcess
