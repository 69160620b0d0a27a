\* Two handlers, one device beside sessions of no device, one crash, under
\* fairness.
SPECIFICATION FairSpec
CONSTANTS
  h1 = h1
  h2 = h2
  d1 = d1
  NoCode = NoCode
  Handlers = {h1, h2}
  Codes = {d1}
  Limit = 1
  PerClose = 1
  MaxSessions = 2
  MaxLessons = 3
  MaxCrashes = 1
INVARIANTS OneActivePerCode EndedIsRemembered WritesBounded NothingLost TableBounded
PROPERTY StoringCloses
