\* A stream that is answered with an error.
SPECIFICATION Spec
CONSTANTS
  k1 = k1
  k2 = k2
  c1 = c1
  c2 = c2
  Keys = {k1, k2}
  RegistryOrder <- TwoKeys
  TaskOrders <- BothOrders
  Calls = {c1, c2}
  Kinds = {"stream"}
  Answers = {200, 402}
  Ladder <- ShortLadder
  Day = 2
  Interval = 1
  MaxTries = 2
  MaxCrashes = 0
PROPERTY ClearedBySuccess
