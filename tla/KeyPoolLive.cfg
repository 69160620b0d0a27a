\* One key, two chats, one restart, under fairness.
SPECIFICATION FairSpec
CONSTANTS
  k1 = k1
  k2 = k2
  c1 = c1
  c2 = c2
  Keys = {k1}
  RegistryOrder <- OneKey
  TaskOrders <- OneOrder
  Calls = {c1, c2}
  Kinds = {"chat"}
  Answers = {200, 402, 0}
  Ladder <- LongLadder
  Day = 6
  Interval = 2
  MaxTries = 2
  MaxCrashes = 1
PROPERTIES CallsEnd  DeadKeyRetired
