SPECIFICATION FairSpec
CONSTANTS
  u1 = u1  url1 = url1  url2 = url2  c1 = c1  c2 = c2  idle = idle
  Users <- OneUser
  Urls <- TwoUrls
  Calls <- TwoCalls
  Idle = idle
  RPM = 1  RPD = 2
  Minute = 1  Day = 2
  Usages = {0, 3}
  Tokens = {0, 2}
  Whole = 2
  Ratios <- RatiosSent
  MaxRows = 2
  Cap = 3
INVARIANTS RateOvershoot QuotaOvershoot
PROPERTIES  WindowReopens
