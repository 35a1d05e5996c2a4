\* Every run ends, and the auto pipeline completes its bookkeeping.
SPECIFICATION FairSpec
CONSTANTS
  p1 = p1
  p2 = p2
  u1 = u1
  u2 = u2
  w1 = w1
  w2 = w2
  None = None
  Torn = Torn
  Packages = {p1}
  Urls = {u1}
  UrlOf <- OnePackage
  Workers = {w1}
  Attempts = 2
  AutoTimes = 3
  CliState <- AnyState
  MaxClicks = 2
  MaxFaults = 1
  MaxCrashes = 0
PROPERTIES EveryRunEnds AutoBooksPublication
