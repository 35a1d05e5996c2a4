\* One worker at a time, the driver's default of one attempt, two packages.
SPECIFICATION Spec
CONSTANTS
  p1 = p1
  p2 = p2
  u1 = u1
  u2 = u2
  w1 = w1
  w2 = w2
  None = None
  Torn = Torn
  Packages = {p1, p2}
  Urls = {u1, u2}
  UrlOf <- OwnUrls
  Workers = {w1}
  Attempts = 1
  AutoTimes = 3
  CliState <- AlwaysState
  MaxClicks = 2
  MaxFaults = 2
  MaxCrashes = 2
INVARIANTS TypeOK AtMostOnePost PostLeavesTrace OneOkRun BookedInOrder NoPhantom
PROPERTIES ClickIsReserved KeepsPromise
