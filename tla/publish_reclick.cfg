\* The shipped retry.count of 2: is a live post re-clicked?
SPECIFICATION Spec
CONSTANTS
  p1 = p1
  p2 = p2
  u1 = u1
  u2 = u2
  w1 = w1
  w2 = w2
  None = None
  Torn = Torn
  Packages = {p1, p2}
  Urls = {u1, u2}
  UrlOf <- OwnUrls
  Workers = {w1}
  Attempts = 2
  AutoTimes = 3
  CliState <- AlwaysState
  MaxClicks = 2
  MaxFaults = 0
  MaxCrashes = 0
PROPERTY NeverReclicked
