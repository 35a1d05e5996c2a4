\* Two runs of one package at once: do both post?
SPECIFICATION Spec
CONSTANTS
  p1 = p1
  p2 = p2
  u1 = u1
  u2 = u2
  w1 = w1
  w2 = w2
  None = None
  Torn = Torn
  Packages = {p1}
  Urls = {u1}
  UrlOf <- OnePackage
  Workers = {w1, w2}
  Attempts = 1
  AutoTimes = 3
  CliState <- AlwaysState
  MaxClicks = 2
  MaxFaults = 0
  MaxCrashes = 0
INVARIANT AtMostOnePost
