\* A build that fails between its two files, and a later crawl of a changed page.
SPECIFICATION Spec
CONSTANTS
  p1 = p1
  p2 = p2
  p3 = p3
  u1 = u1
  u2 = u2
  a = a
  b = b
  j1 = j1
  None = None
  Packages = {p1, p2}
  Urls = {u1, u2}
  UrlOf <- SharedUrl
  Texts = {a, b}
  Jobs = {j1}
  Times = 3
  MaxItems = 1
  MaxFaults = 1
  MaxStops = 0
INVARIANT OneCrawlPerPackage
SYMMETRY PipelineSymmetry
