\* One job after another over pages whose text may change between crawls.
SPECIFICATION Spec
CONSTANTS
  p1 = p1
  p2 = p2
  p3 = p3
  u1 = u1
  u2 = u2
  a = a
  b = b
  j1 = j1
  None = None
  Packages = {p1, p2, p3}
  Urls = {u1, u2}
  UrlOf <- SharedUrl
  Texts = {a, b}
  Jobs = {j1}
  Times = 3
  MaxItems = 2
  MaxFaults = 2
  MaxStops = 1
INVARIANTS TypeOK OkIsLive StatusHasDraft BuiltIsOwnContent
PROPERTY NeverSetBack
SYMMETRY PipelineSymmetry
