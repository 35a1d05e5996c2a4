\* A request thread beside a job thread, the browser, the model or a write failing.
SPECIFICATION Spec
CONSTANTS
  t1 = t1
  t2 = t2
  b1 = b1
  b2 = b2
  w1 = w1
  w2 = w2
  Missing = Missing
  None = None
  Titles = {t1}
  Bodies = {b1, b2}
  Workers = {w1, w2}
  May <- PageAndJob
  Failing = {"edit", "generate"}
  StopsAt <- SomeFaults
  MaxPosts = 2
INVARIANTS TypeOK OnlyReviewedIsClicked CaptionIsBody
PROPERTIES KeepsReviewPromise ReviewIsWhatWasShown
SYMMETRY BodySymmetry
