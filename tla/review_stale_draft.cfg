\* Serial: an edit after the draft was created.
SPECIFICATION Spec
CONSTANTS
  t1 = t1
  t2 = t2
  b1 = b1
  b2 = b2
  w1 = w1
  w2 = w2
  Missing = Missing
  None = None
  Titles = {t1}
  Bodies = {b1, b2}
  Workers = {w1}
  May <- OneWorker
  Failing = {}
  StopsAt <- Nowhere
  MaxPosts = 2
PROPERTY LiveIsWhatWasReviewed
