\* Two deletes of one package at once: the second removes what the first kept.
SPECIFICATION StoreSpec
CONSTANTS
  Posts = {p1}
  Bodies = {b1, b2}
  Hands = {h1, h2}
  Tolerated <- AfterTwoDeletes
  Gone = Gone
PROPERTY DeleteIsReversible
CHECK_DEADLOCK FALSE
