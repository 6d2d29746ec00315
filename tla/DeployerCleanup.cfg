\* Two workers; one claim of the interface's comments.
CONSTANTS
  Targets = {t1}
  Features = {f1}
  Params = {p1, p2}
  Workers = {w1, w2}
  MalformedTargets = {}
  MaxQueue = 2
  Nil = Nil
SPECIFICATION Spec
PROPERTY CleanupRemovesEntries
