\* Two specs, two CAs; a token that comes to the threshold, and then expires.
CONSTANTS
  Specs = {s1, s2}
  CAs = {x1, x2}
  Callers = {g1, g2}
  CachedCallers = {g1}
  Lifetimes = {2}
  Threshold = 1
  None = None
SPECIFICATION FairSpec
INVARIANTS TypeOK OldSpecOnlyWhenJoined HeldIsOfTheSpec
PROPERTIES CallsReturn ExpiredIsReplaced ChangesTakeOver
