SPECIFICATION FairSpec
CONSTANTS
  e1 = e1
  e2 = e2
  c1 = c1
  c2 = c2
  v1 = v1
  Events = {e1, e2}
  SentEvents = {e1, e2}
  Cameras = {c1, c2}
  WarmSet = 1
  Margin = 1
  Grace = 1
  WatchBuffer = 2
  StitchQueue = 1
  Viewers = {v1}
  None = None
  Worlds <- MCWorlds
INVARIANTS WorkingSet CutSettled SealedClean
PROPERTIES GoroutinesEnd RendersGoOn
CHECK_DEADLOCK FALSE
