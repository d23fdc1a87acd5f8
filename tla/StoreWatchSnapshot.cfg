SPECIFICATION FairSpec
CONSTANTS
  None = None
  c1 = c1
  s1 = s1
  s2 = s2
  p1 = p1
  front = front
  back = back
  Ids = {1, 2, 3}
  Cameras = {front, back}
  Starts = {1, 2, 3}
  Retention = 1
  MaxHistory = 2
  WatchBuffer = 1
  PageSize = 1
  Clients = {c1}
  Pagers = {p1}
  Subs = {s1, s2}
  Wants <- AnyOrFront
  Worlds <- SnapshotWorlds
PROPERTIES CatchesUp
