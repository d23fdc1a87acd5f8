SPECIFICATION Spec
CONSTANTS
  None = None
  d1 = d1
  d2 = d2
  x1 = x1
  x2 = x2
  p1 = p1
  p2 = p2
  s1 = s1
  h1 = h1
  h2 = h2
  h3 = h3
  r1 = r1
  r2 = r2
  Tokens = {d1, d2}
  Secrets = {x1, x2}
  Creds = {p1, p2}
  Sessions = {s1}
  Challenges = {h1, h2, h3}
  Reqs = {r1, r2}
  MaxPending = 1
  Worlds <- MCWorlds
SYMMETRY Symmetry
CHECK_DEADLOCK FALSE
INVARIANTS DoorStaysShut OneUse
PROPERTIES ImplementsMembership
