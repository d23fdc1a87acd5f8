SPECIFICATION Spec
CONSTANTS
  p1 = p1
  p2 = p2
  p3 = p3
  p4 = p4
  p5 = p5
  d1 = d1
  porch = porch
  drive = drive
  yard = yard
  Objects = {p1, p2, p3, p4, p5, d1}
  CameraOf <- Spread
  LabelOf <- PeopleAndPackage
  Labels = {"person"}
  Neighbours <- Chain
  Zones = {"walk"}
  Media = {FALSE}
  Overlap = 1
  MaxBoxes = 2
  Lag = 0
  Worlds <- MCWorlds
SYMMETRY LookAlikes
INVARIANTS CountsTogether BoxesKeepOpening OneIncident
PROPERTIES StragglersStayOut ClosesAfterGap ChangesAlternate
