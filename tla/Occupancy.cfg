SPECIFICATION MCSpec
CONSTANTS
  o1 = o1
  o2 = o2
  camA = camA
  Nobody = Nobody
  Objects = {o1, o2}
  Watches <- OneLot
  CameraOf <- SameCamera
  LabelOf <- AllCars
  Zones = {"lot"}
  Boxes <- GarageBoxes
  Skew = 1
  Horizon = 5
INVARIANTS TypeOK BeliefBracketed ArrivalDwelt DepartureAnchored SpotCountedOnce
PROPERTIES IdentityFresh
