SPECIFICATION MCSpec
CONSTANTS
  i1 = i1
  i2 = i2
  Instances = {i1, i2}
  LinkTTL = 3
  MaxKeys = 3
  MaxNow = 9
  home = home
  away = away
  proxy = proxy
  sidecar = sidecar
  NoAddress = NoAddress
  Peers = {home, away, proxy, sidecar, NoAddress}
  NoCamera = NoCamera
  camA = camA
  camB = camB
  camC = camC
  Scorable = {camA, camB}
  Unscored = {camC}
  Stale = 3
  MinShot = 2
  Clip = 8
  Evidence <- MCEvidence
  Nets <- MCNets
  Chains <- MCChains
  Files <- MCFiles
INVARIANTS LinksOutliveRoll EditTiles EditFollows CallerIsLastStranger FilledIsAccepted
CHECK_DEADLOCK FALSE
