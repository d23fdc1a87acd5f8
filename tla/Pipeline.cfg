SPECIFICATION FairSpec
CONSTANTS
  None = None
  door = door
  opened = opened
  closed = closed
  Models = {door}
  Classes = {opened, closed}
  News = {door}
  Hold <- MCHold
  AlarmClass <- MCAlarmClass
  AlarmAfter <- MCAlarmAfter
  QueueCap = 1
  RotateEvery = 1
  Retention = 1
  Traffics <- MCTraffics
  MaxTime = 2
  MaxLives = 2
CHECK_DEADLOCK FALSE
INVARIANTS EventsEarned CleanExitKeepsAll
PROPERTIES RebuildRemembers PipelineDrains
