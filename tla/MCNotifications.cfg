SPECIFICATION FairNotifySpec
CONSTANTS
  m1 = m1
  m2 = m2
  bad = bad
  MessageIds = {m1, m2, bad}
  Malformed = {bad}
  MaxFrames = 3
  MaxFaults = 2
  MaxResumes = 2
CHECK_DEADLOCK FALSE
INVARIANTS
  DeliveryIsSound
PROPERTIES
  FramesGetThrough
