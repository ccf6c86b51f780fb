SPECIFICATION WebSpec
CONSTANTS
  Redeliverable <- Repeatable
  MaxRedeliveries = 1
  MaxNotifications = 0
  MaxMounts = 2
  Slots = {1, 2}
  MaxHiccups = 1
  Effects = {1, 2}
  MaxFacts = 2
CHECK_DEADLOCK FALSE

  
PROPERTIES
  FramesReachThePage
  
  NothingLeaks
