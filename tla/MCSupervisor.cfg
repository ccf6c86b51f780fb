SPECIFICATION FairDirSpec
CONSTANTS
  Rows <- Table
  Crashable = {"payments"}
  Beating = {"orders", "payments"}
  MaxDeaths = 1
  MaxCommands = 2
CHECK_DEADLOCK FALSE
INVARIANTS
  NoChildIsLost
  
PROPERTIES
  
  CommandsAreAnswered
