SPECIFICATION RagSpec
CONSTANTS
  Docs = {1, 2}
  MaxWrites = 2
  MaxBatches = 2
  MaxRagFaults = 1
CHECK_DEADLOCK FALSE
INVARIANTS
  
  PublishedIsVerified
PROPERTY RollbackIsOwn
