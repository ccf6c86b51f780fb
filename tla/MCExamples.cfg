SPECIFICATION Spec
CONSTANTS
  Runs <- MCRuns
  Clicks <- MCClicks
  MaxAttempts = 2
  MaxFaults = 2
CHECK_DEADLOCK FALSE
INVARIANTS
  StreamsKeepTheirOrder
  
  
  CountsAreDistinct
  
  CasesCloseRightly
  ActionsNeedApproval
  FirstDecisionWins
  AlertsMatchFailures
