SPECIFICATION FairSpec
CONSTANTS
  ServerEnds = {"ok", "error"}
  MaxView = 4
PROPERTIES
  BatchesInOrder
  SurvivesFailures
  CloseStopsHealthyLoop
CHECK_DEADLOCK FALSE
