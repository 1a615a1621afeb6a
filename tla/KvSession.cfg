\* Two tables, a node whose calls fail.
CONSTANTS
  Tables = {t1, t2}
  None = None
  ServerEnds = {"error"}
  MaxRequests = 6
SPECIFICATION Spec
INVARIANTS
  AnswersMatch
  CursorsAreTheNodes
  FinishedOnce
  CallReleased
PROPERTIES
  OperationsEnd
