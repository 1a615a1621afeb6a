SPECIFICATION Spec
CONSTANTS
  Requests <- MCRequests
  MaxRequests = 2
INVARIANTS RepliesMatchRequests HandledOnlyWithToken
PROPERTY RequestsAreAnswered
CHECK_DEADLOCK FALSE
