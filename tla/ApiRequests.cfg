SPECIFICATION Spec
CONSTANTS
  ChunkSize = 3
  ApiSpec <- AllNamespaces
  Methods <- MCMethods
INVARIANTS
  TransactionReleased
  StreamedReplyIsJson
PROPERTY
  EveryRequestIsAnswered
CHECK_DEADLOCK FALSE
