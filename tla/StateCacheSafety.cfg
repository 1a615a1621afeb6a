SPECIFICATION Spec
CONSTANTS
  Readers = {r1}
  CallThread <- MCOwnThread
  ResumeThread <- MCOwnThread
  StreamThread = "stream"
  AccountKeys = {a1, a2}
  StorageKeys = {}
  CodeKeys = {}
  Values = {x}
  Empty = Empty
  None = None
  MaxViews = 2
  MaxStateKeys = 1
  MaxCodeKeys = 1
  WithStorage = TRUE
  IdSpace = 8
  FirstView = 3
  LastView = 5
  MaxBatch = 2
  LeafSlots = 3
SYMMETRY MCKeySymmetry
INVARIANTS
  CacheCoherent
  EvictionsListLatest
  CoherenceInv
PROPERTIES
  ImplementsSnapshotReads
  ViewsBounded
