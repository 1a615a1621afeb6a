SPECIFICATION FairSpec
CONSTANTS
  Readers = {r1, r2}
  CallThread <- MCOwnThread
  ResumeThread <- MCOwnThread
  StreamThread = "stream"
  AccountKeys = {}
  StorageKeys = {}
  CodeKeys = {c1}
  Values = {x}
  Empty = Empty
  None = None
  MaxViews = 1
  MaxStateKeys = 1
  MaxCodeKeys = 1
  WithStorage = TRUE
  IdSpace = 8
  FirstView = 3
  LastView = 4
  MaxBatch = 1
  LeafSlots = 3
PROPERTIES
  ReadsEnd
  BatchesArePublished
