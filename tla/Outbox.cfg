CONSTANTS
  Stored = 3
  RecordSize = 2
  BufferSize = 3
SPECIFICATION Spec
INVARIANTS DeletedWasSent
