SPECIFICATION FairSpec
CONSTANTS
  Op = {o1, o2, o3}
  None = None
  Kind <- MCKind
  Low = 1
  High = 1
  MaxIo = 1
  SyncMode <- MCSyncMode
  Faults = {"svc", "aio", "lio"}
INVARIANTS SyncedBeforeReply SizeOnDisk NothingStuck SlotsExact
PROPERTY EverythingCompletes
CHECK_DEADLOCK FALSE
