CONSTANTS
  Width = 2
  Ids <- ConstIds
  CountMax = 2
  MaxFrameLen = 20
  Topics <- ConstTopics
  Roster <- ConstRoster
  Blobs <- ConstBlobs
  Events <- ConstEvents
  MaxMembers = 3
  MaxEntries = 3
  MaxBody = 13
  InboxLen = 1
  Window = 2
  MaxItems = 3
  Session = "session"
  Up <- ConstUp
  Down <- ConstDown
  Contents <- ConstContents
  Quota <- ConstQuota
  Drops <- ConstDrops
SPECIFICATION Spec
INVARIANT SnapshotsArriveWhole
INVARIANT TakesWhatIsWanted
INVARIANT NoFrameVanishes
PROPERTY QueuedArrives
CHECK_DEADLOCK FALSE
