SPECIFICATION WaitSpec
CONSTANTS
  DirOf <- Nested
  Subdirs = {2, 4}
  Hidden = {2}
  Appspec = 1
  Lengths = {1, 4, 8}
  Overhead = 1
  LocalHeader = 1
  CentralHeader = 2
  EndRecord = 1
  Width = 8
  MaxCount = 3
  PartSize = 6
  MaxFileEdits = 1
  Place <- KeyPlaces
  Buckets <- KeySets
  LsLines <- LsCommands
  ListPageSize = 2
  Workers = 2
  MaxChanges = 2
  ScanOrder <- SyncOrder
  SizeOf <- SyncSizes
  Sources <- SyncSources
  Dests <- SyncDests
  Hows <- SyncHows
  Second = 2
  MaxTime = 4
  MaxSyncs = 2
  MaxEdits = 1
  PageLists <- ListsOfPages
  Limits = {1, 2, 1000}
  MaxRuns = 3
  Events <- LogEvents
  LogPageSize = 2
  Conns = {1}
  MaxLive = 1
  Chunks = 2
INVARIANTS
  ClaimedErrorsRetried
CHECK_DEADLOCK FALSE
