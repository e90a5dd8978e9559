\* The parts of the page one by one, the video sessions of the server, and the liveness of the write path.
CONSTANTS
  None = None
  Off = Off
  Names = {"A", "New"}
  Default = "New"
  Contents = {0, 1}
  Empty = 0
  Imports <- MCImports
  QueueSongs = {"a", "b", "c"}
  Edits <- MCEdits
  RetryLimit = 1
  PanelSongs = {"a", "b"}
  Untitled = {"b"}
  Coverless = {"a"}
  MaxLoads = 2
  Limit = 1
  WaveTokens = 2
  MaxTasks = 2
  Folders = {"f", "g"}
  SongsOf <- MCSongsOf
  Queries = {"q", "r"}
  Matches <- MCMatches
  MaxStale = 1
  MaxVersion = 4
  MaxEntries = 3
  Videos = {"v", "w"}
  Positions = {0, 1}
  VideoTokens = 3
  Streams = {"s"}
  Last = 1
  Width = 1
  SubtitleTokens = 2
  PhotosOf <- MCPhotosOf
  Readers = 2
  Batch = 2
  MaxRun = 2
  Photos = {"x", "y", "z"}
  Slots = 2
  Group = 0
  Pin = 1
  MaxDemand = 3
  Clients = {"p"}
  MaxSessions = 2
  ClientTokens = 1
  MaxCreates = 3
  MaxStops = 1
  Paths = {"p"}
  Flushers = {"f"}
  Tree = {"p"}
  Versions <- MCVersions
  MaxEpoch <- MCMaxEpoch
  Clearers = {"c"}
  MaxRepair = 20
  MaxTime = 2
  MaxRestarts = 1
SPECIFICATION Spec
INVARIANTS
  TypeOK
  SavedIsKept
  QueueIsHeardAndShown
  WalkIsAtSong
  CardIsOwners
  LibraryKeepsUp
  ResultsAreSearchs
  SessionServesItem
  RefreshIsUnderWay
  SummaryIsSongs
  PhotoMapIsServed
  FolderIsShown
  SessionsAreAccounted
PROPERTIES
  SearchSettles
  DemandEnds
  EventuallyOnDisk
CHECK_DEADLOCK FALSE
