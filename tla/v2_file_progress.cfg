SPECIFICATION Spec
CONSTANTS
  e1 = e1
  Endpoints = {e1}
  MaxPeers = 1
  MaxStarts = 2
  MaxEvents = 2
  p1 = p1
  p2 = p2
  Ports = {p1, p2}
  Configured = p1
  Requests = {"auto", "off", "ipv6"}
  MaxCalls = 2
  Contacts = {"a", "b"}
  Swarm1 = "v1"
  Swarm2 = "v2"
  PexLimit = 1
  MaxPexOps = 4
  t1 = t1
  t2 = t2
  Entries = {t1, t2}
  MaxStoreOps = 2
  MaxSettingsOps = 2
  AnnounceList <- MCTrackers
  MaxAnnounces = 2
  w1 = w1
  w2 = w2
  Swarms = {w1, w2}
  Batch = 1
  MaxRequests = 3
  Nodes = {1, 2, 3}
  Boot = {3, 2}
  BatchSize = 2
  MaxQueries = 2
  EnoughQueries = 1
  MaxLookups = 2
  h1 = h1
  h2 = h2
  Hosts = {h1, h2}
  ListenPorts = {1, 2}
  MaxAnnouncements = 2
  s1 = s1
  s2 = s2
  Sources = {s1, s2}
  MaxTried = 1
  Parallel = 1
  MetadataPieces = 2
  MaxCommands = 4
  PieceLength = 2
  Layouts <- MCLayouts
  MaxBreaks = 2
  FileRows = 3
  HeadRows = 1
  LeadRows = 1
  ActiveRows = 1
  PieceRows = 3
  RowsBefore = 1
  MapCells = 3
  Names = {1, 2}
  MaxEdits = 2
  Torrents = {t1, t2}
  Backpressure = 2
  MaxViewOps = 2
  MaxIcons = 2
  MaxActions = 2
  Others = {"a", "b"}
  MaxRegistryOps = 4
INVARIANT FileProgressIsVerified
CHECK_DEADLOCK FALSE
