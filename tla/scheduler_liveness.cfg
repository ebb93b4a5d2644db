SPECIFICATION FairSpec
CONSTANTS
  p1 = p1
  p2 = p2
  p3 = p3
  big = big
  small = small
  f1 = f1
  f2 = f2
  Peers = {p1, p2}
  Pieces = {big, small}
  Blocks = {1, 3}
  PieceOf <- MCPieceOf
  Files = {f2}
  FilesOf <- MCFilesOf
  Ranks = {2, 3}
  DefaultRank = 2
  Payloads = {"good", "short"}
  PipelineLimit = 2
  EndgameThreshold = 1
  MaxRequesters = 2
  Silent = {p1}
  MaxFaults = 1
PROPERTIES
  WantedEventuallyFinished
  RarestFirst
  EndgameDiscipline
CHECK_DEADLOCK FALSE
