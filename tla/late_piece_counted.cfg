SPECIFICATION Spec
CONSTANTS
  p1 = p1
  p2 = p2
  p3 = p3
  big = big
  small = small
  f1 = f1
  f2 = f2
  Peers = {p1, p2}
  Pieces = {big, small}
  Blocks = {1, 3}
  PieceOf <- MCPieceOf
  Files = {f1, f2}
  FilesOf <- MCFilesOf
  Ranks = {2}
  DefaultRank = 2
  Payloads = {"good", "short"}
  PipelineLimit = 2
  EndgameThreshold = 2
  MaxRequesters = 2
  Silent = {}
  MaxFaults = 1
INVARIANT CountedOnce
CHECK_DEADLOCK FALSE
