SPECIFICATION Spec
CONSTANTS
  p1 = p1
  p2 = p2
  p3 = p3
  big = big
  small = small
  f1 = f1
  f2 = f2
  Peers = {p1, p2}
  Pieces = {big, small}
  Blocks = {1, 2, 3}
  PieceOf <- MCPieceOf
  Files = {f2}
  FilesOf <- MCFilesOf
  Ranks = {0, 2}
  DefaultRank = 2
  Payloads = {"good", "bad", "short"}
  PipelineLimit = 2
  EndgameThreshold = 2
  MaxRequesters = 2
  Silent = {}
  MaxFaults = 2
SYMMETRY PeerSymmetry
INVARIANTS
  TypeOK
  OwnershipExact
  RarityExact
  PiecesKept
CHECK_DEADLOCK FALSE
