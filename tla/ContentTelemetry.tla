---------------------------- MODULE ContentTelemetry ----------------------------
(***************************************************************************)
(* What the Files and Pieces views are told of a download (piece_manager.py: *)
(* build_file_telemetry, build_piece_telemetry): how much of each file is    *)
(* verified, which rows a large torrent is cut down to, and the map of the   *)
(* pieces.  The blocks under way are parameters, sets of <<piece, block>> of *)
(* pieces that are not complete; a byte of TorrentLayout is a block.         *)
(***************************************************************************)
EXTENDS ContentStore, Integers, FiniteSetsExt

CONSTANTS
  FileRows, HeadRows, LeadRows, ActiveRows,  \* rows of the Files view: 250, 20, 12 and 64
  PieceRows, RowsBefore,                     \* rows of the Pieces view: 80 and 8
  MapCells                                   \* cells of its map: 384

ASSUME TelemetryAssumption ==
  /\ {FileRows, HeadRows, LeadRows, ActiveRows, PieceRows, RowsBefore, MapCells} \subseteq Nat
  /\ HeadRows + ActiveRows < FileRows /\ PieceRows > 0 /\ MapCells > 0

Incomplete == DOMAIN pieces \ complete
BlocksUnderWay == UNION {{<<i, o>> : o \in 0 .. pieces[i].length - 1} : i \in Incomplete}

(* complete_prefix                                                          *)
CompleteBytes(upTo) ==
  MapThenSumSet(LAMBDA i : pieces[i].length, complete \cap (1 .. upTo))

(* The pieces at the two ends of a file, as if pieces were cut from the      *)
(* stream.                                                                  *)
FirstPieceOf(f) == Min({Len(pieces), offsets[f] \div PieceLength + 1})
LastPieceOf(f) == Min({Len(pieces), (EndOf(f) - 1) \div PieceLength + 1})

(* Mutant: the last piece is counted twice.                                 *)
MiddleBytesAll(first, last) == CompleteBytes(last) - CompleteBytes(first)

MiddleBytes(first, last) == CompleteBytes(last - 1) - CompleteBytes(first)

(* verified_bytes_for_file                                                  *)
VerifiedBytes(f) ==
  LET first == FirstPieceOf(f)
      last == LastPieceOf(f)
      firstEnd == (first - 1) * PieceLength + pieces[first].length
      lastStart == (last - 1) * PieceLength
      head == IF first \in complete THEN Max({0, Min({EndOf(f), firstEnd}) - offsets[f]}) ELSE 0
      tail == IF last \in complete THEN Max({0, EndOf(f) - Max({offsets[f], lastStart})}) ELSE 0
  IN IF layout[f] = 0 \/ pieces = << >> THEN 0
     ELSE IF first = last THEN IF first \in complete THEN layout[f] ELSE 0
     ELSE Min({layout[f], head + MiddleBytes(first, last) + tail})

(* The files a block of the download lies in.                               *)
ActiveFiles(blocks) ==
  {f \in Files : \E b \in blocks :
     LET at == pieces[b[1]].offset + b[2] IN offsets[f] < at + 1 /\ EndOf(f) > at}

FileState(f, received, requested, skipped) ==
  IF layout[f] = 0 \/ VerifiedBytes(f) >= layout[f] THEN "Complete"
  ELSE IF f \in skipped THEN "Skipped"
  ELSE IF f \in ActiveFiles(received) THEN "Downloading"
  ELSE IF f \in ActiveFiles(requested) THEN "Requested"
  ELSE IF VerifiedBytes(f) > 0 THEN "Partial" ELSE "Missing"

(* The rows at hand and as many of the others, in order, as the view takes.  *)
Filled(rows, others, limit) ==
  rows \cup {r \in others \ rows :
               Cardinality(rows) + Cardinality({s \in others \ rows : s <= r}) <= limit}

CurrentFile == IF Incomplete = {} THEN 1 ELSE FileAt(pieces[Min(Incomplete)].offset)

(* selected_indices                                                         *)
FileRowsShown(active) ==
  LET head == 1 .. Min({HeadRows, Len(layout)})
      budget == Max({1, FileRows - Cardinality(head) - Min({Cardinality(active), ActiveRows})})
      wished == Max({0, CurrentFile - 1 - Min({LeadRows, budget \div 4})})
      from == Min({wished, Max({0, Len(layout) - budget})})
      window == {f \in Files : from < f /\ f <= from + budget}
  IN IF Len(layout) <= FileRows THEN Files
     ELSE Filled(Filled(head \cup window, active, FileRows), Files, FileRows)

--------------------------------------------------------------------------------
(* The Pieces view.                                                         *)
PieceState(i, received, requested) ==
  IF i \in complete THEN "Verified"
  ELSE IF \E b \in received : b[1] = i THEN "Downloading"
  ELSE IF \E b \in requested : b[1] = i THEN "Requested"
  ELSE "Missing"

(* The rows of the detailed table: active pieces first.                     *)
PieceRowsShown(received, requested) ==
  LET active == {i \in DOMAIN pieces :
                   PieceState(i, received, requested) \in {"Downloading", "Requested"}}
      from == IF Incomplete = {} THEN Max({0, Len(pieces) - PieceRows})
              ELSE Max({0, Min(Incomplete) - 1 - RowsBefore})
  IN Filled(Filled({}, active, PieceRows), from + 1 .. Len(pieces), PieceRows)

PiecesPerCell == Max({1, CeilDiv(Len(pieces), MapCells)})
Cells == [c \in 1 .. CeilDiv(Len(pieces), PiecesPerCell) |->
            (c - 1) * PiecesPerCell + 1 .. Min({Len(pieces), c * PiecesPerCell})]

(* copies[i]: the connected peers that have piece i.                        *)
CellState(cell, received, requested, copies) ==
  LET states == {PieceState(i, received, requested) : i \in cell}
  IN IF states = {"Verified"} THEN "verified"
     ELSE IF "Downloading" \in states THEN "downloading"
     ELSE IF "Requested" \in states THEN "requested"
     ELSE IF "Verified" \in states THEN "mixed"
     ELSE IF (\E i \in DOMAIN pieces : copies[i] > 0) /\ \A i \in cell : copies[i] = 0
     THEN "unavailable" ELSE "missing"

--------------------------------------------------------------------------------
(* The bytes of a file that lie in complete pieces.                         *)
BytesInComplete(f) ==
  Cardinality({at \in offsets[f] .. EndOf(f) - 1 :
                 \E i \in complete :
                   pieces[i].offset <= at /\ at < pieces[i].offset + pieces[i].length})

(* File progress is the verified bytes of the file (build_file_telemetry's   *)
(* docstring): the sum over the end pieces and the prefix of those between   *)
(* counts every byte of the file that is in a complete piece, once.          *)
FileProgressIsVerified ==
  prepared => \A f \in Files : VerifiedBytes(f) = BytesInComplete(f)

(* However large the torrent and whatever is under way, the Files view keeps *)
(* to its limit, shows the file the download has come to and, while they fit *)
(* their reserve, all files with a block under way; a file whose progress is *)
(* exact is called Complete only when all of it is verified.                 *)
FileRowsSound(received, requested) ==
  LET active == ActiveFiles(received \cup requested)
      shown == FileRowsShown(active)
  IN /\ Cardinality(shown) = Min({FileRows, Len(layout)})
     /\ Files /= {} => CurrentFile \in shown
     /\ Cardinality(active) <= ActiveRows => active \subseteq shown
     /\ HasV2(generation) \/ \A f \in Files :
          FileState(f, received, requested, {}) = "Complete" <=> BytesInComplete(f) = layout[f]

(* The map has every piece in one cell, a cell is verified when its pieces   *)
(* are, and a download at work shows in the table and in the map.            *)
PieceRowsSound(received, requested) ==
  LET shown == PieceRowsShown(received, requested)
      active == {b[1] : b \in received \cup requested}
      none == [i \in DOMAIN pieces |-> 0]
  IN /\ Len(Cells) <= MapCells /\ FlattenSeq([c \in DOMAIN Cells |-> SetToSortSeq(Cells[c], <)])
                                    = [i \in DOMAIN pieces |-> i]
     /\ Cardinality(shown) <= PieceRows
     /\ Cardinality(active) <= PieceRows => active \subseteq shown
     /\ Incomplete /= {} /\ Cardinality(active) + RowsBefore < PieceRows =>
          Min(Incomplete) \in shown
     /\ \A c \in DOMAIN Cells :
          LET state == CellState(Cells[c], received, requested, none) IN
          /\ state = "verified" <=> Cells[c] \subseteq complete
          /\ state \in {"downloading", "requested"} <=> Cells[c] \cap active /= {}

(* Evaluated between writes, with at most one block received and one asked   *)
(* for.                                                                     *)
TelemetrySound ==
  prepared /\ writing = NotWriting =>
    /\ ~HasV2(generation) => FileProgressIsVerified
    /\ \A received, requested \in {{}} \cup {{b} : b \in BlocksUnderWay} :
         received \cap requested = {}
         => FileRowsSound(received, requested) /\ PieceRowsSound(received, requested)
================================================================================
