------------------------------ MODULE ContentStore ------------------------------
(***************************************************************************)
(* The payload on disk (piece_manager.py): verified pieces are written to    *)
(* the files they cover, one file after the other, in any order; a run may   *)
(* break off between two files, the user may remove or cut files while the   *)
(* torrent is stopped, and the next run checks what is there.  When and by   *)
(* whom pieces are written, and the resume record, are in DiskPipeline.      *)
(***************************************************************************)
EXTENDS TorrentLayout, FiniteSets

CONSTANTS
  Layouts,              \* file lengths of the torrents
  MaxBreaks             \* bound on restarts and damages

ASSUME ContentAssumption == Layouts \subseteq Seq(Nat) /\ MaxBreaks \in Nat

Absent == <<<<0, 2>>>>  \* no file: a byte no file has
Hole == <<0, 1>>        \* a byte that was never written
NotWriting == [piece |-> 0, at |-> 0]

VARIABLES
  layout, generation,   \* the content and the generation of the torrent
  info, pieces, offsets, \* torrent, pieces and _storage_starts
  disk,                 \* content of each file
  prepared, complete,   \* _storage_prepared, and the pieces that are complete
  writing,              \* _write_range under way: its piece, bytes written
  breaks                \* restarts and damages, bounded by MaxBreaks

torrentVars == <<layout, generation, info, pieces, offsets>>
contentVars == <<torrentVars, disk, prepared, complete, writing, breaks>>

Files == 1 .. Len(layout)
MultiFile == Len(layout) > 1

EndOf(f) == offsets[f] + layout[f]
SizeOf(f) == IF disk[f] = Absent THEN 0 ELSE Len(disk[f])
ActualOf(f) == IF SizeOf(f) < layout[f] THEN SizeOf(f) ELSE layout[f]

ContentInit ==
  /\ layout \in Layouts /\ generation \in Generations
  /\ info = Metainfo(layout, generation) /\ pieces = PiecesOfTorrent(info, generation)
  /\ offsets = [f \in 1 .. Len(layout) |-> Total(SubSeq(layout, 1, f - 1))]
  /\ disk = [f \in 1 .. Len(layout) |-> Absent]
  /\ prepared = FALSE /\ complete = {} /\ writing = NotWriting /\ breaks = 0

--------------------------------------------------------------------------------
(* _storage_index_for_offset: the last file that begins at or before the     *)
(* offset, or the next one that has bytes.                                  *)
FileAt(offset) ==
  LET from == {f \in Files : offsets[f] <= offset /\ offset < EndOf(f)}
  IN CHOOSE f \in from : TRUE

(* _read_range: nothing at all when a byte of it is missing.                *)
ReadRange(offset, length) ==
  LET bytes == [i \in 1 .. length |-> <<FileAt(offset + i - 1), offset + i - 1>>]
      there(b) == b[2] - offsets[b[1]] < SizeOf(b[1])
  IN IF \E i \in 1 .. length : ~there(bytes[i]) THEN << >>
     ELSE [i \in 1 .. length |-> disk[bytes[i][1]][bytes[i][2] - offsets[bytes[i][1]] + 1]]

(* _payload_exists: with v2 it is the pieces whose files are long enough.    *)
LongEnough == {i \in DOMAIN pieces : ActualOf(pieces[i].file) >= pieces[i].start + pieces[i].length}

PayloadExists ==
  IF HasV2(generation) THEN LongEnough /= {} ELSE \E f \in Files : disk[f] /= Absent

(* Mutant: a piece is a candidate when the file of its first byte has it.   *)
CandidatesByFirst ==
  IF HasV2(generation) THEN LongEnough
  ELSE {i \in DOMAIN pieces :
          LET first == FileAt(pieces[i].offset)
          IN pieces[i].offset + pieces[i].length <= offsets[first] + ActualOf(first)}

(* _candidate_piece_indices                                                 *)
Candidates ==
  IF HasV2(generation) THEN LongEnough
  ELSE {i \in DOMAIN pieces :
          \E f \in Files :
            /\ ActualOf(f) > 0
            /\ offsets[f] \div PieceLength <= i - 1
            /\ i - 1 <= (offsets[f] + ActualOf(f) - 1) \div PieceLength}

(* _create_empty_storage: the file of a single-file torrent, the empty files *)
(* of another.                                                              *)
EmptyStorage ==
  [f \in Files |-> IF ~MultiFile THEN << >>
                   ELSE IF layout[f] = 0 /\ disk[f] = Absent THEN << >> ELSE disk[f]]

(* prepare_storage without a matching resume record.                        *)
PrepareStorage ==
  /\ ~prepared /\ prepared' = TRUE
  /\ IF PayloadExists
     THEN /\ complete' = {i \in Candidates :
                            VerifyData(pieces[i], ReadRange(pieces[i].offset, pieces[i].length))}
          /\ UNCHANGED disk
     ELSE disk' = EmptyStorage /\ complete' = {}
  /\ UNCHANGED <<torrentVars, writing, breaks>>

--------------------------------------------------------------------------------
(* The download hands verified pieces to the disk.                          *)
BeginWrite(i) ==
  /\ prepared /\ writing = NotWriting /\ i \notin complete
  /\ writing' = [piece |-> i, at |-> 0]
  /\ UNCHANGED <<torrentVars, disk, prepared, complete, breaks>>

Overwritten(old, from, data) ==
  [o \in 1 .. (IF from + Len(data) > Len(old) THEN from + Len(data) ELSE Len(old)) |->
     IF o > from /\ o <= from + Len(data) THEN data[o - from]
     ELSE IF o <= Len(old) THEN old[o] ELSE Hole]

PieceData(i) == SubSeq(Content(layout), pieces[i].offset + 1, pieces[i].offset + pieces[i].length)

(* Mutant: what does not fit is still written to the file.                  *)
SegmentLengthAll(f, at, left) == left

SegmentLength(f, at, left) == IF EndOf(f) - at < left THEN EndOf(f) - at ELSE left

(* _write_range: what the file at hand takes of the piece.                  *)
WriteSegment ==
  /\ writing /= NotWriting /\ writing.at < pieces[writing.piece].length
  /\ LET piece == pieces[writing.piece]
         at == piece.offset + writing.at
         f == FileAt(at)
         n == SegmentLength(f, at, piece.length - writing.at)
         data == SubSeq(PieceData(writing.piece), writing.at + 1, writing.at + n)
         old == IF disk[f] = Absent THEN << >> ELSE disk[f]
     IN /\ disk' = [disk EXCEPT ![f] = Overwritten(old, at - offsets[f], data)]
        /\ writing' = [writing EXCEPT !.at = @ + n]
  /\ UNCHANGED <<torrentVars, prepared, complete, breaks>>

EndWrite ==
  /\ writing /= NotWriting /\ writing.at = pieces[writing.piece].length
  /\ complete' = complete \cup {writing.piece} /\ writing' = NotWriting
  /\ UNCHANGED <<torrentVars, disk, prepared, breaks>>

(* The program ends, whatever it was writing, or a Force Recheck begins.     *)
BreakOff ==
  /\ prepared /\ breaks < MaxBreaks /\ breaks' = breaks + 1
  /\ prepared' = FALSE /\ complete' = {} /\ writing' = NotWriting
  /\ UNCHANGED <<torrentVars, disk>>

(* Meanwhile the user removes a file, or cuts its end off.                  *)
Damage(f) ==
  /\ ~prepared /\ breaks < MaxBreaks /\ breaks' = breaks + 1 /\ disk[f] /= Absent
  /\ \/ disk' = [disk EXCEPT ![f] = Absent]
     \/ SizeOf(f) > 0 /\ disk' = [disk EXCEPT ![f] = SubSeq(@, 1, SizeOf(f) - 1)]
  /\ UNCHANGED <<torrentVars, prepared, complete, writing>>

ContentNext ==
  \/ PrepareStorage \/ WriteSegment \/ EndWrite \/ BreakOff
  \/ \E i \in DOMAIN pieces : BeginWrite(i)
  \/ \E f \in Files : Damage(f)

ContentSpec == ContentInit /\ [][ContentNext]_contentVars

--------------------------------------------------------------------------------
(* read_block for an upload: a peer of generation v1 of a hybrid torrent is  *)
(* sent the padding too.                                                    *)
ReadBlock(i, offset, swarm) ==
  LET piece == pieces[i]
      wire == piece.length + IF swarm = "v1" THEN piece.padding ELSE 0
  IN IF i \notin complete \/ offset >= wire THEN << >>
     ELSE IF offset >= piece.length THEN Zeros(1)
     ELSE ReadRange(piece.offset + offset, 1)

--------------------------------------------------------------------------------
ContentTypeOK ==
  /\ layout \in Layouts /\ generation \in Generations
  /\ complete \subseteq DOMAIN pieces /\ breaks \in 0 .. MaxBreaks
  /\ writing = NotWriting \/ writing.piece \in DOMAIN pieces

(* What the creator writes is what the parser accepts, whatever the lengths  *)
(* of the files; and a v2 magnet download that asks for a piece layer two    *)
(* hashes at a time gets the layer the creator wrote.                       *)
CreatedIsAccepted ==
  /\ Accepted(info, generation)
  /\ \A f \in DOMAIN info.tree :
       info.tree[f].length > PieceLength => FetchedLayer(info.tree, f) = info.tree[f].layer

(* The pieces are the content: cut in the order of the files none overlaps   *)
(* or leaves out another, each verifies its own bytes and not those of       *)
(* another piece.                                                           *)
PiecesCoverContent ==
  /\ FlattenSeq([i \in 1 .. Len(pieces) |-> PieceData(i)]) = Content(layout)
  /\ \A i, j \in DOMAIN pieces : VerifyData(pieces[i], PieceData(j)) <=> i = j

(* Files never hold the bytes of another file or of padding, and none grows  *)
(* beyond its length.                                                       *)
FilesHoldTheirOwn ==
  \A f \in Files :
    disk[f] /= Absent =>
      /\ Len(disk[f]) <= layout[f]
      /\ \A o \in 1 .. Len(disk[f]) : disk[f][o] \in {<<f, o>>, Hole}

(* A check after any crash and any damage finds exactly the pieces that are  *)
(* wholly there; so does a download that has written them.                  *)
CompleteIsOnDisk ==
  prepared =>
    /\ \A i \in complete : ReadRange(pieces[i].offset, pieces[i].length) = PieceData(i)
    /\ \A i \in DOMAIN pieces \ {writing.piece} :
         ReadRange(pieces[i].offset, pieces[i].length) = PieceData(i) => i \in complete

(* Peers of both generations of a hybrid torrent are served the bytes the    *)
(* creator hashed for them, although padding is never on disk.              *)
ServedIsHashed ==
  \A i \in complete :
    LET piece == pieces[i]
        served(swarm, n) == FlattenSeq([o \in 1 .. n |-> ReadBlock(i, o - 1, swarm)])
    IN /\ HasV1(generation) => served("v1", piece.length + piece.padding) = info.pieces[i]
       /\ HasV2(generation) => served("v2", piece.length + piece.padding) = PieceData(i)

(* The first two are about the torrent alone: they are looked at once.       *)
ContentSound ==
  /\ ~prepared /\ breaks = 0 => CreatedIsAccepted /\ PiecesCoverContent
  /\ FilesHoldTheirOwn /\ CompleteIsOnDisk /\ ServedIsHashed
================================================================================
