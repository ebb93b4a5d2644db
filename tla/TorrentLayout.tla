----------------------------- MODULE TorrentLayout -----------------------------
(***************************************************************************)
(* How content becomes a torrent and a torrent becomes pieces: what          *)
(* TorrentCreator writes, what TorrentFile reads out of it, the hashes of    *)
(* BEP-52, and the piece layer that is served to magnet downloads.           *)
(*                                                                          *)
(* Content is a sequence of file lengths; a byte stands for a Merkle block   *)
(* of 16 KiB.  A hash function is injective, so the hash of something is     *)
(* that thing: SHA-1 of a piece is the piece, and a parent in a Merkle tree  *)
(* is the pair of its children.                                             *)
(***************************************************************************)
EXTENDS Naturals, Sequences, SequencesExt

CONSTANT PieceLength    \* a power of two, in blocks

Power(k) == LET power[j \in 0 .. k] == IF j = 0 THEN 1 ELSE 2 * power[j - 1] IN power[k]

ASSUME LayoutAssumption == PieceLength \in Nat /\ \E k \in 0 .. PieceLength : PieceLength = Power(k)

Generations == {"v1", "v2", "hybrid"}
HasV1(generation) == generation \in {"v1", "hybrid"}
HasV2(generation) == generation \in {"v2", "hybrid"}

Total(lengths) ==
  LET upTo[n \in 0 .. Len(lengths)] == IF n = 0 THEN 0 ELSE upTo[n - 1] + lengths[n]
  IN  upTo[Len(lengths)]
CeilDiv(n, d) == (n + d - 1) \div d

(* The real bytes of file f, and the zeros of padding.                      *)
FileBytes(lengths, f) == [o \in 1 .. lengths[f] |-> <<f, o>>]
Zeros(n) == [o \in 1 .. n |-> <<0, 0>>]
Content(lengths) == FlattenSeq([f \in 1 .. Len(lengths) |-> FileBytes(lengths, f)])

(* The bytes in groups of `size`, the last of them what is left.            *)
Chunks(s, size) ==
  [i \in 1 .. CeilDiv(Len(s), size) |->
     SubSeq(s, (i - 1) * size + 1, IF i * size < Len(s) THEN i * size ELSE Len(s))]

--------------------------------------------------------------------------------
(* torrent_v2.py                                                            *)

HashBlock(byte) == <<byte>>
Parents(row) == [i \in 1 .. Len(row) \div 2 |-> <<row[2 * i - 1], row[2 * i]>>]

(* zero_hash: the subtree of nothing but padding.                           *)
ZeroHash(layer) ==
  LET zero[k \in 0 .. layer] == IF k = 0 THEN <<0>> ELSE <<zero[k - 1], zero[k - 1]>>
  IN zero[layer]

(* The rows of a tree above n hashes; the power of two they make up.         *)
Depth(n) == CHOOSE k \in 0 .. n : n <= Power(k) /\ (k = 0 \/ Power(k - 1) < n)
NextPowerOfTwo(n) == Power(Depth(n))
PieceLayerDepth == Depth(PieceLength)

(* merkle_root_from_hashes                                                  *)
MerkleRoot(hashes, layer) ==
  LET missing == NextPowerOfTwo(Len(hashes)) - Len(hashes)
      leaves == hashes \o [i \in 1 .. missing |-> ZeroHash(layer)]
      depth == Depth(Len(hashes))
      row[k \in 0 .. depth] == IF k = 0 THEN leaves ELSE Parents(row[k - 1])
  IN IF hashes = << >> THEN ZeroHash(layer) ELSE row[depth][1]

Leaves(data) == [i \in 1 .. Len(data) |-> HashBlock(data[i])]
FileRoot(data) == MerkleRoot(Leaves(data), 0)

(* Mutant: the last, shorter piece is reduced as it is.                     *)
PieceLayerUnbalanced(data) ==
  [i \in 1 .. CeilDiv(Len(data), PieceLength) |->
     MerkleRoot(Leaves(Chunks(data, PieceLength)[i]), 0)]

(* piece_layer_hashes_from_data: every hash covers a whole piece's subtree.  *)
PieceLayer(data) ==
  [i \in 1 .. CeilDiv(Len(data), PieceLength) |->
     LET group == Leaves(Chunks(data, PieceLength)[i])
     IN MerkleRoot(group \o [j \in 1 .. PieceLength - Len(group) |-> ZeroHash(0)], 0)]

VerifyPieceLayer(root, layer, length) ==
  /\ length > 0 /\ Len(layer) = CeilDiv(length, PieceLength)
  /\ MerkleRoot(layer, PieceLayerDepth) = root

--------------------------------------------------------------------------------
(* torrent_creator.py                                                       *)

PadTo(length) == (PieceLength - (length % PieceLength)) % PieceLength
Padded(lengths, f, generation) == generation = "hybrid" /\ f < Len(lengths)

(* What feed_v1 hashes, file after file.                                    *)
V1Stream(lengths, generation) ==
  FlattenSeq([f \in 1 .. Len(lengths) |->
    FileBytes(lengths, f)
      \o IF Padded(lengths, f, generation) THEN Zeros(PadTo(lengths[f])) ELSE << >>])

V1Files(lengths, generation) ==
  FlattenSeq([f \in 1 .. Len(lengths) |->
    <<[length |-> lengths[f], padding |-> FALSE]>>
      \o IF Padded(lengths, f, generation) /\ PadTo(lengths[f]) > 0
         THEN <<[length |-> PadTo(lengths[f]), padding |-> TRUE]>> ELSE << >>])

(* The metainfo create() writes; v1 has neither tree nor layers, v2 no       *)
(* pieces.                                                                  *)
Metainfo(lengths, generation) ==
  [pieces |-> IF HasV1(generation) THEN Chunks(V1Stream(lengths, generation), PieceLength)
              ELSE << >>,
   files |-> IF HasV1(generation) THEN V1Files(lengths, generation) ELSE << >>,
   tree |-> IF ~HasV2(generation) THEN << >>
            ELSE [f \in 1 .. Len(lengths) |->
                    [length |-> lengths[f],
                     root |-> IF lengths[f] = 0 THEN << >> ELSE FileRoot(FileBytes(lengths, f)),
                     layer |-> IF lengths[f] > PieceLength
                               THEN PieceLayer(FileBytes(lengths, f)) ELSE << >>]]]

--------------------------------------------------------------------------------
(* torrent_file.py                                                          *)

RealFiles(files) ==
  FlattenSeq([i \in 1 .. Len(files) |-> IF files[i].padding THEN << >> ELSE <<files[i]>>])
LengthsOf(entries) == [i \in 1 .. Len(entries) |-> entries[i].length]

(* _parse_v1_payload                                                        *)
V1Accepted(info) ==
  Len(info.pieces) = CeilDiv(Total(LengthsOf(info.files)), PieceLength)

(* _parse_v2_payload                                                        *)
V2Accepted(info) ==
  \A f \in DOMAIN info.tree :
    LET file == info.tree[f] IN
    /\ (file.length = 0) = (file.root = << >>)
    /\ file.length > PieceLength => VerifyPieceLayer(file.root, file.layer, file.length)

(* _build_v2_piece_map: where every piece of every file is.                 *)
PieceMap(tree) ==
  FlattenSeq([f \in 1 .. Len(tree) |->
    [i \in 1 .. CeilDiv(tree[f].length, PieceLength) |->
      LET start == (i - 1) * PieceLength
          before == Total(LengthsOf(SubSeq(tree, 1, f - 1)))
          left == tree[f].length - start
      IN [file |-> f, start |-> start, offset |-> before + start,
          length |-> IF left < PieceLength THEN left ELSE PieceLength,
          whole |-> tree[f].length <= PieceLength, root |-> tree[f].root,
          hash |-> IF tree[f].length <= PieceLength THEN << >> ELSE tree[f].layer[i]]]])

(* The padding after real file n of the v1 list, and what precedes entry i.  *)
RealBefore(files, i) == Total([j \in 1 .. i |-> IF files[j].padding THEN 0 ELSE 1])
PaddingAfter(files, n) ==
  Total([i \in 1 .. Len(files) |->
           IF files[i].padding /\ RealBefore(files, i) = n THEN files[i].length ELSE 0])
StreamBefore(files, i) == Total(LengthsOf(SubSeq(files, 1, i - 1)))

(* _validate_hybrid_equivalence                                             *)
HybridAccepted(info) ==
  LET real == RealFiles(info.files) IN
  /\ LengthsOf(real) = LengthsOf(info.tree)
  /\ \A i \in DOMAIN info.files :
       /\ info.files[i].padding => info.files[i].length > 0 /\ RealBefore(info.files, i) > 0
       /\ ~info.files[i].padding /\ RealBefore(info.files, i) > 1
            => StreamBefore(info.files, i) % PieceLength = 0
  /\ \A n \in 1 .. Len(real) - 1 : PaddingAfter(info.files, n) = PadTo(real[n].length)
  /\ Len(info.pieces) = Len(PieceMap(info.tree))

(* _load_and_parse                                                          *)
Accepted(info, generation) ==
  /\ HasV1(generation) => V1Accepted(info)
  /\ HasV2(generation) => V2Accepted(info)
  /\ generation = "hybrid" => HybridAccepted(info)

(* hybrid_piece_padding: zeros that follow the last piece of a file.        *)
HybridPadding(info, i) ==
  LET map == PieceMap(info.tree)
      last == i = Len(map) \/ map[i + 1].file /= map[i].file
  IN IF last THEN PaddingAfter(info.files, map[i].file) ELSE 0

--------------------------------------------------------------------------------
(* PieceManager._initialize_pieces: the pieces of the download.  Without v2  *)
(* they are cut from the stream; with it they are those of the map.         *)
PiecesOfTorrent(info, generation) ==
  IF HasV2(generation)
  THEN [i \in 1 .. Len(PieceMap(info.tree)) |->
          LET entry == PieceMap(info.tree)[i] IN
          [file |-> entry.file, start |-> entry.start,
           offset |-> entry.offset, length |-> entry.length,
           padding |-> IF generation = "hybrid" THEN HybridPadding(info, i) ELSE 0,
           sha1 |-> IF generation = "hybrid" THEN <<info.pieces[i]>> ELSE << >>,
           whole |-> entry.whole, root |-> entry.root, hash |-> entry.hash]]
  ELSE LET total == Total(LengthsOf(info.files)) IN
       [i \in 1 .. Len(info.pieces) |->
          LET left == total - (i - 1) * PieceLength IN
          [file |-> 0, start |-> 0,
           offset |-> (i - 1) * PieceLength,
           length |-> IF left < PieceLength THEN left ELSE PieceLength,
           padding |-> 0, sha1 |-> <<info.pieces[i]>>,
           whole |-> FALSE, root |-> << >>, hash |-> << >>]]

(* Piece.verify_data                                                        *)
VerifyData(piece, data) ==
  /\ Len(data) = piece.length
  /\ piece.sha1 /= << >> => data \o Zeros(piece.padding) = piece.sha1[1]
  /\ piece.whole => FileRoot(data) = piece.root
  /\ ~piece.whole /\ piece.hash /= << >> => PieceLayer(data) = <<piece.hash>>
  /\ piece.sha1 /= << >> \/ piece.hash /= << >> \/ piece.whole

--------------------------------------------------------------------------------
(* _v2_hash_response of session.py: `length` hashes of the piece layer from  *)
(* `index` on, filled up with the hashes of padding.                        *)
HashResponse(tree, root, index, length) ==
  LET file == CHOOSE f \in DOMAIN tree : tree[f].root = root /\ tree[f].length > 0
      count == CeilDiv(tree[file].length, PieceLength)
      layer == IF count = 1 THEN <<root>> ELSE tree[file].layer
      upTo == IF index + length < count THEN index + length ELSE count
      selected == SubSeq(layer, index + 1, upTo)
  IN selected \o [i \in 1 .. length - Len(selected) |-> ZeroHash(PieceLayerDepth)]

(* _fetch_v2_piece_layers of magnet.py: the layer is asked for two by two,   *)
(* and what is padding is left out.                                         *)
FetchedLayer(tree, f) ==
  LET count == CeilDiv(tree[f].length, PieceLength)
      pair(k) == HashResponse(tree, tree[f].root, 2 * k - 2, 2)
      wanted(k) == IF count - (2 * k - 2) < 2 THEN 1 ELSE 2
  IN FlattenSeq([k \in 1 .. CeilDiv(count, 2) |-> SubSeq(pair(k), 1, wanted(k))])
================================================================================
