------------------------------- MODULE Storage -------------------------------
(***************************************************************************)
(* DiskIO (src/diskio.go), how Torrent.Run starts it (src/torrent.go), the *)
(* bytes left that Stats counts (src/stats.go), and the block arithmetic   *)
(* of a peer (src/peer.go).                                                *)
(*                                                                         *)
(* A torrent is a list of file lengths cut into pieces and blocks.  The    *)
(* right byte at position k of the whole is k itself, so all data differ;  *)
(* 0 is a hole.  A hash is right exactly when the bytes are.  Single file  *)
(* mode is the list with one file: the loops over the files then do what   *)
(* the code of that mode does.                                             *)
(*                                                                         *)
(* Each piece is written by a goroutine, one WriteAt per file.  The        *)
(* process may end at any time between two system calls and be started     *)
(* again on what is on disk.                                               *)
(***************************************************************************)
EXTENDS Integers, Sequences, SequencesExt, FiniteSets, FiniteSetsExt

CONSTANTS
  Torrents,      \* records: file lengths, piece length, block size
  Writers,       \* goroutines that may write at the same time
  MaxHandovers,  \* bound: times a piece is handed over in one session
  MaxStarts,     \* bound: how often the process is started
  Idle           \* a writer that has nothing to do

ASSUME StorageAssumption ==
  /\ \A t \in Torrents :
       /\ t.lengths \in Seq(Nat) /\ t.lengths # << >>
       /\ t.blockSize \in Nat \ {0} /\ t.pieceLength \in Nat \ {0}
  /\ MaxHandovers \in Nat /\ MaxStarts \in Nat

ASSUME IdleAssumption ==
  Idle \notin [phase : {"writing", "report", "stats"}, piece : Nat, file : Nat,
               offset : Nat, data : Seq(Nat)]

VARIABLES
  torrent,         \* diskio.metaInfo
  files,           \* what is on disk
  running,
  starts,          \* how often the process has been started
  found,           \* what Verify returned when it was
  finishedPieces,  \* the controller's
  writer,          \* the goroutines of DiskIO.Run
  handed,          \* how often each piece was handed over since the start
  left             \* stats.Left

stvars == <<torrent, files, running, starts, found, finishedPieces, writer,
            handed, left>>

Lengths     == torrent.lengths
PieceLength == torrent.pieceLength
BlockSize   == torrent.blockSize
Files       == DOMAIN Lengths

\* How many bytes of the torrent come before file i.
FileStart(i) ==
  LET before[j \in 1 .. Len(Lengths) + 1] ==
        IF j = 1 THEN 0 ELSE before[j - 1] + Lengths[j - 1]
  IN  before[i]

totalLength == FileStart(Len(Lengths) + 1)
numPieces   == (totalLength + PieceLength - 1) \div PieceLength
Pieces      == 0 .. numPieces - 1

PositionsOf(p) == (p * PieceLength + 1) .. Min({(p + 1) * PieceLength, totalLength})
PieceData(p)   == [k \in 1 .. Cardinality(PositionsOf(p)) |-> p * PieceLength + k]

Contents == FlattenSeq(files)
\* The bytes of a piece where they belong.
ByteAt(k) ==
  LET i == CHOOSE i \in Files : FileStart(i) < k /\ k <= FileStart(i) + Lengths[i]
      j == k - FileStart(i)
  IN  IF j <= Len(files[i]) THEN files[i][j] ELSE 0

Intact(p) == \A k \in PositionsOf(p) : ByteAt(k) = k

-----------------------------------------------------------------------------
(* The block arithmetic of a peer.                                         *)

expectedLengthForPiece(p) ==
  IF p = numPieces - 1 /\ totalLength % PieceLength # 0
  THEN totalLength % PieceLength ELSE PieceLength

expectedLengthForBlock(p, b) ==
  IF p = numPieces - 1 /\ b * BlockSize + BlockSize > expectedLengthForPiece(p)
  THEN (totalLength % PieceLength) % BlockSize ELSE BlockSize

FaultyNumBlocks(p) ==  \* forgets the incomplete last block
  expectedLengthForPiece(p) \div BlockSize

expectedNumBlocksForPiece(p) ==
  IF p = numPieces - 1 /\ expectedLengthForPiece(p) # PieceLength
  THEN expectedLengthForPiece(p) \div BlockSize + 1
  ELSE PieceLength \div BlockSize

\* Every byte of the piece is in one of the blocks that a peer requests for it.
Covered(p) ==
  \A k \in 0 .. Len(PieceData(p)) - 1 :
    \E b \in 0 .. expectedNumBlocksForPiece(p) - 1 :
      b * BlockSize <= k /\ k < b * BlockSize + expectedLengthForBlock(p, b)

-----------------------------------------------------------------------------
(* Starting.                                                               *)

FaultyVerify ==  \* does not look at the incomplete piece at the end
  {p \in Pieces : LET n == (p + 1) * PieceLength
                  IN  n <= Len(Contents)
                      /\ SubSeq(Contents, p * PieceLength + 1, n) = PieceData(p)}

\* What is on disk is read as one stream, file after file up to its current
\* end, and cut into pieces.
Verify ==
  {p \in Pieces :
     LET chunk == SubSeq(Contents, p * PieceLength + 1,
                         Min({(p + 1) * PieceLength, Len(Contents)}))
     IN  chunk # << >> /\ chunk = PieceData(p)}

calcBytesLeft(bytesLeft, pieces) == bytesLeft - PieceLength * Cardinality(pieces)

\* Torrent.Run: files that do not exist are created empty.
Start ==
  /\ ~running /\ starts < MaxStarts
  /\ running' = TRUE
  /\ starts' = starts + 1
  /\ found' = Verify
  /\ finishedPieces' = found'
  /\ left' = calcBytesLeft(totalLength, found')
  /\ handed' = [p \in Pieces |-> 0]
  /\ UNCHANGED <<torrent, files, writer>>

\* The signal handler, a log.Fatal, or the machine.
End ==
  /\ running
  /\ running' = FALSE
  /\ writer' = [w \in Writers |-> Idle]
  /\ UNCHANGED <<torrent, files, starts, found, finishedPieces, handed, left>>

-----------------------------------------------------------------------------
(* Writing a piece.                                                        *)

\* os.File.WriteAt: what lies between the old end and the offset reads as 0.
WriteAt(content, data, offset) ==
  IF data = << >> THEN content
  ELSE [k \in 1 .. Max({Len(content), offset + Len(data)}) |->
          IF k > offset /\ k <= offset + Len(data) THEN data[k - offset]
          ELSE IF k <= Len(content) THEN content[k] ELSE 0]

\* A peer hands over a piece with the right hash, which it can only have for a
\* piece that its blocks cover.  In the end game another peer may do so too.  The
\* data is the peer's buffer, taken here to be what was checked: that the peer may
\* fill it again meanwhile is the subject of DiskGood in module PieceDownload.
HandOver(w, p) ==
  /\ running
  /\ writer[w] = Idle
  /\ Covered(p)
  /\ p \notin found /\ handed[p] < MaxHandovers
  /\ handed' = [handed EXCEPT ![p] = @ + 1]
  /\ writer' = [writer EXCEPT ![w] =
       [phase |-> "writing", piece |-> p, file |-> 1, offset |-> p * PieceLength,
        data |-> PieceData(p)]]
  /\ UNCHANGED <<torrent, files, running, starts, found, finishedPieces, left>>

FaultyFitting(g) == Len(g.data)  \* does not stop at the end of the file

\* maxWriteCurrentFile
Fitting(g) == Min({Len(g.data), Lengths[g.file] - g.offset})

FaultyNextFile(g) ==  \* the offset is not reset
  IF g.offset > Lengths[g.file]
  THEN [g EXCEPT !.file = @ + 1, !.offset = @ - Lengths[g.file]]
  ELSE [g EXCEPT !.file = @ + 1,
                 !.data = SubSeq(@, Fitting(g) + 1, Len(@))]

\* What an iteration of the loop in writePiece leaves of offset and data.
NextFile(g) ==
  IF g.offset > Lengths[g.file]
  THEN [g EXCEPT !.file = @ + 1, !.offset = @ - Lengths[g.file]]
  ELSE [g EXCEPT !.file = @ + 1, !.offset = 0,
                 !.data = SubSeq(@, Fitting(g) + 1, Len(@))]

\* One iteration: the file is skipped, or gets what fits into it.
WriteFile(w) ==
  LET g    == writer[w]
      rest == NextFile(g)
      last == rest.data = << >> \/ g.file = Len(Lengths)
  IN  /\ g # Idle /\ g.phase = "writing"
      /\ files' = IF g.offset > Lengths[g.file] THEN files
                  ELSE [files EXCEPT ![g.file] =
                          WriteAt(@, SubSeq(g.data, 1, Fitting(g)), g.offset)]
      /\ writer' = [writer EXCEPT ![w] =
                      IF last THEN [rest EXCEPT !.phase = "report"] ELSE rest]
      /\ UNCHANGED <<torrent, running, starts, found, finishedPieces, handed, left>>

ReportPiece(w) ==
  /\ writer[w] # Idle /\ writer[w].phase = "report"
  /\ finishedPieces' = finishedPieces \cup {writer[w].piece}
  /\ writer' = [writer EXCEPT ![w].phase = "stats"]
  /\ UNCHANGED <<torrent, files, running, starts, found, handed, left>>

FaultyReportBytes(w) ==  \* the slice that writePiece has used up
  /\ writer[w] # Idle /\ writer[w].phase = "stats"
  /\ left' = left - Len(writer[w].data)
  /\ writer' = [writer EXCEPT ![w] = Idle]
  /\ UNCHANGED <<torrent, files, running, starts, found, finishedPieces, handed>>

\* writePiece works on a copy of the slice: its length is still the piece's.
ReportBytes(w) ==
  /\ writer[w] # Idle /\ writer[w].phase = "stats"
  /\ left' = left - Len(PieceData(writer[w].piece))
  /\ writer' = [writer EXCEPT ![w] = Idle]
  /\ UNCHANGED <<torrent, files, running, starts, found, finishedPieces, handed>>

-----------------------------------------------------------------------------
(* Reading a block for a remote peer, which asks for what we have.         *)

\* os.File.ReadAt: all of it, or io.EOF.
ReadAt(content, offset, length) ==
  IF offset + length <= Len(content) THEN SubSeq(content, offset + 1, offset + length)
  ELSE << >>

FaultyRequestBlock(offset, length) ==  \* offset in the torrent, not in the file
  LET i == Min({j \in Files : offset - FileStart(j) <= Lengths[j]})
  IN  ReadAt(files[i], offset, length)

\* The loop stops at the first file that the rest of the offset does not
\* exceed, and reads from that file only.
requestBlock(offset, length) ==
  LET i == Min({j \in Files : offset - FileStart(j) <= Lengths[j]})
  IN  ReadAt(files[i], offset - FileStart(i), length)

\* The blocks of a piece that another client asks for.
Blocks(p) == 0 .. (Len(PieceData(p)) - 1) \div BlockSize
LengthOf(p, b) == Min({BlockSize, Len(PieceData(p)) - b * BlockSize})

\* The data goes to the remote peer (see module Exchange); readBlock ends the
\* process if there is an error.
RequestBlock(p, b) ==
  /\ running
  /\ p \in finishedPieces
  /\ running' = (requestBlock(p * PieceLength + b * BlockSize, LengthOf(p, b)) # << >>)
  /\ writer' = IF running' THEN writer ELSE [w \in Writers |-> Idle]
  /\ UNCHANGED <<torrent, files, starts, found, finishedPieces, handed, left>>

-----------------------------------------------------------------------------

StInit ==
  /\ torrent \in Torrents
  /\ files = [i \in Files |-> << >>]
  /\ running = FALSE /\ starts = 0
  /\ found = {} /\ finishedPieces = {}
  /\ writer = [w \in Writers |-> Idle]
  /\ handed = [p \in Pieces |-> 0]
  /\ left = 0

StNext ==
  \/ Start \/ End
  \/ \E w \in Writers, p \in Pieces : HandOver(w, p)
  \/ \E w \in Writers : WriteFile(w) \/ ReportPiece(w) \/ ReportBytes(w)
  \/ \E p \in Pieces : \E b \in Blocks(p) : RequestBlock(p, b)

StSpec == StInit /\ [][StNext]_stvars
-----------------------------------------------------------------------------
(* Properties.                                                             *)

StTypeOK ==
  /\ torrent \in Torrents
  /\ DOMAIN files = Files
  /\ \A i \in Files : /\ files[i] \in Seq(0 .. totalLength)
                      /\ Len(files[i]) <= Lengths[i]
  /\ running \in BOOLEAN /\ starts \in 0 .. MaxStarts
  /\ found \subseteq Pieces /\ finishedPieces \subseteq Pieces
  /\ handed \in [Pieces -> 0 .. MaxHandovers]
  /\ left \in Int
  /\ \A w \in Writers :
       writer[w] # Idle => /\ writer[w].phase \in {"writing", "report", "stats"}
                           /\ writer[w].piece \in Pieces
                           /\ writer[w].offset \in Nat

\* A piece that the controller counts, because it was found at the start or
\* reported since, is on disk as it should be, in whatever files it lies: no
\* crash between the writes of a piece makes the next start believe in it, and
\* writers at work beside each other do not disturb it.
FinishedIntact == running => \A p \in finishedPieces : Intact(p)

\* Once every file has its length, Verify returns exactly the pieces that are
\* right: no piece is claimed that is not on disk, and none is forgotten.
VerifyExactFull ==
  (\A i \in Files : Len(files[i]) = Lengths[i]) => Verify = {p \in Pieces : Intact(p)}

\* A request for a block of a finished piece returns the right bytes if the
\* block lies in one file and does not begin where the file before ends; any
\* other ends the process (line 262: "FIXME: Handle offset with multiple files
\* correctly"), but never returns wrong bytes.
InOneFile(offset, length) ==
  \E i \in Files : /\ FileStart(i) < offset \/ i = 1
                   /\ offset + length <= FileStart(i) + Lengths[i]

BlocksServed ==
  running =>
    \A p \in finishedPieces : \A b \in Blocks(p) :
      LET offset == p * PieceLength + b * BlockSize
          length == LengthOf(p, b)
      IN  requestBlock(offset, length) =
            IF InOneFile(offset, length) THEN [k \in 1 .. length |-> offset + k] ELSE << >>

\* stats.Left counts the bytes that are not on disk, if no piece has been
\* written twice and the shorter last piece was not there at the start.
LeftExact ==
  running /\ (\A w \in Writers : writer[w] = Idle) /\ (\A p \in Pieces : handed[p] <= 1)
    /\ (\A p \in found : Len(PieceData(p)) = PieceLength)
    => left = Cardinality(UNION {PositionsOf(p) : p \in Pieces \ finishedPieces})

HasEmptyBlock(p) ==
  \E b \in 0 .. expectedNumBlocksForPiece(p) - 1 : expectedLengthForBlock(p, b) = 0

\* The blocks that a peer requests for a piece lie in it without overlap, also
\* when the last piece or its last block is shorter.  They cover a last piece that
\* is shorter than the others, and they cover the other pieces exactly if the
\* piece length, which comes from the torrent file, is a multiple of the block
\* size.  A block without bytes is requested exactly for a shorter last piece of
\* whole blocks.
BlocksTile ==
  \A p \in Pieces :
    /\ expectedLengthForPiece(p) = Len(PieceData(p))
    /\ \A b \in 0 .. expectedNumBlocksForPiece(p) - 1 :
         /\ expectedLengthForBlock(p, b) <= BlockSize
         /\ b * BlockSize + expectedLengthForBlock(p, b) <= Len(PieceData(p))
    /\ Covered(p) <=> Len(PieceData(p)) < PieceLength \/ PieceLength % BlockSize = 0
    /\ HasEmptyBlock(p) <=> Len(PieceData(p)) < PieceLength /\ Len(PieceData(p)) % BlockSize = 0

-----------------------------------------------------------------------------
(* Statements of the code's comments and messages.                         *)

\* "Verify reads in each file and verifies the SHA-1 checksum of each piece.
\* Return the boolean list pieces that are correct."
VerifyExact ==
  running /\ (\A p \in Pieces : handed[p] = 0) => found = {p \in Pieces : Intact(p)}

\* "Left int // bytes left to download"
LeftRight ==
  running /\ (\A w \in Writers : writer[w] = Idle)
    => left = Cardinality(UNION {PositionsOf(p) : p \in Pieces \ finishedPieces})

\* "invalid payload size" (a block of no bytes has 8 bytes of payload, at least 9
\* are expected): no block of length 0 is requested.
NoEmptyBlock == \A p \in Pieces : ~HasEmptyBlock(p)

\* "Finished downloading all blocks for piece": the blocks that are counted make
\* up the whole piece.
BlocksCover == \A p \in Pieces : Covered(p)

===============================================================================
