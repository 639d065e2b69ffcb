-------------------------------- MODULE Tiling --------------------------------
(***************************************************************************)
(* How an image is cut into overlapping tiles (UNetFilter::computeTileSize)*)
(* and how execute() runs the network over them, under a progress monitor  *)
(* that may cancel it after every node.                                    *)
(*                                                                         *)
(* A tile of the network's input carries Overlap pixels of context on each *)
(* side that is not a side of the image; only its middle is written.  The  *)
(* scratch size that decides when the tiles are small enough is left out:  *)
(* the search may stop at any size, which covers every limit on memory.    *)
(* Of the nodes of the network the first reads the image and the last      *)
(* writes the result; module NetPlan has what happens between them.        *)
(* Before the first tile the exposure of an HDR image is measured over     *)
(* blocks of pixels, unless the user gives it; of the measurement only the *)
(* blocks matter here, not the luminances.                                 *)
(***************************************************************************)
EXTENDS Integers, FiniteSets

CONSTANTS
  Alignment,  \* 16: the network halves an image four times
  Overlap,    \* 96: half its receptive field, rounded up to the alignment
  NetNodes,   \* number of nodes of the network (26 in buildNet)
  K,          \* 16: the image is downsampled by it to measure the exposure
  MaxH, MaxW  \* bounds: height and width of the images

ASSUME TilingAssumption ==
  /\ Alignment \in Nat \ {0}
  /\ Overlap \in Nat \ {0} /\ Overlap % Alignment = 0
  /\ NetNodes \in Nat \ {0, 1}
  /\ K \in Nat \ {0} /\ K % 2 = 0
  /\ MaxH \in Nat \ {0} /\ MaxW \in Nat \ {0}

VARIABLES
  pc,        \* "search", "count", "begin", "scale", "tiles", "finish", "done" or
             \* "cancelled"
  H, W,
  inplace,   \* does the output overlap the input?
  tileH, tileW,
  countH, countW,
  outputTemp, \* are the tiles written to a temporary image?
  exposure,  \* "unset", "given" (by the user, or 1 for LDR images) or "measured"
  i, j, node, \* the tile and the node execute() is at
  current,   \* what the progress monitor has been told last (in nodes)
  written,   \* written[<<h, w>>]: how often the tiles have written the pixel
  copied     \* has the temporary image been copied to the output?

image == <<H, W, inplace>>
size == <<tileH, tileW, countH, countW>>
work == <<i, j, node, current, written, copied>>
vars == <<pc, image, size, outputTemp, exposure, work>>

Larger(a, b) == IF a >= b THEN a ELSE b
Smaller(a, b) == IF a <= b THEN a ELSE b
CeilDiv(a, b) == (a + b - 1) \div b
RoundUp(a, b) == CeilDiv(a, b) * b

minTileSize == 3 * Overlap
Pixels == (0..MaxH-1) \X (0..MaxW-1)

\* Mutant: the copy of the temporary image is not counted.
total_WithoutCopy == countH * countW * NetNodes

\* The work a call of execute() announces.
total == countH * countW * NetNodes + (IF outputTemp THEN 1 ELSE 0)

TypeOK ==
  /\ pc \in {"search", "count", "begin", "scale", "tiles", "finish", "done", "cancelled"}
  /\ H \in 1..MaxH /\ W \in 1..MaxW
  /\ inplace \in BOOLEAN /\ outputTemp \in BOOLEAN /\ copied \in BOOLEAN
  /\ tileH \in Nat \ {0} /\ tileW \in Nat \ {0}
  /\ tileH % Alignment = 0 /\ tileW % Alignment = 0
  /\ countH \in Nat \ {0} /\ countW \in Nat \ {0}
  /\ i \in 0..countH /\ j \in 0..countW-1 /\ node \in 0..NetNodes-1
  /\ current \in 0..total
  /\ written \in [Pixels -> Nat]
  /\ exposure \in {"unset", "given", "measured"}

Init ==
  /\ pc = "search"
  /\ H \in 1..MaxH /\ W \in 1..MaxW
  /\ inplace \in BOOLEAN
  /\ tileH = RoundUp(H, Alignment) /\ tileW = RoundUp(W, Alignment)
  /\ countH = 1 /\ countW = 1
  /\ outputTemp = FALSE /\ exposure = "unset"
  /\ i = 0 /\ j = 0 /\ node = 0
  /\ current = 0 /\ copied = FALSE
  /\ written = [p \in Pixels |-> 0]
-------------------------------------------------------------------------------
\* Mutant: the result is not rounded up to the alignment.
Cut_Unaligned(n, count) == Larger(CeilDiv(n - 2 * Overlap, count) + 2 * Overlap, minTileSize)

\* Mutant: the least size is one the search goes on cutting.
Cut_Endless(n, count) ==
  Larger(RoundUp(CeilDiv(n - 2 * Overlap, count), Alignment) + 2 * Overlap,
         minTileSize + Alignment)

\* The size of a tile if n pixels are cut into count tiles.
Cut(n, count) ==
  Larger(RoundUp(CeilDiv(n - 2 * Overlap, count), Alignment) + 2 * Overlap, minTileSize)

HigherThanWide == tileH > minTileSize /\ tileH > tileW

CutH ==
  /\ pc = "search"
  /\ HigherThanWide
  /\ countH' = countH + 1
  /\ tileH' = Cut(H, countH + 1)
  /\ UNCHANGED <<pc, image, tileW, countW, outputTemp, exposure, work>>

CutW ==
  /\ pc = "search"
  /\ ~HigherThanWide /\ tileW > minTileSize
  /\ countW' = countW + 1
  /\ tileW' = Cut(W, countW + 1)
  /\ UNCHANGED <<pc, image, tileH, countH, outputTemp, exposure, work>>

\* The scratch memory fits, or the tiles cannot be cut any further.
StopSearch ==
  /\ pc = "search"
  /\ pc' = "count"
  /\ UNCHANGED <<image, size, outputTemp, exposure, work>>

\* Mutant: one tile too few when the last one is not full.
CountOf_Floor(n, tile) ==
  IF n > tile THEN (n - 2 * Overlap) \div (tile - 2 * Overlap) ELSE 1

\* The final number of tiles, which may be less than the number of cuts.
CountOf(n, tile) ==
  IF n > tile THEN CeilDiv(n - 2 * Overlap, tile - 2 * Overlap) ELSE 1

\* Mutant: one row of tiles needs no temporary image.
NeedsTemp_Rows(h, w) == inplace /\ h > 1

\* In-place tiled filtering needs a temporary image for the output.
NeedsTemp(h, w) == inplace /\ h * w > 1

CountTiles ==
  /\ pc = "count"
  /\ countH' = CountOf(H, tileH)
  /\ countW' = CountOf(W, tileW)
  /\ outputTemp' = NeedsTemp(countH', countW')
  /\ pc' = "begin"
  /\ UNCHANGED <<image, tileH, tileW, exposure, work>>

\* One dimension of a tile: n pixels of image, tile t of count, size of a tile.
Pos(t, tile) == t * (tile - 2 * Overlap)
OverlapBegin(t) == IF t > 0 THEN Overlap ELSE 0
OverlapEnd(t, count) == IF t < count - 1 THEN Overlap ELSE 0
SizeIn(n, t, tile) == Smaller(n - Pos(t, tile), tile)
SizeOut(n, t, tile, count) ==
  SizeIn(n, t, tile) - OverlapBegin(t) - OverlapEnd(t, count)

\* Mutant: the size of a partial tile is not rounded up to the alignment.
AlignOffset_Unaligned(n, t, tile) == tile - SizeIn(n, t, tile)

\* A partial tile is put at the end of the tile buffer.
AlignOffset(n, t, tile) == tile - RoundUp(SizeIn(n, t, tile), Alignment)

\* The pixels of the image that tile t writes.
First(t, tile) == Pos(t, tile) + OverlapBegin(t)
Out(n, t, tile, count) ==
  First(t, tile) .. (First(t, tile) + SizeOut(n, t, tile, count) - 1)

\* Mutant: the overlap with the tile above is written, too.
TilePixels_Overlap ==
  {p \in Pixels : /\ p[1] \in Pos(i, tileH) .. (Pos(i, tileH) + SizeIn(H, i, tileH) - 1)
                  /\ p[2] \in Out(W, j, tileW, countW)}

\* The pixels OutputReorder writes for the tile execute() is at.
TilePixels ==
  {p \in Pixels : p[1] \in Out(H, i, tileH, countH) /\ p[2] \in Out(W, j, tileW, countW)}

\* The Progress object is made: the monitor is called before anything is done.
Begin ==
  /\ pc = "begin"
  /\ pc' \in {"scale", "cancelled"}
  /\ UNCHANGED <<image, size, outputTemp, exposure, work>>

\* One dimension of the blocks of getAutoexposure: their number, which is zero for
\* an image of less than half a block, and the pixels of the b-th one.
NumBlocks(n) == (n + K \div 2) \div K

\* Mutant: the blocks have a fixed size.
Block_Fixed(n, b) == b * K .. (b + 1) * K - 1

Block(n, b) == (b * n) \div NumBlocks(n) .. ((b + 1) * n) \div NumBlocks(n) - 1

\* An HDR image for which the user gives no scale is measured.
SetInputScale ==
  /\ pc = "scale"
  /\ exposure' \in {"given", "measured"}
  /\ pc' = "tiles"
  /\ UNCHANGED <<image, size, outputTemp, work>>

LastNode == node + 1 = NetNodes

\* The loops of execute() and of Network::execute().
Advance ==
  IF ~LastNode THEN node' = node + 1 /\ pc' = "tiles" /\ UNCHANGED <<i, j>>
  ELSE /\ node' = 0
       /\ IF j + 1 < countW THEN j' = j + 1 /\ pc' = "tiles" /\ UNCHANGED i
          ELSE /\ j' = 0 /\ i' = i + 1
               /\ pc' = IF i + 1 < countH THEN "tiles" ELSE "finish"

\* A node runs; then the monitor is called and may cancel the execution.
RunNode ==
  /\ pc = "tiles"
  /\ written' = [p \in Pixels |->
                   IF LastNode /\ p \in TilePixels THEN written[p] + 1 ELSE written[p]]
  /\ current' = Smaller(current + 1, total)
  /\ \/ Advance
     \/ pc' = "cancelled" /\ UNCHANGED <<i, j, node>>
  /\ UNCHANGED <<image, size, outputTemp, exposure, copied>>

\* outputCopy and progress.finish(): total progress is reported if it has not been.
Finish ==
  /\ pc = "finish"
  /\ copied' = outputTemp
  /\ current' = total
  /\ \/ pc' = "done"
     \/ current < total /\ pc' = "cancelled"
  /\ UNCHANGED <<image, size, outputTemp, exposure, i, j, node, written>>

Next ==
  CutH \/ CutW \/ StopSearch \/ CountTiles \/ Begin \/ SetInputScale \/ RunNode \/ Finish

Spec == Init /\ [][Next]_vars
-------------------------------------------------------------------------------
InImage(p) == p[1] < H /\ p[2] < W
AllWritten == \A p \in Pixels : InImage(p) => written[p] = 1

\* Each pixel of the image is written by exactly one tile, none outside of it
\* (unet.cpp:148-186; the tiles' outputs partition the image).
WrittenOnce ==
  /\ \A p \in Pixels : written[p] <= 1 /\ (written[p] = 1 => InImage(p))
  /\ pc = "done" => AllWritten

\* A pixel written by a tile has Overlap pixels of the image around it in the
\* tile, or all there are: the result is that of the untiled network.
Context(n, t, tile, count) ==
  \A r \in Out(n, t, tile, count) :
    /\ Pos(t, tile) <= Larger(0, r - Overlap)
    /\ Pos(t, tile) + SizeIn(n, t, tile) >= Smaller(n, r + Overlap + 1)
EnoughContext ==
  pc = "tiles" => Context(H, i, tileH, countH) /\ Context(W, j, tileW, countW)

\* What is read for a tile lies in the image, fits into the tile buffer and keeps
\* its phase: a pixel's position in the buffer and in the image agree modulo the
\* alignment, so that the network halves the same pairs of pixels in all tiles.
InBuffer(n, t, tile, count) ==
  /\ Pos(t, tile) >= 0 /\ SizeIn(n, t, tile) > 0
  /\ AlignOffset(n, t, tile) >= 0
  /\ AlignOffset(n, t, tile) + SizeIn(n, t, tile) <= tile
  /\ SizeOut(n, t, tile, count) > 0
  /\ AlignOffset(n, t, tile) % Alignment = Pos(t, tile) % Alignment
PlacedInBuffer ==
  pc = "tiles" => InBuffer(H, i, tileH, countH) /\ InBuffer(W, j, tileW, countW)

\* The search for a tile size ends even if no size fits into the memory limit:
\* the number of cuts is bounded by the size of the image (unet.cpp:213-227).
CutsBounded ==
  /\ countH <= Larger(1, CeilDiv(H - 2 * Overlap, Overlap))
  /\ countW <= Larger(1, CeilDiv(W - 2 * Overlap, Overlap))

\* Where the exposure is measured, the blocks partition the image, unless it is smaller
\* than half a block, and have between K/2 and 3K/2 pixels on a side: no pixel is left
\* out or counts twice, and there is no average over nothing (color.cpp:37-65).
EvenBlocks(n) ==
  NumBlocks(n) > 0 =>
    /\ UNION {Block(n, b) : b \in 0..NumBlocks(n)-1} = 0..n-1
    /\ \A b \in 0..NumBlocks(n)-1 :
         /\ Cardinality(Block(n, b)) \in K \div 2 .. 3 * (K \div 2)
         /\ \A c \in 0..b-1 : Block(n, b) \cap Block(n, c) = {}
MeasuredOnce == exposure = "measured" => EvenBlocks(H) /\ EvenBlocks(W)

\* Has the image itself been written to, has it got the whole result?
Untouched == IF outputTemp THEN ~copied ELSE \A p \in Pixels : written[p] = 0
Complete == AllWritten /\ (outputTemp => copied)

\* Filtering in place, a tile never reads what another tile has written
\* (unet.cpp:180: the tiles follow one another over the same memory).
ReadsSource ==
  pc = "tiles" /\ node = 0 /\ inplace => Untouched

\* Wherever the monitor cancels an in-place execution, the image is the one it was
\* or the denoised one, never a mixture (progress.h:25 throws between any two nodes).
CancelledWhole ==
  pc = "cancelled" /\ inplace => Untouched \/ Complete

\* Total progress is told only of a complete result, and told of each complete
\* execution (progress.h:49 "Make sure total progress is reported at the end").
TotalMeansComplete ==
  /\ current = total => Complete
  /\ pc = "done" => current = total
===============================================================================
