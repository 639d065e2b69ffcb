-------------------------------- MODULE ExrFile --------------------------------
(***************************************************************************)
(* SaveEXR and LoadEXR: the image is cut into blocks of lines, which       *)
(* worker threads encode; the blocks are laid out behind a header and a    *)
(* table of their offsets; some first part of the file reaches the disk;   *)
(* threads decode the blocks they find there.                              *)
(*                                                                         *)
(* Abstractions: bytes are counted, not modelled, so a block is the number *)
(* of its first line and the length of its data; the compression may make  *)
(* any length out of a block that is not longer than its lines.  Only the  *)
(* single-part scanline images that the tool saves are read.               *)
(***************************************************************************)
EXTENDS Integers

CONSTANTS
  NumThreads, \* hardware_concurrency()
  MaxHeight,  \* bound: lines of the image
  BlockLines, \* 16: lines of a compressed block
  LineSize,   \* bytes of a line
  HeaderSize, EntrySize, BlockHead \* bytes of the header, of an offset, of a block's head

ASSUME ExrAssumption ==
  /\ \A n \in {NumThreads, MaxHeight, BlockLines, LineSize, HeaderSize, EntrySize, BlockHead} :
       n \in Nat \ {0}

VARIABLES
  pc,      \* "encode", "layout", "write", "read", "decode", "loaded" or "failed"
  height, zip,
  next,    \* the atomic counter the threads share; the block to be laid out
  at,      \* at[t]: the block thread t works on, Idle or Gone
  data,    \* data[b]: first line and length of the encoded block b
  offsets, \* the offset table
  end,     \* where the next block is laid out: total_size in the end
  size,    \* size of the file on the disk
  invalid, \* the flag the threads share
  line     \* line[l]: which line of the saved image has been decoded to line l

saved == <<height, zip, data, offsets, end>>
vars == <<pc, saved, next, at, size, invalid, line>>

Idle == -1
Gone == -2
Unread == -1
Missing == [first |-> 0, length |-> 0]

Threads == 1..NumThreads
Smaller(a, b) == IF a <= b THEN a ELSE b

NumScanlines == IF zip THEN BlockLines ELSE 1
BlockCount == (height + NumScanlines - 1) \div NumScanlines
Blocks == 0..BlockCount-1

\* The lines from line `first` on that are in one block.
NumLines(first) == Smaller(first + NumScanlines, height) - first

TypeOK ==
  /\ pc \in {"encode", "layout", "write", "read", "decode", "loaded", "failed"}
  /\ height \in 1..MaxHeight /\ zip \in BOOLEAN
  /\ next \in Nat
  /\ at \in [Threads -> Blocks \cup {Idle, Gone}]
  /\ data \in [Blocks -> [first : 0..height-1, length : 0..BlockLines * LineSize]]
  /\ offsets \in [Blocks -> Nat]
  /\ end \in Nat /\ size \in Nat /\ invalid \in BOOLEAN
  /\ line \in [0..height-1 -> {Unread} \cup (0..height-1)]

\* min(hardware_concurrency, num_blocks) threads are started.
Started == [t \in Threads |-> IF t <= BlockCount THEN Idle ELSE Gone]

Init ==
  /\ pc = "encode"
  /\ height \in 1..MaxHeight /\ zip \in BOOLEAN
  /\ next = 0 /\ at = Started
  /\ data = [b \in Blocks |-> Missing]
  /\ offsets = [b \in Blocks |-> 0]
  /\ end = 0 /\ size = 0 /\ invalid = FALSE
  /\ line = [l \in 0..height-1 |-> Unread]
-------------------------------------------------------------------------------
\* Mutant: the counter is read and written back in two steps.
Claim_Torn(t) ==
  /\ pc \in {"encode", "decode"} /\ at[t] = Idle
  /\ next' \in {next, next + 1}
  /\ at' = [at EXCEPT ![t] = IF next < BlockCount THEN next ELSE Gone]
  /\ UNCHANGED <<pc, saved, size, invalid, line>>

\* Mutant: the last thread to look takes a block too many.
Claim_PastEnd(t) ==
  /\ pc \in {"encode", "decode"} /\ at[t] = Idle
  /\ next' = next + 1
  /\ at' = [at EXCEPT ![t] = IF next <= BlockCount THEN next ELSE Gone]
  /\ UNCHANGED <<pc, saved, size, invalid, line>>

\* while ((i = block_count++) < num_blocks)
Claim(t) ==
  /\ pc \in {"encode", "decode"} /\ at[t] = Idle
  /\ next' = next + 1
  /\ at' = [at EXCEPT ![t] = IF next < BlockCount THEN next ELSE Gone]
  /\ UNCHANGED <<pc, saved, size, invalid, line>>

Raw(first) == NumLines(first) * LineSize

\* CompressZip keeps the lines as they are if that is not longer.
Lengths(first) == IF zip THEN 1..Raw(first) ELSE {Raw(first)}

\* A block is encoded.  EncodePixelData fails only for a compression that it does
\* not know, and SaveEXR asks for ZIP or for none.
Encode(t) ==
  /\ pc = "encode" /\ at[t] \in Blocks
  /\ LET first == NumScanlines * at[t]
     IN  \E n \in Lengths(first) :
           data' = [data EXCEPT ![at[t]] = [first |-> first, length |-> n]]
  /\ at' = [at EXCEPT ![t] = Idle]
  /\ UNCHANGED <<pc, height, zip, offsets, end, next, size, invalid, line>>

\* Mutant: the threads count as joined when the counter stands at the end.
Joined_Counter == next = BlockCount

Joined == \A t \in Threads : at[t] = Gone

\* All threads are joined; the blocks begin behind the table.
Join ==
  /\ pc = "encode" /\ Joined
  /\ next' = 0
  /\ end' = HeaderSize + BlockCount * EntrySize
  /\ pc' = "layout"
  /\ UNCHANGED <<height, zip, data, offsets, at, size, invalid, line>>

LayOut ==
  /\ pc = "layout"
  /\ offsets' = [offsets EXCEPT ![next] = end]
  /\ end' = end + BlockHead + data[next].length
  /\ next' = next + 1
  /\ pc' = IF next + 1 < BlockCount THEN "layout" ELSE "write"
  /\ UNCHANGED <<height, zip, data, at, size, invalid, line>>

\* The whole file or, if the program or the disk fails, a first part of it.
Write ==
  /\ pc = "write"
  /\ size' \in 0..end
  /\ pc' = "read"
  /\ UNCHANGED <<saved, next, at, invalid, line>>
-------------------------------------------------------------------------------
\* The header is complete, and all entries of the table lie in the file and point
\* into it.
TableReadable ==
  /\ size >= HeaderSize
  /\ \A b \in Blocks : /\ HeaderSize + (b + 1) * EntrySize < size
                       /\ offsets[b] < size

ReadFails ==
  /\ pc = "read" /\ ~TableReadable
  /\ pc' = "failed"
  /\ UNCHANGED <<saved, next, at, size, invalid, line>>

ReadTable ==
  /\ pc = "read" /\ TableReadable
  /\ next' = 0 /\ at' = Started
  /\ pc' = "decode"
  /\ UNCHANGED <<saved, size, invalid, line>>

\* Mutant: the length of the data is not compared with what is left of the file.
Readable_HeadOnly(b) == offsets[b] + BlockHead <= size /\ data[b].length # 0

\* Head and data of the block lie in the file.
Readable(b) ==
  /\ offsets[b] + BlockHead <= size
  /\ data[b].length <= size - (offsets[b] + BlockHead)
  /\ data[b].length # 0

\* Mutant: the number of the block is taken for that of its first line.
PackedTarget_Block(b) == b

\* Compressed lines go where the head of the block says, others by its number.
PackedTarget(b) == data[b].first
RawTarget(b) == b
Target(b) == IF zip THEN PackedTarget(b) ELSE RawTarget(b)

Decode(t) ==
  /\ pc = "decode" /\ at[t] \in Blocks
  /\ LET b == at[t]
         shift(l) == l - Target(b)
     IN  IF Readable(b)
         THEN /\ line' = [l \in 0..height-1 |->
                           IF shift(l) \in 0..NumLines(data[b].first)-1
                           THEN data[b].first + shift(l) ELSE line[l]]
              /\ UNCHANGED invalid
         ELSE invalid' = TRUE /\ UNCHANGED line
  /\ at' = [at EXCEPT ![t] = Idle]
  /\ UNCHANGED <<pc, saved, next, size>>

Finish ==
  /\ pc = "decode" /\ Joined
  /\ pc' = IF invalid THEN "failed" ELSE "loaded"
  /\ UNCHANGED <<saved, next, at, size, invalid, line>>

Main == Join \/ LayOut \/ Write \/ ReadFails \/ ReadTable \/ Finish
Worker(t) == Claim(t) \/ Encode(t) \/ Decode(t)

Next == Main \/ \E t \in Threads : Worker(t)

\* The system goes on running the main thread and each worker.
Spec == Init /\ [][Next]_vars /\ WF_vars(Main) /\ \A t \in Threads : WF_vars(Worker(t))
-------------------------------------------------------------------------------
\* No two threads are at one block: data_list[i] and the lines of the image are
\* written without a lock (tinyexr.h:6843, 5006).
NeverShared ==
  \A t, u \in Threads : t # u /\ at[t] \in Blocks => at[t] # at[u]

\* An image that loads is the one that was saved, line by line, whatever the order
\* in which threads took the blocks (tinyexr.h:6853, 5049).
RoundTrip ==
  pc = "loaded" => \A l \in DOMAIN line : line[l] = l

\* A file that is cut off anywhere does not load: DefaultLightmapDenoiser and its
\* models take a lightmap that loads for a complete one (tinyexr.h:5018, 5036, 5637).
TruncatedRefused ==
  size < end => pc # "loaded"

\* A complete file loads; the checks are not too strict by one byte.
CompleteLoads ==
  pc = "failed" => size < end

\* A file loads if and only if all of it is there.
LoadsIfWhole == TruncatedRefused /\ CompleteLoads

\* The threads are joined in the end, and the image is loaded or refused.
Terminates == <>(pc \in {"loaded", "failed"})
===============================================================================
